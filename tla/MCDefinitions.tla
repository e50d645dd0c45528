---------------------------- MODULE MCDefinitions ----------------------------
(***************************************************************************)
(* Declarations and definitions: DECLARE, SET, EXEC, and CREATE, ALTER and *)
(* DROP of tables, indexes, views, routines and other objects, and the     *)
(* forms and families of MCServer.                                         *)
(***************************************************************************)
EXTENDS MCServer

Type    == <<"IDENT", "LPAREN", "INT", "COMMA", "INT", "RPAREN">>
Column  == <<"IDENT">> \o Type
Listed  == <<"LPAREN", "IDENT", "DESC", "COMMA", "IDENT", "RPAREN">>
Names2  == <<"LPAREN", "IDENT", "COMMA", "IDENT", "RPAREN">>
With    == <<"WITH", "LPAREN", "IDENT", "EQ", "IDENT", "LPAREN", "INT", "RPAREN", "RPAREN">>
Cascade == <<"ON", "DELETE", "CASCADE", "ON", "UPDATE", "SET", "NULL">>
Query   == <<"SELECT", "IDENT", "FROM", "IDENT">>
Block   == <<"BEGIN", "BREAK", "SEMICOLON", "BREAK", "END">>
Parameters == <<"VARIABLE", "AS">> \o Type \o <<"EQ", "INT", "OUTPUT", "COMMA", "VARIABLE", "IDENT", "READONLY">>

(* The elements of a table: columns with their options, then constraints.  *)
ColumnElements ==
    <<Column \o <<"NOT", "NULL", "IDENTITY", "LPAREN", "INT", "COMMA", "MINUS", "INT", "RPAREN">>,
      Column \o <<"COLLATE", "IDENT", "SPARSE", "NULL", "ROWGUIDCOL", "UNIQUE">>,
      Column \o <<"CONSTRAINT", "IDENT", "DEFAULT_KW", "INT", "CHECK", "LPAREN">> \o Comparison \o <<"RPAREN">>,
      Column \o <<"PRIMARY", "KEY", "NONCLUSTERED", "HASH">> \o With,
      Column \o <<"FOREIGN", "KEY", "REFERENCES">> \o Name \o <<"LPAREN", "IDENT", "RPAREN">> \o Cascade,
      Column \o <<"GENERATED", "ALWAYS", "AS", "ROW", "START", "NOT", "NULL", "INDEX", "IDENT", "CLUSTERED">>,
      <<"IDENT", "AS", "LPAREN", "INT", "PLUS", "IDENT", "RPAREN", "PERSISTED">>,
      <<"IDENT", "AS", "IDENT", "PLUS", "INT">>>>
ConstraintElements ==
    <<<<"CONSTRAINT", "IDENT", "PRIMARY", "KEY", "CLUSTERED">> \o Listed \o With,
      <<"UNIQUE", "NONCLUSTERED">> \o Listed,
      <<"CONSTRAINT", "IDENT", "FOREIGN", "KEY">> \o Names2 \o <<"REFERENCES">> \o Name \o Names2 \o Cascade,
      <<"CHECK", "LPAREN">> \o Comparison \o <<"RPAREN">>,
      <<"PERIOD", "FOR", "SYSTEM_TIME">> \o Names2,
      <<"INDEX", "IDENT", "CLUSTERED">> \o Listed>>
Further(elements) == [i \in DOMAIN elements |-> May(<<"COMMA">> \o elements[i])]
CreateTableForm ==
    <<Word(<<"CREATE", "TABLE">> \o Name \o <<"LPAREN">>), Must(Column)>>
        \o Further(ColumnElements) \o Further(ConstraintElements)
        \o <<Word(<<"RPAREN">>), Plain(With), Plain(<<"ON", "IDENT", "LPAREN", "IDENT", "RPAREN">>)>>
TableType == <<"TABLE", "LPAREN">> \o Column \o <<"COMMA", "PRIMARY", "KEY">> \o Listed \o <<"RPAREN">>

AlterTableActions ==
    {<<"ADD">> \o Column \o <<"NULL", "COMMA">> \o Column,
     <<"ADD", "CONSTRAINT", "IDENT", "DEFAULT_KW", "INT", "FOR", "IDENT">>,
     <<"ADD", "CONSTRAINT", "IDENT", "DEFAULT_KW", "LPAREN", "INT", "RPAREN">>,
     <<"ADD", "CHECK", "LPAREN">> \o Comparison \o <<"RPAREN">>,
     <<"DROP", "COLUMN", "IDENT">>, <<"DROP", "CONSTRAINT", "IDENT">>,
     <<"ALTER", "COLUMN", "IDENT">> \o Type,
     <<"ENABLE", "TRIGGER", "IDENT">>, <<"REBUILD", "WITH", "LPAREN", "IDENT", "EQ", "INT", "RPAREN">>,
     <<"SET", "LPAREN", "IDENT", "EQ", "INT", "RPAREN">>}
AlterTable(action) == <<Word(<<"ALTER", "TABLE">> \o Name), Must(action)>>

(* Statements that keep nothing String() dereferences.                     *)
PlainTexts ==
    {<<"ALTER", "TABLE", "IDENT", "CHECK", "CONSTRAINT", "IDENT">>,
     <<"ALTER", "TABLE", "IDENT", "WITH_CHECK", "NOCHECK", "CONSTRAINT", "IDENT">>,
     <<"DROP", "TABLE", "IF", "EXISTS">> \o Name \o <<"COMMA", "IDENT">>,
     <<"DROP", "VIEW">> \o Name, <<"DROP", "INDEX", "IDENT", "ON">> \o Name \o <<"COMMA", "IDENT", "ON", "IDENT">>,
     <<"DROP", "SEQUENCE">> \o Name, <<"DROP", "STATISTICS">> \o Name \o <<"COMMA">> \o Name,
     <<"DROP", "TRIGGER", "IDENT", "ON", "ALL", "SERVER">>, <<"DROP", "SERVER", "ROLE", "IDENT">>,
     <<"TRUNCATE", "TABLE">> \o Name, <<"TRUNCATE_TABLE">> \o Name,
     <<"TRUNCATE_TABLE", "IDENT", "WITH_PARTITIONS", "LPAREN", "INT", "TO", "INT", "COMMA", "INT", "RPAREN", "RPAREN">>,
     <<"SET", "NOCOUNT", "COMMA", "XACT_ABORT", "ON">>, <<"SET", "STATISTICS", "IDENT", "ON">>,
     <<"SET", "TRANSACTION", "ISOLATION", "LEVEL", "SNAPSHOT">>, <<"SET", "LANGUAGE", "IDENT">>,
     <<"EXECUTE", "AS", "USER", "EQ", "STRING">>, <<"REVERT">>, <<"RECONFIGURE">>,
     <<"OPEN", "IDENT">>, <<"CLOSE", "IDENT">>,
     <<"ENABLE", "TRIGGER", "IDENT", "ON">> \o Name, <<"DISABLE", "TRIGGER", "ALL", "ON", "ALL", "SERVER">>,
     <<"CREATE", "PRIMARY", "XML", "INDEX", "IDENT", "ON">> \o Name \o <<"LPAREN", "IDENT", "RPAREN">>,
     <<"ALTER", "INDEX", "IDENT", "ON">> \o Name \o <<"IDENT", "WITH", "LPAREN", "IDENT", "EQ", "ON", "RPAREN">>,
     <<"ALTER", "INDEX", "ALL", "ON", "IDENT", "SET", "LPAREN", "IDENT", "EQ", "ON", "COMMA", "IDENT", "RPAREN">>,
     <<"CREATE", "TYPE_WARNING">> \o Name \o <<"AS">> \o TableType \o With,
     <<"CREATE", "SYNONYM">> \o Name \o <<"FOR">> \o Name,
     <<"CREATE", "XML_SCHEMA_COLLECTION">> \o Name \o <<"AS", "STRING">>,
     <<"CREATE", "STATISTICS", "IDENT", "ON">> \o Name \o Names2,
     <<"UPDATE", "STATISTICS">> \o Name \o <<"IDENT">>,
     <<"BULK", "INSERT">> \o Name \o <<"FROM", "STRING", "WITH", "LPAREN", "IDENT", "EQ", "STRING", "COMMA",
                                        "IDENT", "LPAREN", "IDENT", "RPAREN", "RPAREN">>}
DelimitedTexts == {<<"EXEC", "IDENT">>, <<"ALTER", "DATABASE", "IDENT", "SET", "IDENT", "ON">>}

(* Statements with operands.                                               *)
DeclareForm  == <<Word(<<"DECLARE">>), Must(<<"VARIABLE">> \o Type), May(<<"COMMA", "VARIABLE", "AS", "IDENT", "EQ", "INT">>),
                  May(<<"COMMA", "VARIABLE">> \o TableType)>>
CursorForm   == <<Word(<<"DECLARE", "IDENT", "CURSOR">>), Plain(<<"LOCAL", "FAST_FORWARD">>), Must(<<"FOR">> \o Query),
                  Plain(<<"FOR", "UPDATE", "OF", "IDENT", "COMMA", "IDENT">>)>>
SetForm      == <<Word(<<"SET">>), Must(<<"VARIABLE">>), Must(<<"PLUSEQ", "INT">>)>>
MethodForm   == <<Word(<<"SET">>), Must(<<"VARIABLE", "DOT", "IDENT", "LPAREN", "STRING", "RPAREN">>)>>
ExecForm     == <<Word(<<"EXEC">>), Plain(<<"VARIABLE", "EQ">>), Word(Name), Must(<<"VARIABLE", "EQ", "INT">>),
                  May(<<"COMMA", "VARIABLE", "OUTPUT">>), Plain(<<"WITH", "RECOMPILE">>)>>
ResultForm   == <<Word(<<"EXECUTE", "IDENT">>), May(<<"INT">>),
                  Must(<<"WITH", "RESULT", "SETS", "LPAREN", "LPAREN", "IDENT">> \o Type \o <<"NOT", "NULL", "COMMA">>
                          \o Column \o <<"RPAREN", "RPAREN">>)>>
DynamicForm  == <<Word(<<"EXEC", "LPAREN">>), Must(<<"STRING", "PLUS", "VARIABLE">>), Word(<<"RPAREN">>),
                  Plain(<<"AT", "IDENT">>)>>
ViewForm     == <<Word(<<"CREATE", "OR", "ALTER", "VIEW">> \o Name), Plain(Names2), Plain(<<"WITH", "SCHEMABINDING">>),
                  Must(<<"AS">> \o Query), Plain(<<"WITH", "CHECK", "OPTION">>)>>
AlterView    == <<Word(<<"ALTER", "VIEW", "IDENT">>), Plain(Names2), Plain(<<"WITH", "SCHEMABINDING">>),
                  Must(<<"AS", "WITH">> \o Cte \o Query)>>
FunctionForm(returns, tail) ==
    <<Word(<<"CREATE", "FUNCTION">> \o Name \o <<"LPAREN">>), May(Parameters), Word(<<"RPAREN", "RETURNS">>)>>
        \o <<returns, Plain(<<"WITH", "EXECUTE", "AS", "IDENT">>)>> \o tail
AlterFunction == <<Word(<<"ALTER", "FUNCTION", "IDENT", "LPAREN">> \o Parameters \o <<"RPAREN", "RETURNS">>
                           \o Type \o <<"AS">> \o Block)>>
TriggerForm  == <<Word(<<"CREATE", "TRIGGER">> \o Name \o <<"ON">> \o Name), Plain(<<"WITH", "IDENT", "COMMA", "IDENT">>),
                  Word(<<"INSTEAD", "OF", "INSERT", "COMMA", "DELETE">>), Plain(<<"NOT", "FOR", "REPLICATION">>),
                  Must(<<"AS">> \o Block)>>
AlterTrigger == <<Word(<<"ALTER", "TRIGGER", "IDENT", "ON", "IDENT", "AFTER", "INSERT", "AS">> \o Block)>>
ProcedureForm(body) ==
    <<Word(<<"CREATE", "PROC">> \o Name), May(Parameters), Plain(<<"WITH", "RECOMPILE", "COMMA", "EXECUTE", "AS", "IDENT">>),
      Word(<<"AS">>)>> \o body
AlterProcedure(body) == <<Word(<<"ALTER", "PROCEDURE", "IDENT", "VARIABLE", "IDENT", "AS">> \o body)>>
Atomic       == <<"BEGIN_ATOMIC">> \o With \o Tail(Block)
IndexForm    == <<Word(<<"CREATE", "UNIQUE", "CLUSTERED", "INDEX", "IDENT", "ON">> \o Name \o Listed),
                  Plain(<<"INCLUDE">> \o Names2), Plain(With), May(Where), Plain(<<"ON", "IDENT", "LPAREN", "IDENT", "RPAREN">>)>>
SequenceForm == <<Word(<<"CREATE", "SEQUENCE">> \o Name), May(<<"AS", "IDENT">>), May(<<"START", "WITH", "INT">>),
                  May(<<"INCREMENT", "BY", "MINUS", "INT">>), May(<<"MINVALUE", "INT">>), Plain(<<"CYCLE">>)>>
AlterSequence == <<Word(<<"ALTER", "SEQUENCE", "IDENT">>), May(<<"INCREMENT", "BY", "INT">>), May(<<"MAXVALUE", "INT">>),
                   Plain(<<"CYCLE">>)>>
TypeForm     == <<Word(<<"CREATE", "TYPE_WARNING">> \o Name), Must(<<"FROM">> \o Type), Plain(<<"NOT", "NULL">>)>>
ValueForm(object) == <<Word(object \o Name \o <<"AS">>), Must(Comparison)>>

DefinitionForms ==
    {Form(CreateTableForm, 1, Anywhere)}
        \cup {Form(AlterTable(action), 0, Separated) : action \in AlterTableActions}
        \cup {Form(<<Word(text)>>, 0, Anywhere) : text \in PlainTexts}
        \cup {Form(<<Word(text)>>, 0, Separated) : text \in DelimitedTexts}
        \cup {Form(parts, 9, Anywhere) :
                  parts \in {DeclareForm, CursorForm, SetForm, MethodForm, ResultForm, IndexForm, TypeForm,
                             ViewForm, AlterView, AlterFunction, TriggerForm, AlterTrigger,
                             FunctionForm(Must(Type), <<Must(<<"AS">> \o Block)>>),
                             FunctionForm(Word(<<"VARIABLE">> \o TableType), <<Must(<<"AS">> \o Block)>>),
                             FunctionForm(Word(<<"TABLE">>), <<Word(<<"AS", "RETURN", "LPAREN">> \o Query \o <<"RPAREN">>)>>),
                             ProcedureForm(<<Must(Block)>>), ProcedureForm(<<Must(Atomic)>>), AlterProcedure(Block),
                             ValueForm(<<"CREATE", "DEFAULT_KW">>), ValueForm(<<"CREATE_RULE">>)}}
        \cup {Form(parts, 9, Separated) : parts \in {ExecForm, DynamicForm, SequenceForm, AlterSequence}}
        \cup {Form(parts, 9, OwnBatch) :
                  parts \in {ProcedureForm(<<Must(<<"BREAK">>), Must(<<"SEMICOLON">> \o Query)>>),
                             ProcedureForm(<<Must(<<"BEGIN", "TRAN">>), Must(<<"BREAK">>), Must(<<"COMMIT">>)>>),
                             AlterProcedure(<<"BREAK", "SEMICOLON">> \o Query)}}
(* Inputs that are not well formed, or whose reading depends on what a     *)
(* name stands for.                                                        *)
Inside == {"IDENT", "COMMA", "RPAREN", "NULL", "INT", "LPAREN"}
Around(opening, alphabet) == Family(opening, alphabet, 3)
Incomplete == {
    Around(<<"DECLARE">>, {"VARIABLE", "IDENT", "AS", "TABLE", "LPAREN", "RPAREN", "EQ"}),
    Around(<<"DECLARE", "IDENT", "CURSOR">>, {"FOR", "WITH", "UPDATE", "OF", "IDENT"}),
    Around(<<"SET">>, {"IDENT", "INT", "DOT", "ON", "OFFSETS", "COMMA"}),
    Around(<<"SET">>, {"VARIABLE", "DOT", "IDENT", "LPAREN", "EQ", "RPAREN"}),
    Around(<<"EXEC">>, {"IDENT", "VARIABLE", "EQ", "COMMA", "WITH", "AS"}),
    Around(<<"EXEC", "IDENT", "WITH">>, {"RECOMPILE", "RESULT", "SETS", "NONE_KW", "LPAREN", "IDENT"}),
    Around(<<"EXEC", "IDENT", "INT", "WITH", "RESULT">>, {"SETS", "UNDEFINED", "AT", "IDENT"}),
    Around(<<"EXECUTE", "AS">>, {"USER", "EQ", "STRING", "WITH", "IDENT", "INTO"}),
    Around(<<"REVERT">>, {"WITH", "IDENT", "EQ", "INT"}),
    Around(<<"RECONFIGURE">>, {"WITH", "IDENT", "SEMICOLON"}),
    Around(<<"OPEN", "SYMMETRIC", "KEY", "IDENT">>,
          {"DECRYPTION", "BY", "CERTIFICATE", "PASSWORD", "EQ", "STRING"}),
    Around(<<"CLOSE">>, {"ALL", "SYMMETRIC", "KEY", "IDENT", "BREAK"}),
    Around(<<"CREATE", "TABLE", "IDENT">>, {"LPAREN", "RPAREN", "IDENT", "AS", "ON", "WITH"}),
    Around(<<"CREATE", "TABLE", "IDENT", "LPAREN">>, Inside),
    Around(<<"CREATE", "TABLE", "IDENT", "LPAREN", "IDENT", "IDENT">>,
          {"IDENT", "IDENTITY", "LPAREN", "CONSTRAINT", "GENERATED", "REFERENCES"}),
    Around(<<"CREATE", "TABLE", "IDENT", "LPAREN", "CONSTRAINT", "IDENT">>,
          {"IDENT", "PRIMARY", "KEY", "CHECK", "LPAREN", "RPAREN"}),
    Around(<<"ALTER", "TABLE", "IDENT", "ADD">>, {"IDENT", "CONSTRAINT", "COMMA", "DEFAULT_KW", "FOR", "DROP"}),
    Around(<<"ALTER", "TABLE", "IDENT">>, {"DROP", "COLUMN", "IDENT", "SET", "LPAREN", "ALTER"}),
    Around(<<"ALTER", "TABLE", "IDENT">>, {"IDENT", "ENABLE", "TRIGGER", "CHECK", "WITH", "REBUILD"}),
    Around(<<"DROP">>, {"IDENT", "INDEX", "ON", "COMMA", "STATISTICS", "DATABASE"}),
    Around(<<"CREATE">>, {"IDENT", "UNIQUE", "NONCLUSTERED", "INDEX", "PRIMARY", "XML"}),
    Around(<<"CREATE", "INDEX", "IDENT", "ON", "IDENT">>, {"LPAREN", "IDENT", "RPAREN", "WHERE", "WITH", "COMMA"}),
    Around(<<"CREATE", "XML", "INDEX", "IDENT", "ON", "IDENT", "LPAREN", "IDENT", "RPAREN">>,
          {"USING", "XML", "INDEX", "IDENT", "FOR"}),
    Around(<<"ALTER", "INDEX">>, {"ALL", "IDENT", "ON", "SET", "LPAREN", "WITH"}),
    Around(<<"CREATE", "SEQUENCE", "IDENT">>, {"IDENT", "INT", "START", "WITH", "AS", "CYCLE"}),
    Around(<<"ALTER", "SEQUENCE", "IDENT">>, {"IDENT", "INT", "START", "WITH", "MINVALUE"}),
    Around(<<"CREATE", "SCHEMA">>, {"IDENT", "AUTHORIZATION", "SEMICOLON", "BREAK"}),
    Around(<<"CREATE", "XML_SCHEMA_COLLECTION", "IDENT">>, {"AS", "IDENT", "PLUS", "NSTRING"}),
    Around(<<"CREATE", "TYPE_WARNING", "IDENT">>, {"AS", "TABLE", "FROM", "IDENT", "LPAREN", "RPAREN"}),
    Around(<<"CREATE", "SYNONYM", "IDENT">>, {"DOT", "IDENT", "FOR"}),
    Around(<<"CREATE", "STATISTICS", "IDENT">>, {"ON", "IDENT", "LPAREN", "COMMA", "RPAREN", "WITH"}),
    Around(<<"UPDATE", "STATISTICS", "IDENT", "WITH">>, {"IDENT", "ROWS", "PERCENT_KW", "COMMA", "INT"}),
    Around(<<"BULK">>, {"INSERT", "IDENT", "FROM", "STRING", "WITH"}),
    Around(<<"BULK", "INSERT", "IDENT", "FROM", "STRING", "WITH", "LPAREN">>, {"IDENT", "EQ", "LPAREN", "RPAREN", "COMMA"}),
    Around(<<"ALTER">>, {"IDENT", "DATABASE", "GO", "ADD"}),
    Around(<<"CREATE", "VIEW", "IDENT">>, {"AS", "WITH", "IDENT", "SELECT", "INT", "INSERT"}),
    Around(<<"CREATE", "FUNCTION", "IDENT", "LPAREN", "RPAREN">>,
          {"RETURNS", "TABLE", "AS", "RETURN", "WITH", "IDENT", "BEGIN"}),
    Around(<<"CREATE", "FUNCTION", "IDENT", "LPAREN", "RPAREN", "RETURNS", "TABLE">>,
          {"WITH", "IDENT", "AS", "RETURN", "SELECT", "INT"}),
    Around(<<"ALTER", "FUNCTION", "IDENT", "LPAREN", "RPAREN", "RETURNS">>,
          {"TABLE", "AS", "RETURN", "IDENT", "BEGIN", "END"}),
    Around(<<"CREATE", "TRIGGER", "IDENT", "ON">>, {"IDENT", "ALL", "FOR", "AS", "WITH", "BREAK"}),
    Around(<<"ENABLE", "TRIGGER">>, {"IDENT", "ON", "ALL", "COMMA", "SERVER"}),
    Around(<<"CREATE", "PROC", "IDENT">>, {"VARIABLE", "IDENT", "AS", "EXECUTE", "WITH", "BREAK"}),
    Around(<<"CREATE", "PROC", "IDENT", "AS", "BEGIN">>, {"TRY", "BREAK", "END", "SEMICOLON", "CATCH", "GO"}),
    Around(<<"CREATE", "PROC", "IDENT", "AS">>, {"BREAK", "SELECT", "INT", "SEMICOLON", "GO"}),
    Around(<<"ALTER", "PROC", "IDENT">>, {"AS", "BEGIN", "END", "BREAK", "EXECUTE", "GO"})}

AllForms    == DefinitionForms \cup ServerForms
AllFamilies == Incomplete \cup ServerFamilies
=============================================================================
