--------------------------- MODULE TableDefinitions ---------------------------
(***************************************************************************)
(* CREATE TABLE, table types, ALTER TABLE, DROP and TRUNCATE.               *)
(***************************************************************************)
EXTENDS Dml, WordRows
LOCAL INSTANCE TLC

(* Words that are no keywords to the lexer are tokens of these types.      *)
Texts == {"IDENT", "STRING", "NSTRING"}
Clustered(i) == IF Tok(i + 1) \in {"CLUSTERED", "NONCLUSTERED"} THEN i + 1 ELSE i

(* name [ASC | DESC] {, ...} )                                             *)
parseIndexColumns ==
    /\ At("parseIndexColumns")
    /\ LET k == IF Peek \in {"ASC", "DESC"} THEN 1 ELSE 0 IN
       IF Tok(pos + k + 1) = "COMMA" THEN Continue(k + 2, "parseIndexColumns", <<>>)
                                     ELSE ReturnExpecting("RPAREN", "IndexColumns", <<>>, k)

OneWordActions(here, kind) ==          \* mutant: SET NULL is read as SET
    /\ At(here)
    /\ IF Peek = "ON" THEN Continue(3, here, Top.kids) ELSE ReturnNew(kind, Top.at, Top.kids, 0)

(* {ON DELETE | UPDATE action}, where the action takes two words after SET *)
(* and NO, and ends the constraint.                                        *)
ReferenceActions(here, kind) ==
    /\ At(here)
    /\ IF Peek # "ON" THEN ReturnNew(kind, Top.at, Top.kids, 0)
       ELSE \E more \in {0, 1} :
               /\ Tok(pos + 3) = "SET" => more = 1
               /\ Tok(pos + 3) \notin Texts \cup {"SET"} => more = 0
               /\ Continue(3 + more, here, Top.kids)

(* [CONSTRAINT name] and one of the constraints; a word that begins none   *)
(* leaves a constraint without a type, which is a primary key.             *)
parseTableConstraint ==
    \/ /\ At("parseTableConstraint")
       /\ Continue(IF Cur = "CONSTRAINT" THEN 2 ELSE 0, "parseTableConstraint.Type", <<>>)
    \/ /\ At("parseTableConstraint.Type")
       /\ CASE Cur = "PRIMARY" -> Expect("KEY", 0, "parseTableConstraint.Key", <<>>)
            [] Cur = "UNIQUE"  -> Continue(0, "parseTableConstraint.Key", <<>>)
            [] Cur = "FOREIGN" -> Expect("KEY", 0, "parseTableConstraint.ForeignKey", <<>>)
            [] Cur = "CHECK"   -> Expect("LPAREN", 0, "parseTableConstraint.Check", <<>>)
            [] Cur = "INDEX"   ->
                 Expect("LPAREN", Clustered(pos + 1) - pos, "parseTableConstraint.Columns", <<>>)
            [] Cur = "PERIOD"  ->
                 LET for == IF Peek = "FOR" THEN 1 ELSE 0
                     k   == IF Tok(pos + for + 1) = "SYSTEM_TIME" THEN for + 1 ELSE for
                 IN  Expect("LPAREN", k, "parseTableConstraint.Columns", <<>>)
            [] Cur = "DEFAULT_KW" /\ Peek = "LPAREN" ->
                 CallExpression(2, "parseTableConstraint.Parenthesis", <<>>, LOWEST)
            [] Cur = "DEFAULT_KW" /\ Peek # "LPAREN" ->
                 CallExpression(1, "parseTableConstraint.Default", <<>>, LOWEST)
            [] OTHER -> ReturnNew("Constraint", Top.at, <<>>, 0)
    \/ /\ At("parseTableConstraint.Key")
       /\ Expect("LPAREN", Clustered(pos) - pos, "parseTableConstraint.KeyColumns", <<>>)
    \/ At("parseTableConstraint.KeyColumns") /\ Call(1, "parseTableConstraint.Options", <<>>, "parseIndexColumns")
    \/ At("parseTableConstraint.Options") /\ ReturnNew("Constraint", Top.at, Got, WithOptions(pos) - pos)
    \/ At("parseTableConstraint.Columns") /\ Call(1, "parseTableConstraint.End", <<>>, "parseIndexColumns")
    \/ At("parseTableConstraint.End") /\ ReturnNew("Constraint", Top.at, Got, 0)
    \/ At("parseTableConstraint.ForeignKey") /\ Expect("LPAREN", 0, "parseTableConstraint.ForeignColumns", <<>>)
    \/ At("parseTableConstraint.ForeignColumns") /\ Call(1, "parseTableConstraint.References", <<>>, "parseIndexColumns")
    \/ At("parseTableConstraint.References") /\ Expect("REFERENCES", 0, "parseTableConstraint.Table", Got)
    \/ /\ At("parseTableConstraint.Table")
       /\ Expect("LPAREN", ListEnd(pos + 1, "DOT") - pos, "parseTableConstraint.TableColumns", Top.kids)
    \/ /\ At("parseTableConstraint.TableColumns")
       /\ Expect("RPAREN", ListEnd(pos + 1, "COMMA") - pos, "parseTableConstraint.Actions", Top.kids)
    \/ ReferenceActions("parseTableConstraint.Actions", "Constraint")
    \/ At("parseTableConstraint.Check") /\ CallExpression(1, "parseTableConstraint.Condition", <<>>, LOWEST)
    \/ At("parseTableConstraint.Condition") /\ ReturnExpecting("RPAREN", "Constraint", Got, 0)
    \/ At("parseTableConstraint.Parenthesis") /\ Expect("RPAREN", 0, "parseTableConstraint.For", GotIfAny)
    \/ At("parseTableConstraint.Default") /\ Continue(0, "parseTableConstraint.For", GotIfAny)
    \/ /\ At("parseTableConstraint.For")
       /\ ReturnNew("Constraint", Top.at, Top.kids, IF Peek = "FOR" THEN 2 ELSE 0)
-----------------------------------------------------------------------------
parseInlineConstraint ==
    \/ At("parseInlineConstraint") /\ Expect("KEY", 0, "parseInlineConstraint.Clustered", <<>>)
    \/ /\ At("parseInlineConstraint.Clustered")
       /\ LET k == Clustered(pos) IN
          ReturnNew("ColumnConstraint", Top.at, <<>>,
                    (IF Tok(k + 1) = "HASH" THEN WithOptions(k + 1) ELSE k) - pos)
parseInlineReferencesConstraint ==
    \/ /\ At("parseInlineReferencesConstraint")
       /\ parseIdentifierList(ListEnd(pos + 1, "DOT") - pos, "parseInlineReferencesConstraint.Actions", <<>>)
    \/ ReferenceActions("parseInlineReferencesConstraint.Actions", "ColumnConstraint")
parseInlineCheckConstraint ==
    \/ At("parseInlineCheckConstraint") /\ Expect("LPAREN", 0, "parseInlineCheckConstraint.Check", <<>>)
    \/ /\ At("parseInlineCheckConstraint.Check")
       /\ CallExpression(1, "parseInlineCheckConstraint.Condition", <<>>, LOWEST)
    \/ At("parseInlineCheckConstraint.Condition") /\ ReturnExpecting("RPAREN", "ColumnConstraint", Got, 0)

(* The options of a column, the next of which begins at peekToken.         *)
NextOption(k) == Continue(k, "parseColumnDefinition.Option", Top.kids)
Number(i) == IF Tok(i) = "MINUS" THEN i + 1 ELSE i
parseIdentitySpec ==
    LET seed == Number(pos + 3)
        last == IF Tok(seed + 1) = "COMMA" THEN Number(seed + 2) ELSE seed
    IN  IF Tok(pos + 2) = "LPAREN"
        THEN Expect("RPAREN", last - pos, "parseColumnDefinition.Option", Top.kids)
        ELSE NextOption(1)
GeneratedEnd ==
    LET Past(i, word) == IF Tok(i + 1) = word THEN i + 1 ELSE i
        as == Past(Past(pos + 1, "ALWAYS"), "AS")
    IN  CASE Tok(as + 1) = "ROW" /\ Tok(as + 2) \in {"START", "END"} -> as + 2
          [] Tok(as + 1) = "ROW" /\ Tok(as + 2) \notin {"START", "END"} -> as + 1
          [] OTHER -> as
InlineIndexEnd == LET k == Clustered(pos + 2) IN WithOptions(IF Tok(k + 1) = "HASH" THEN k + 1 ELSE k)

(* The constraint whose word is k tokens on, behind CONSTRAINT name or not. *)
InlineConstraints == {"PRIMARY", "UNIQUE", "REFERENCES", "FOREIGN", "CHECK", "DEFAULT_KW"}
ColumnConstraint(k) ==
    LET key == IF Tok(pos + k) = "FOREIGN" /\ Tok(pos + k + 1) = "KEY" THEN k + 1 ELSE k
        Parsed(n, fn) == Call(n, "parseColumnDefinition.Constraint", Top.kids, fn)
    IN  CASE Tok(pos + k) = "PRIMARY"    -> Parsed(k, "parseInlineConstraint")
          [] Tok(pos + k) = "REFERENCES" -> Parsed(k, "parseInlineReferencesConstraint")
          [] Tok(pos + k) = "CHECK"      -> Parsed(k, "parseInlineCheckConstraint")
          [] Tok(pos + k) = "DEFAULT_KW" ->
               CallExpression(k + 1, "parseColumnDefinition.Default", Top.kids, LOWEST)
          [] Tok(pos + k) = "FOREIGN" /\ Tok(pos + key + 1) = "REFERENCES" ->
               Parsed(key + 1, "parseInlineReferencesConstraint")
          [] OTHER -> NextOption(key)
ColumnOption ==
    \/ Peek = "COLLATE" /\ NextOption(2)
    \/ Peek \in {"NULL", "ROWGUIDCOL", "SPARSE"} /\ NextOption(1)
    \/ Peek = "NOT" /\ Expect("NULL", 1, "parseColumnDefinition.Option", Top.kids)
    \/ Peek = "IDENTITY" /\ parseIdentitySpec
    \/ Peek \in InlineConstraints /\ ColumnConstraint(1)
    \/ Peek = "CONSTRAINT" /\ ColumnConstraint(3)
    \/ Peek = "GENERATED" /\ NextOption(GeneratedEnd - pos)
    \/ Peek = "INDEX" /\ NextOption(InlineIndexEnd - pos)
    \/ Peek = "IDENT" /\ NextOption(WithOptions(pos + 1) - pos)        \* MASKED, ENCRYPTED
    \/ /\ Peek = "IDENT"                                               \* COLUMN_SET
       /\ \E k \in {1, 2, 3} : /\ k > 1 => Tok(pos + 2) = "FOR"
                               /\ k = 1 => Tok(pos + 2) # "FOR"
                               /\ k = 3 => Tok(pos + 3) = "IDENT"
                               /\ NextOption(k)
ColumnOptions == InlineConstraints \cup
    {"COLLATE", "NULL", "ROWGUIDCOL", "SPARSE", "NOT", "IDENTITY", "CONSTRAINT", "GENERATED", "INDEX"}

(* name AS ( expr ) | expr [PERSISTED], or name type {option}              *)
parseColumnDefinition ==
    \/ /\ At("parseColumnDefinition")
       /\ CASE Peek = "AS" /\ Tok(pos + 2) = "LPAREN" ->
                 CallExpression(3, "parseColumnDefinition.Parenthesis", <<>>, LOWEST)
            [] Peek = "AS" /\ Tok(pos + 2) # "LPAREN" ->
                 CallExpression(2, "parseColumnDefinition.Expression", <<>>, LOWEST)
            [] OTHER -> Call(1, "parseColumnDefinition.DataType", <<>>, "parseDataType")
    \/ At("parseColumnDefinition.Parenthesis") /\ Expect("RPAREN", 0, "parseColumnDefinition.Persisted", Got)
    \/ At("parseColumnDefinition.Expression") /\ Continue(0, "parseColumnDefinition.Persisted", Got)
    \/ /\ At("parseColumnDefinition.Persisted")
       /\ ReturnNew("ColumnDefinition", Top.at, Top.kids, IF Peek = "PERSISTED" THEN 1 ELSE 0)
    \/ At("parseColumnDefinition.DataType") /\ Continue(0, "parseColumnDefinition.Option", Got)
    \/ At("parseColumnDefinition.Option") /\ ColumnOption
    \/ /\ At("parseColumnDefinition.Option") /\ Peek \notin ColumnOptions
       /\ ReturnNew("ColumnDefinition", Top.at, Top.kids, 0)
    \/ At("parseColumnDefinition.Constraint") /\ Continue(0, "parseColumnDefinition.Option", Got)
    \/ At("parseColumnDefinition.Default") /\ Continue(0, "parseColumnDefinition.Option", GotIfAny)
-----------------------------------------------------------------------------
(* The columns and constraints of a table: an element that no comma follows *)
(* is the last one, and nobody misses the parenthesis.                     *)
isTableConstraintStart ==
    IF Cur = "PERIOD" THEN Peek = "FOR"
    ELSE Cur \in {"CONSTRAINT", "PRIMARY", "FOREIGN", "UNIQUE", "CHECK", "INDEX"}
Elements(element, next, done) ==
    \/ /\ At(element)
       /\ IF Cur \in {"RPAREN", "EOF"} THEN Continue(0, done, Top.kids)
          ELSE Call(0, next, Top.kids, IF isTableConstraintStart THEN "parseTableConstraint"
                                                                 ELSE "parseColumnDefinition")
    \/ /\ At(next)
       /\ CASE Peek = "COMMA"  -> Continue(2, element, Got)
            [] Peek = "RPAREN" -> Continue(1, done, Got)
            [] OTHER           -> Continue(0, done, Got)

parseTableTypeDefinition ==
    \/ /\ At("parseTableTypeDefinition")
       /\ Require(0, <<"LPAREN">>, Continue(2, "parseTableTypeDefinition.Element", <<>>))
    \/ Elements("parseTableTypeDefinition.Element", "parseTableTypeDefinition.Next",
                "parseTableTypeDefinition.End")
    \/ At("parseTableTypeDefinition.End") /\ ReturnNew("TableType", Top.at, Top.kids, 0)

(* TABLE [IF NOT EXISTS] name AS FILETABLE [WITH ...] | ( elements ) [WITH  *)
(* ...] [ON name [( column )]] [TEXTIMAGE_ON name] [AS NODE | EDGE]         *)
parseCreateTableStatement ==
    \/ /\ At("parseCreateTableStatement")
       /\ CASE Peek # "IF"                                   -> Continue(1, "parseCreateTableStatement.Name", <<>>)
            [] Peek = "IF" /\ Tok(pos + 2) # "NOT"           -> ReturnNil(2)
            [] Peek = "IF" /\ Tok(pos + 2) = "NOT" /\ Tok(pos + 3) # "EXISTS" -> ReturnNil(3)
            [] OTHER                                         -> Continue(4, "parseCreateTableStatement.Name", <<>>)
    \/ /\ At("parseCreateTableStatement.Name")
       /\ LET name == ListEnd(pos, "DOT") - pos
              as   == IF Tok(pos + name + 1) = "AS" THEN name + 2 ELSE name
          IN  \/ Require(as, <<"LPAREN">>, Continue(as + 2, "parseCreateTableStatement.Element", <<>>))
              \/ /\ as > name /\ Tok(pos + as) \in Texts
                 /\ ReturnNew("CreateTable", Top.at, <<>>, WithOptions(pos + as) - pos)
    \/ Elements("parseCreateTableStatement.Element", "parseCreateTableStatement.Next",
                "parseCreateTableStatement.Options")
    \/ /\ At("parseCreateTableStatement.Options")
       /\ Continue(WithOptions(pos) - pos, "parseCreateTableStatement.On", Top.kids)
    \/ /\ At("parseCreateTableStatement.On")
       /\ CASE Peek # "ON"                              -> Continue(0, "parseCreateTableStatement.End", Top.kids)
            [] Peek = "ON" /\ Tok(pos + 3) # "LPAREN"  -> Continue(2, "parseCreateTableStatement.End", Top.kids)
            [] Peek = "ON" /\ Tok(pos + 3) = "LPAREN" /\ Tok(pos + 4) = "RPAREN" ->
                 Continue(4, "parseCreateTableStatement.End", Top.kids)
            [] OTHER -> Expect("RPAREN", 4, "parseCreateTableStatement.End", Top.kids)
    \/ /\ At("parseCreateTableStatement.End")
       /\ \E k \in IF Peek = "IDENT" THEN {0, 2} ELSE {0} :
             ReturnNew("CreateTable", Top.at, Top.kids, IF Tok(pos + k + 1) = "AS" THEN k + 2 ELSE k)
-----------------------------------------------------------------------------
(* One action of ALTER TABLE.  A DROP or an ALTER that names neither COLUMN *)
(* nor CONSTRAINT stays the action of type zero, ADD COLUMN without a      *)
(* column, which String() dereferences; another word is no action, and no  *)
(* error.  SWITCH is no keyword.                                           *)
AddsConstraint == {"CONSTRAINT", "PRIMARY", "FOREIGN", "UNIQUE", "CHECK"}
BeginsAction   == AddsConstraint \cup {"ADD", "DROP", "ALTER", "ENABLE", "DISABLE", "SET"}
Action(kids, k) == ReturnNew("Action", Top.at, kids, k)
RestOfStatement == FirstIn(pos + 1, {"SEMICOLON", "GO"}) - 1 - pos
parseAlterTableAction ==
    \/ /\ At("parseAlterTableAction")
       /\ CASE Cur = "ADD" -> Call(1, IF Peek \in AddsConstraint THEN "parseAlterTableAction.Added"
                                                                 ELSE "parseAlterTableAction.Column",
                                   <<>>, IF Peek \in AddsConstraint THEN "parseTableConstraint"
                                                                    ELSE "parseColumnDefinition")
            [] Cur = "DROP" -> IF Peek \in {"COLUMN", "CONSTRAINT"} THEN Action(<<>>, 2) ELSE Action(<<NIL>>, 1)
            [] Cur = "ALTER" -> IF Peek = "COLUMN"
                                THEN Call(3, "parseAlterTableAction.Added", <<>>, "parseDataType")
                                ELSE Action(<<NIL>>, 1)
            [] Cur \in {"ENABLE", "DISABLE"} -> Action(<<>>, IF Peek = "TRIGGER" THEN 2 ELSE 1)
            [] Cur \in {"CHECK", "NOCHECK"} -> Action(<<>>, IF Peek = "CONSTRAINT" THEN 2 ELSE 1)
            [] Cur = "SET" -> IF Peek = "LPAREN" THEN Continue(2, "parseAlterTableAction.Set", <<>>)
                                                 ELSE Action(<<>>, 1)
            [] Cur = "REBUILD" -> Action(<<>>, RestOfStatement)
            [] Cur = "IDENT" -> Action(<<>>, RestOfStatement) \/ ReturnNil(0)
            [] OTHER -> ReturnNil(0)
    \/ At("parseAlterTableAction.Added") /\ Action(Got, 0)
    \/ /\ At("parseAlterTableAction.Column")
       /\ CASE Peek # "COMMA" -> Action(Got, 0)
            [] Peek = "COMMA" /\ Tok(pos + 2) \in BeginsAction -> Action(Got, 2)
            [] OTHER -> Call(2, "parseAlterTableAction.Column", Got, "parseColumnDefinition")
    \/ /\ At("parseAlterTableAction.Set")          \* option = value {, ...} )
       /\ LET value == IF Peek = "EQ" THEN 2 ELSE 1
              comma == IF Tok(pos + value + 1) = "COMMA" THEN 1 ELSE 0
          IN  IF Cur \in {"RPAREN", "EOF"} THEN Action(<<>>, 0)
              ELSE Continue(value + 1 + comma, "parseAlterTableAction.Set", <<>>)

(* TABLE name [WITH_CHECK | WITH_NOCHECK] [NO]CHECK CONSTRAINT name, or     *)
(* action {, action}                                                       *)
parseAlterTableStatement ==
    \/ /\ At("parseAlterTableStatement")
       /\ LET name  == ListEnd(pos + 1, "DOT") + 1
              check == IF Tok(name) \in {"WITH_CHECK", "WITH_NOCHECK"} THEN name + 1 ELSE name
              past  == IF Tok(check) = "NOCHECK" THEN check + 1 ELSE check
          IN  CASE past > check /\ Tok(past) = "CONSTRAINT" ->
                     ReturnNew("AlterTable", Top.at, <<>>, past + 1 - pos)
                [] Tok(past) = "CHECK" /\ Tok(past + 1) = "CONSTRAINT" ->
                     ReturnNew("AlterTable", Top.at, <<>>, past + 2 - pos)
                [] OTHER -> Continue((IF Tok(past) = "CHECK" THEN past + 1 ELSE past) - pos,
                                     "parseAlterTableStatement.Action", <<>>)
    \/ /\ At("parseAlterTableStatement.Action")
       /\ IF Cur \in {"EOF", "SEMICOLON", "GO"} THEN ReturnNew("AlterTable", Top.at, Top.kids, 0)
          ELSE Call(0, "parseAlterTableStatement.Next", Top.kids, "parseAlterTableAction")
    \/ /\ At("parseAlterTableStatement.Next")
       /\ IF Peek = "COMMA" THEN Continue(2, "parseAlterTableStatement.Action", GotIfAny)
                            ELSE ReturnNew("AlterTable", Top.at, GotIfAny, 0)
-----------------------------------------------------------------------------
AfterIfExists(i) == CASE Tok(i) # "IF"                             -> i
                      [] Tok(i) = "IF" /\ Tok(i + 1) = "EXISTS" -> i + 2
                      [] OTHER                                     -> i + 1
NamesEnd(i) ==                         \* name {, name}, each with or without dots
    First({j \in i..(i + Len(input) + 1) : (j - i) % 2 = 0 /\ Tok(j + 1) \notin {"DOT", "COMMA"}})

DroppedObjects == {"VIEW", "FUNCTION", "PROCEDURE", "PROC", "TRIGGER", "SYNONYM", "LOGIN", "USER", "ROLE",
                   "ASSEMBLY", "CERTIFICATE", "SCHEMA", "TYPE_WARNING", "DEFAULT_KW"}
parseDropObjectStatement ==
    /\ At("parseDropObjectStatement")
    /\ LET last == NamesEnd(AfterIfExists(pos + 1))
           on   == CASE Tok(last + 2) = "DATABASE"                             -> 2
                     [] Tok(last + 2) = "ALL" /\ Tok(last + 3) = "SERVER" -> 3
                     [] Tok(last + 2) = "ALL" /\ Tok(last + 3) # "SERVER" -> 2
                     [] OTHER                                                  -> 1
           k    == IF Cur = "TRIGGER" /\ Tok(last + 1) = "ON" THEN on ELSE 0
       IN  ReturnNew("DropObject", Top.at, <<>>, last + k - pos)
parseDropTableStatement ==
    At("parseDropTableStatement") /\ ReturnNew("DropTable", Top.at, <<>>, NamesEnd(AfterIfExists(pos + 1)) - pos)
parseDropSequenceStatement ==
    /\ At("parseDropSequenceStatement")
    /\ ReturnNew("DropSequence", Top.at, <<>>, ListEnd(AfterIfExists(pos + 1), "DOT") - pos)

(* INDEX name ON table {, name ON table}: the first one is kept.           *)
parseDropIndexStatement ==
    \/ /\ At("parseDropIndexStatement")
       /\ LET name == AfterIfExists(pos + 1) IN
          Require(name - pos, <<"ON">>,
                  Continue(ListEnd(name + 2, "DOT") - pos, "parseDropIndexStatement.More", <<>>))
    \/ /\ At("parseDropIndexStatement.More")
       /\ CASE Peek # "COMMA" -> ReturnNew("DropIndex", Top.at, <<>>, 0)
            [] Peek = "COMMA" /\ Tok(pos + 3) = "ON" ->
                 Continue(ListEnd(pos + 4, "DOT") - pos, "parseDropIndexStatement.More", <<>>)
            [] OTHER -> Continue(3, "parseDropIndexStatement.More", <<>>)

parseDropStatisticsStatement ==
    At("parseDropStatisticsStatement") /\ ReturnNew("DropStatistics", Top.at, <<>>, NamesEnd(pos + 1) - pos)

(* DATABASE may be followed by SCOPED CREDENTIAL, which are no keywords, as *)
(* APPLICATION (ROLE), CREDENTIAL and RULE are not.  Other words: nil.     *)
DropFn(object) ==
    CASE object = "INDEX"        -> "parseDropIndexStatement"
      [] object = "SEQUENCE"     -> "parseDropSequenceStatement"
      [] object = "STATISTICS"   -> "parseDropStatisticsStatement"
      [] object = "FULLTEXT"     -> "parseDropFulltextStatement"
      [] object = "RESOURCE"     -> "parseDropResourcePoolStatement"
      [] object = "WORKLOAD"     -> "parseDropWorkloadGroupStatement"
      [] object = "AVAILABILITY" -> "parseDropAvailabilityGroupStatement"
      [] object \in {"SYMMETRIC", "ASYMMETRIC", "MASTER"}           -> "parseDropKeyStatement"
      [] object \in {"MESSAGE", "CONTRACT", "QUEUE", "SERVICE"}     -> "parseDropServiceBrokerObject"
      [] object \in DroppedObjects                                  -> "parseDropObjectStatement"
      [] OTHER                   -> "nil"
parseDropStatement ==
    /\ At("parseDropStatement")
    /\ CASE Peek = "TABLE"       -> TailCall(1, "parseDropTableStatement")
         [] DropFn(Peek) # "nil" -> HandOn(1, DropFn(Peek))
         [] Peek = "SERVER" /\ Tok(pos + 2) = "ROLE" -> HandOn(2, "parseDropObjectStatement")
         [] Peek = "DATABASE" -> \E k \in IF Tok(pos + 2) = "IDENT" THEN {1, 3} ELSE {1} :
                                    HandOn(k, "parseDropObjectStatement")
         [] Peek = "IDENT" -> \/ \E k \in IF Tok(pos + 2) = "ROLE" THEN {1, 2} ELSE {1} :
                                    HandOn(k, "parseDropObjectStatement")
                              \/ ReturnNil(1)
         [] OTHER -> ReturnNil(1)
-----------------------------------------------------------------------------
parseTruncateStatement ==
    /\ At("parseTruncateStatement")
    /\ Require(0, <<"TABLE">>, ReturnNew("Truncate", Top.at, <<>>, ListEnd(pos + 2, "DOT") - pos))

(* TRUNCATE_TABLE name [WITH_PARTITIONS ( n [TO n] {, ...} ) )]             *)
parseTruncateTableCompound ==
    \/ /\ At("parseTruncateTableCompound")
       /\ LET name == ListEnd(pos + 1, "DOT") - pos IN
          CASE Tok(pos + name + 1) # "WITH_PARTITIONS" -> ReturnNew("Truncate", Top.at, <<>>, name)
            [] Tok(pos + name + 1) = "WITH_PARTITIONS" /\ Tok(pos + name + 2) = "LPAREN" ->
                 Continue(name + 3, "parsePartitionList", <<>>)
            [] OTHER -> Complain(name + 2, name + 1, "parseTruncateTableCompound.Close", <<>>)
    \/ /\ At("parsePartitionList")
       /\ LET k == IF Cur = "INT" /\ Peek = "TO" THEN 2 ELSE 0 IN
          CASE Cur \in {"RPAREN", "EOF"} -> Continue(0, "parsePartitionList.Close", <<>>)
            [] Cur \notin {"RPAREN", "EOF"} /\ Tok(pos + k + 1) = "COMMA" ->
                 Continue(k + 2, "parsePartitionList", <<>>)
            [] OTHER -> Continue(k, "parsePartitionList.Close", <<>>)
    \/ At("parsePartitionList.Close") /\ Expect("RPAREN", 0, "parseTruncateTableCompound.Close", <<>>)
    \/ At("parseTruncateTableCompound.Close") /\ ReturnExpecting("RPAREN", "Truncate", <<>>, 0)

TableDefinitionStep ==
    \/ parseIndexColumns \/ parseTableConstraint \/ parseInlineConstraint
    \/ parseInlineReferencesConstraint \/ parseInlineCheckConstraint \/ parseColumnDefinition
    \/ parseTableTypeDefinition \/ parseCreateTableStatement
    \/ parseAlterTableAction \/ parseAlterTableStatement
    \/ parseDropStatement \/ parseDropObjectStatement \/ parseDropTableStatement
    \/ parseDropSequenceStatement \/ parseDropIndexStatement \/ parseDropStatisticsStatement
    \/ parseTruncateStatement \/ parseTruncateTableCompound
=============================================================================
