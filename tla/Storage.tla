------------------------------- MODULE Storage -------------------------------
(***************************************************************************)
(* Partition functions and schemes, fulltext catalogs and indexes.         *)
(***************************************************************************)
EXTENDS TableDefinitions, WordRows

(* FUNCTION name ( type ) AS RANGE LEFT | RIGHT FOR VALUES ( [expr {, expr}] ): *)
(* a list that is not closed ends the statement without an error.          *)
parseCreatePartitionFunctionStatement ==
    LET kind == "PartitionFunction" IN
    \/ /\ At("parseCreatePartitionFunctionStatement")
       /\ IF Tok(pos + 2) = "LPAREN"
          THEN Call(3, "parseCreatePartitionFunctionStatement.Type", <<>>, "parseDataType")
          ELSE Continue(2, "parseCreatePartitionFunctionStatement.Range", <<>>)
    \/ /\ At("parseCreatePartitionFunctionStatement.Type")
       /\ Continue(Row(pos, <<Anything, Opt("RPAREN")>>) - pos,
                   "parseCreatePartitionFunctionStatement.Range", GotIfAny)
    \/ /\ At("parseCreatePartitionFunctionStatement.Range")
       /\ LET values == Row(pos, <<Opt("AS"), OptNamed("RANGE"), Opt("FOR"), Opt("VALUES")>>) IN
          IF Tok(values) = "LPAREN"
          THEN Continue(values + 1 - pos, "parseCreatePartitionFunctionStatement.Value", Top.kids)
          ELSE ReturnAt(kind, values)
    \/ /\ At("parseCreatePartitionFunctionStatement.Value")
       /\ IF Cur \in {"RPAREN", "EOF"} THEN ReturnAt(kind, Row(pos, <<Opt("RPAREN")>>))
          ELSE CallExpression(0, "parseCreatePartitionFunctionStatement.Values", Top.kids, LOWEST)
    \/ /\ At("parseCreatePartitionFunctionStatement.Values")
       /\ CASE Peek = "COMMA"  -> Continue(2, "parseCreatePartitionFunctionStatement.Value", Got)
            [] Peek = "RPAREN" -> Continue(1, "parseCreatePartitionFunctionStatement.Value", Got)
            [] OTHER -> ReturnNew(kind, Top.at, Got, IF Cur = "RPAREN" THEN 1 ELSE 0)

(* SCHEME name AS PARTITION name ALL TO ( name ) | TO ( names ): the list   *)
(* leaves the cursor on its closing parenthesis.                           *)
parseCreatePartitionSchemeStatement ==
    /\ At("parseCreatePartitionSchemeStatement")
    /\ LET i  == Row(pos, <<Anything, Anything, Opt("AS"), Opt("PARTITION"), Anything>>)
           to == Row(i + 1, <<Opt("TO")>>)
       IN  ReturnAt("PartitionScheme",
                CASE Tok(i) = "ALL" -> IF Tok(to) = "LPAREN" THEN Row(to + 2, <<Opt("RPAREN")>>) ELSE to
                  [] Tok(i) = "TO"  -> IF Tok(i + 1) = "LPAREN" THEN ItemsEnd(i + 2, NamePast) ELSE i + 1
                  [] OTHER          -> i)

(* FUNCTION name () SPLIT | MERGE RANGE ( expr )                            *)
parseAlterPartitionFunctionStatement ==
    LET value == "parseAlterPartitionFunctionStatement.Value" IN
    \/ /\ At("parseAlterPartitionFunctionStatement")
       /\ LET parens == IF Tok(pos + 2) = "LPAREN" THEN Row(pos + 3, <<Opt("RPAREN")>>) ELSE pos + 2
              range  == Row(parens, <<OneOf({"SPLIT", "MERGE"}), Opt("RANGE")>>)
          IN  IF Tok(range) = "LPAREN" THEN CallExpression(range + 1 - pos, value, <<>>, LOWEST)
                                       ELSE ReturnAt("AlterPartitionFunction", range)
    \/ At(value) /\ ReturnNew("AlterPartitionFunction", Top.at, GotIfAny, IF Peek = "RPAREN" THEN 1 ELSE 0)

parseAlterPartitionSchemeStatement ==  \* SCHEME name NEXT USED name
    /\ At("parseAlterPartitionSchemeStatement")
    /\ ReturnAt("AlterPartitionScheme", Row(pos, <<Anything, Anything, Opt("NEXT"), Opt("USED"), Anything>>))

(* PARTITION FUNCTION | SCHEME, created or altered; with another word: nil. *)
Partitions(here, function, scheme) ==
    /\ At(here)
    /\ CASE Peek = "FUNCTION" -> HandOn(1, function)
         [] Peek = "SCHEME"   -> HandOn(1, scheme)
         [] OTHER             -> ReturnNil(1)
parseCreatePartitionStatement ==
    Partitions("parseCreatePartitionStatement", "parseCreatePartitionFunctionStatement",
               "parseCreatePartitionSchemeStatement")
parseAlterPartitionStatement ==
    Partitions("parseAlterPartitionStatement", "parseAlterPartitionFunctionStatement",
               "parseAlterPartitionSchemeStatement")
-----------------------------------------------------------------------------
(* CATALOG name {ON FILEGROUP name | AS DEFAULT | AUTHORIZATION name}, where *)
(* FILEGROUP is no keyword.                                                *)
parseCreateFulltextCatalogStatement ==
    LET here == "parseCreateFulltextCatalogStatement.Clause" IN
    \/ At("parseCreateFulltextCatalogStatement") /\ Continue(2, here, <<>>)
    \/ /\ At(here) /\ Cur = "ON"
       /\ \E k \in {1} \cup IF Peek \in Texts THEN {3} ELSE {} : Continue(k, here, <<>>)
    \/ At(here) /\ Cur = "AS" /\ Continue(IF Peek = "DEFAULT_KW" THEN 2 ELSE 1, here, <<>>)
    \/ At(here) /\ Cur = "AUTHORIZATION" /\ Continue(2, here, <<>>)
    \/ At(here) /\ Cur \notin {"ON", "AS", "AUTHORIZATION"} /\ ReturnAt("CreateFulltextCatalog", pos)

(* INDEX ON table [( name {TYPE COLUMN name | LANGUAGE name} [,] ... )]     *)
(* [KEY INDEX name] [ON name] [WITH ( ... )].  Without the list the cursor *)
(* is still on the table when the other clauses are looked for.            *)
FulltextColumnPast(i) ==
    LET words == [j \in Nat |-> CASE Tok(j) = "TYPE_WARNING" -> Row(j + 1, <<OptNamed("COLUMN")>>)
                                  [] Tok(j) = "LANGUAGE"     -> j + 2
                                  [] OTHER                   -> j]
    IN  Row(Loop(i + 1, words), <<Opt("COMMA")>>)
parseCreateFulltextIndexStatement ==
    /\ At("parseCreateFulltextIndexStatement")
    /\ LET table   == ListEnd(Row(pos, <<Anything, Opt("ON")>>), "DOT")
           columns == IF Tok(table + 1) = "LPAREN" THEN ItemsEnd(table + 2, FulltextColumnPast) + 1 ELSE table
           key     == IF Tok(columns) = "KEY" THEN Row(columns + 1, <<Opt("INDEX"), Anything>>) ELSE columns
           catalog == Row(key, <<OptNamed("ON")>>)
       IN  ReturnAt("CreateFulltextIndex",
                CASE Tok(catalog) = "WITH" /\ Tok(catalog + 1) = "LPAREN" -> Closing(catalog + 1) + 1
                  [] Tok(catalog) = "WITH" /\ Tok(catalog + 1) # "LPAREN" -> catalog + 1
                  [] OTHER -> catalog)

(* INDEX ON table action, where ADD and DROP may have a list of columns.   *)
AlteredColumnPast(i) == Row(i, <<Anything, OptNamed("LANGUAGE"), Opt("COMMA")>>)
parseAlterFulltextIndexStatement ==
    /\ At("parseAlterFulltextIndexStatement")
    /\ LET action == ListEnd(Row(pos, <<Anything, Opt("ON")>>), "DOT") + 1
       IN  ReturnAt("AlterFulltextIndex",
                IF Tok(action) \in {"ADD", "DROP"} /\ Tok(action + 1) = "LPAREN"
                THEN ItemsEnd(action + 2, AlteredColumnPast) + 1
                ELSE action + 1)
parseDropFulltextIndexStatement ==
    /\ At("parseDropFulltextIndexStatement")
    /\ ReturnAt("DropFulltextIndex", ListEnd(Row(pos, <<Anything, Opt("ON")>>), "DOT"))
parseDropFulltextCatalogStatement ==
    At("parseDropFulltextCatalogStatement") /\ ReturnAt("DropNamed", pos + 2)

(* FULLTEXT CATALOG | INDEX; with another word: nil.                       *)
parseCreateFulltextStatement ==
    /\ At("parseCreateFulltextStatement")
    /\ CASE Peek = "CATALOG" -> HandOn(1, "parseCreateFulltextCatalogStatement")
         [] Peek = "INDEX"   -> HandOn(1, "parseCreateFulltextIndexStatement")
         [] OTHER            -> ReturnNil(1)
parseAlterFulltextStatement ==
    /\ At("parseAlterFulltextStatement")
    /\ IF Peek = "INDEX" THEN HandOn(1, "parseAlterFulltextIndexStatement") ELSE ReturnNil(1)
parseDropFulltextStatement ==
    /\ At("parseDropFulltextStatement")
    /\ CASE Peek = "INDEX"   -> HandOn(1, "parseDropFulltextIndexStatement")
         [] Peek = "CATALOG" -> HandOn(1, "parseDropFulltextCatalogStatement")
         [] OTHER            -> ReturnNil(1)

StorageStep ==
    \/ parseCreatePartitionStatement \/ parseCreatePartitionFunctionStatement
    \/ parseCreatePartitionSchemeStatement \/ parseAlterPartitionStatement
    \/ parseAlterPartitionFunctionStatement \/ parseAlterPartitionSchemeStatement
    \/ parseCreateFulltextStatement \/ parseCreateFulltextCatalogStatement \/ parseCreateFulltextIndexStatement
    \/ parseAlterFulltextStatement \/ parseAlterFulltextIndexStatement
    \/ parseDropFulltextStatement \/ parseDropFulltextIndexStatement \/ parseDropFulltextCatalogStatement
=============================================================================
