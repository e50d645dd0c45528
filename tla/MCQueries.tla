------------------------------ MODULE MCQueries ------------------------------
(***************************************************************************)
(* SELECT, INSERT, UPDATE, DELETE, MERGE and WITH: every statement put      *)
(* together from its clauses, and some that are not well formed.           *)
(***************************************************************************)
EXTENDS StatementForms

Comparison == <<"IDENT", "EQ", "INT">>
Name       == <<"IDENT", "DOT", "IDENT">>
Hints      == <<"WITH", "LPAREN", "NOLOCK", "COMMA", "INDEX", "LPAREN", "INT", "RPAREN", "RPAREN">>
Output     == <<"OUTPUT">> \o Name \o <<"COMMA", "INT", "INTO", "VARIABLE", "LPAREN", "IDENT", "RPAREN">>
Joined     == <<"FROM">> \o Name \o <<"AS", "IDENT", "LEFT", "OUTER", "HASH", "JOIN", "IDENT", "ON">> \o Comparison
Where      == <<"WHERE">> \o Comparison
Insertion  == <<"INSERT", "LPAREN", "IDENT", "COMMA", "IDENT", "RPAREN",
                "VALUES", "LPAREN", "INT", "COMMA", "INT", "RPAREN">>

SelectForm ==
    <<Word(<<"SELECT">>), Plain(<<"DISTINCT">>),
      May(<<"TOP", "LPAREN", "INT", "RPAREN", "PERCENT_KW", "WITH", "TIES">>),
      Must(<<"IDENT", "AS", "IDENT", "COMMA", "IDENT", "PLUS", "INT">>),
      Plain(<<"INTO">> \o Name \o <<"ON", "IDENT", "LPAREN", "IDENT", "RPAREN">>),
      May(Joined), May(Where),
      May(<<"GROUP", "BY", "IDENT", "COMMA", "ROLLUP", "LPAREN", "IDENT", "COMMA", "IDENT", "RPAREN">>),
      May(<<"HAVING">> \o Comparison),
      May(<<"WINDOW", "IDENT", "AS", "LPAREN", "PARTITION", "BY", "IDENT",
            "ORDER", "BY", "IDENT", "RPAREN">>),
      May(<<"ORDER", "BY", "IDENT", "DESC", "COMMA", "INT">>),
      May(<<"OFFSET", "INT", "ROWS">>),
      May(<<"FETCH_KW", "NEXT", "INT", "ROWS", "ONLY">>),
      May(<<"FOR", "XML", "PATH", "LPAREN", "STRING", "RPAREN", "COMMA", "ROOT">>),
      May(<<"OPTION", "LPAREN", "IDENT", "INT", "COMMA", "HASH", "JOIN", "COMMA",
            "USE", "HINT", "LPAREN", "STRING", "RPAREN", "RPAREN">>),
      May(<<"UNION", "ALL", "SELECT", "INT">>)>>
InsertForm ==
    <<Word(<<"INSERT">>), May(<<"TOP", "LPAREN", "INT", "RPAREN", "PERCENT_KW">>), Word(<<"INTO">> \o Name),
      May(Hints), Plain(<<"LPAREN", "IDENT", "COMMA", "IDENT", "RPAREN">>), May(Output),
      May(<<"VALUES", "LPAREN", "INT", "COMMA", "IDENT", "RPAREN", "COMMA", "LPAREN", "INT", "RPAREN">>)>>
UpdateForm ==
    <<Word(<<"UPDATE">>), May(<<"TOP", "INT">>), Word(Name), May(Hints), Plain(<<"AS", "IDENT">>),
      Must(<<"SET">> \o Name \o <<"EQ", "INT", "COMMA", "IDENT", "PLUSEQ", "INT">>), May(Output),
      May(Joined), May(Where)>>
DeleteForm ==
    <<Word(<<"DELETE">>), May(<<"TOP", "INT">>), Plain(<<"FROM">>), Word(Name), May(Output), May(Joined),
      May(Hints), May(Where)>>
MergeForm ==
    <<Word(<<"MERGE", "INTO">> \o Name \o <<"AS", "IDENT", "USING", "LPAREN">>),
      Must(<<"SELECT", "INT", "FROM", "IDENT", "RPAREN">>),
      Word(<<"AS", "IDENT", "LPAREN", "IDENT", "RPAREN">>), Must(<<"ON">> \o Comparison),
      May(<<"WHEN", "MATCHED", "AND">> \o Comparison \o <<"THEN", "UPDATE", "SET">> \o Comparison),
      May(<<"WHEN", "NOT", "MATCHED", "BY", "TARGET", "THEN">> \o Insertion),
      May(<<"WHEN", "NOT", "MATCHED", "BY", "SOURCE", "THEN", "DELETE">>), May(Output)>>
Cte == <<"IDENT", "LPAREN", "IDENT", "RPAREN", "AS", "LPAREN", "SELECT", "INT", "RPAREN">>
WithForm ==
    <<Word(<<"WITH">>), Must(Cte), May(<<"COMMA">> \o Cte), Must(<<"SELECT", "IDENT", "FROM", "IDENT">>)>>
XmlForm ==
    <<Word(<<"WITH_XMLNAMESPACES", "LPAREN", "STRING", "AS", "IDENT", "COMMA", "DEFAULT_KW", "STRING", "RPAREN">>),
      Must(<<"SELECT", "IDENT", "FROM", "IDENT">>)>>

(* What can stand in FROM, and other parts a clause can have.              *)
Times   == {<<"AS", "OF", "STRING">>, <<"BETWEEN", "STRING", "AND", "STRING">>, <<"ALL">>,
            <<"FROM", "STRING", "TO", "STRING">>,
            <<"CONTAINED", "IN", "LPAREN", "STRING", "COMMA", "STRING", "RPAREN">>}
Columns == <<"AS", "IDENT", "LPAREN", "IDENT", "COMMA", "IDENT", "RPAREN">>
Rows    == <<"LPAREN", "VALUES", "LPAREN", "INT", "COMMA", "INT", "RPAREN", "COMMA",
             "LPAREN", "INT", "COMMA", "INT", "RPAREN", "RPAREN">> \o Columns
Deletion == <<"LPAREN", "DELETE", "FROM", "IDENT", "OUTPUT", "IDENT", "RPAREN", "AS", "IDENT">>
Pivoted == <<"FOR", "IDENT", "IN", "LPAREN", "IDENT", "COMMA", "IDENT", "RPAREN", "RPAREN", "AS", "IDENT">>
Sources ==
    {Name \o <<"TABLESAMPLE", "LPAREN", "INT", "PERCENT_KW", "RPAREN", "AS", "IDENT", "WITH">> \o Tail(Hints),
     Name \o <<"LPAREN", "NOLOCK", "RPAREN", "IDENT">>,
     <<"LPAREN", "SELECT", "INT", "RPAREN">> \o Columns, Rows, Deletion,
     <<"OPENJSON", "LPAREN", "VARIABLE", "COMMA", "STRING", "RPAREN", "WITH", "LPAREN", "IDENT", "IDENT", "STRING",
       "AS", "JSON", "COMMA", "IDENT", "IDENT", "LPAREN", "INT", "RPAREN", "RPAREN", "AS", "IDENT">>,
     <<"LPAREN", "IDENT", "JOIN", "IDENT", "ON">> \o Comparison \o <<"RPAREN", "CROSS", "JOIN", "IDENT">>,
     <<"IDENT", "COMMA", "IDENT", "AS", "IDENT">>,
     <<"IDENT", "CROSS", "APPLY", "IDENT", "LPAREN", "RPAREN", "AS", "IDENT", "OUTER", "APPLY",
       "IDENT", "LPAREN", "IDENT", "COMMA", "INT", "RPAREN">>,
     <<"IDENT", "PIVOT", "LPAREN", "IDENT", "LPAREN", "IDENT", "RPAREN">> \o Pivoted,
     <<"IDENT", "UNPIVOT", "LPAREN", "IDENT">> \o Pivoted}
        \cup {Name \o <<"FOR", "SYSTEM_TIME">> \o time \o <<"AS", "IDENT">> : time \in Times}
Groupings ==
    {<<"GROUPING", "SETS", "LPAREN", "LPAREN", "IDENT", "COMMA", "IDENT", "RPAREN", "COMMA",
       "IDENT", "COMMA", "LPAREN", "RPAREN", "RPAREN">>,
     <<"CUBE", "LPAREN", "IDENT", "COMMA", "IDENT", "RPAREN">>}
Merged(source) ==
    <<Word(<<"MERGE", "IDENT", "USING">>), Must(source), Must(<<"ON">> \o Comparison),
      Must(<<"WHEN", "MATCHED", "THEN", "DELETE">>)>>

QueryForms ==
    {Form(SelectForm, 2, Anywhere)}
        \cup {Form(form, 9, Anywhere) : form \in {InsertForm, UpdateForm, DeleteForm, MergeForm, WithForm, XmlForm}}
        \cup {Form(<<Word(<<"SELECT">>), Must(<<"IDENT">>), Must(<<"FROM">> \o source), May(Where)>>, 1, Anywhere) :
                  source \in Sources}
        \cup {Form(<<Word(<<"SELECT">>), Must(<<"IDENT">>), May(<<"GROUP", "BY">> \o grouping),
                     May(<<"HAVING">> \o Comparison)>>, 2, Anywhere) : grouping \in Groupings}
        \cup {Form(<<Word(<<"SELECT">>), Must(<<"VARIABLE", "EQ", "INT", "COMMA", "VARIABLE", "EQ", "INT">>)>>,
                    0, Anywhere),
              Form(<<Word(<<"INSERT">>), Must(<<"TOP", "INT">>), Word(<<"IDENT">>),
                     Must(<<"SELECT", "IDENT", "FROM", "IDENT">>)>>, 0, Anywhere),
              Form(<<Word(<<"INSERT", "IDENT", "DEFAULT_KW", "VALUES">>)>>, 0, Anywhere),
              Form(<<Word(<<"UPDATE", "IDENT">>),
                     Must(<<"SET", "IDENT", "DOT", "IDENT", "LPAREN", "STRING", "COMMA", "INT", "RPAREN">>),
                     Plain(<<"WHERE", "CURRENT", "OF", "IDENT">>)>>, 1, Anywhere),
              Form(Merged(Rows), 0, Anywhere)}

(* Inputs that are not well formed, or whose reading depends on what a     *)
(* name stands for.                                                        *)
Hinting  == {"LPAREN", "RPAREN", "IDENT", "INDEX", "EQ", "COMMA"}
Sampling == {"LPAREN", "RPAREN", "IDENT", "INT", "ROWS"}
Timing   == {"AS", "OF", "FROM", "TO", "CONTAINED", "LPAREN", "STRING", "RPAREN"}
Bulk     == {"STRING", "COMMA", "IDENT", "EQ", "RPAREN", "WITH"}
Grouped  == {"SETS", "LPAREN", "RPAREN", "IDENT", "COMMA", "GROUPING"}
Options  == {"LPAREN", "RPAREN", "USE", "HINT", "STRING", "IDENT", "FOR", "EQ", "INT"}
Setting  == {"IDENT", "DOT", "LPAREN", "RPAREN", "EQ", "COMMA"}
Merging  == {"WHEN", "NOT", "MATCHED", "THEN", "DELETE", "INSERT", "IDENT"}
IllFormed == {
    Family(<<"SELECT", "IDENT", "FROM", "IDENT", "WITH", "LPAREN", "IDENT">>, Hinting, 3),
    Family(<<"SELECT", "IDENT", "FROM", "IDENT", "TABLESAMPLE">>, Sampling, 3),
    Family(<<"SELECT", "IDENT", "FROM", "IDENT", "TABLESAMPLE", "LPAREN", "INT", "RPAREN">>, Sampling, 3),
    Family(<<"SELECT", "IDENT", "FROM", "IDENT", "FOR", "SYSTEM_TIME">>, Timing, 3),
    Family(<<"SELECT", "IDENT", "FROM", "IDENT", "LPAREN", "BULK">>, Bulk, 3),
    Family(<<"SELECT", "IDENT", "FROM", "LPAREN">>, {"IDENT", "VALUES", "JOIN", "LPAREN", "RPAREN", "COMMA"}, 3),
    Family(<<"SELECT", "IDENT", "GROUP">>, {"BY", "CUBE", "LPAREN", "IDENT"}, 3),
    Family(<<"SELECT", "IDENT", "GROUP", "BY", "GROUPING">>, Grouped, 3),
    Family(<<"PRINT", "LPAREN", "SELECT", "IDENT", "GROUP", "BY", "GROUPING", "SETS">>,
           {"RPAREN", "SCOPE", "IDENT"}, 4),
    Family(<<"SELECT", "IDENT", "OPTION">>, Options, 3),
    Family(<<"SELECT", "IDENT", "OPTION", "LPAREN", "IDENT", "FOR", "LPAREN", "VARIABLE">>,
           {"EQ", "INT", "IDENT", "COMMA", "RPAREN", "VARIABLE"}, 3),
    Family(<<"UPDATE", "IDENT", "SET", "IDENT">>, Setting, 3),
    Family(<<"INSERT", "IDENT">>, {"VALUES", "LPAREN", "INT", "COMMA", "RPAREN", "GO"}, 3),
    Family(<<"MERGE", "IDENT", "USING", "LPAREN">>, {"IDENT", "LPAREN", "RPAREN", "ON", "INT"}, 3),
    Family(<<"MERGE", "IDENT", "USING", "IDENT", "ON", "INT">>, Merging, 3),
    Family(<<"WITH">>, {"IDENT", "AS", "LPAREN", "SELECT", "RPAREN", "COMMA"}, 3),
    Family(<<"WITH_XMLNAMESPACES", "LPAREN">>, {"STRING", "AS", "COMMA", "RPAREN", "SELECT", "IDENT"}, 3)}
-----------------------------------------------------------------------------
(* README.md:35 to 43 print the program when Parse has returned no error,  *)
(* and parser_test.go:5388 has UPDATE call methods of XML columns.         *)
ParsedProgramsPrint == Finished /\ errors = <<>> => heap[ret].whole
Modifying == {Family(<<"UPDATE", "IDENT", "SET", "IDENT", "DOT", "IDENT">>, {"LPAREN", "STRING", "RPAREN", "EQ", "INT"}, 3)}
=============================================================================
