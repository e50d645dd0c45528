------------------------------- MODULE MCServer -------------------------------
(***************************************************************************)
(* Security, administration, storage and service broker statements.  The   *)
(* texts of the forms hold no word that could be another one than meant.   *)
(***************************************************************************)
EXTENDS MCQueries

Option   == <<"IDENT", "EQ", "IDENT">>
Settings == <<"WITH", "LPAREN">> \o Option \o <<"COMMA", "IDENT", "EQ", "INT", "RPAREN">>
Protected == <<"BY", "PASSWORD", "EQ", "STRING">>
Disks    == <<"DISK", "EQ", "STRING", "COMMA", "DISK", "EQ", "STRING">>

SecurityTexts ==
    {<<"CREATE", "LOGIN", "IDENT", "WITH", "PASSWORD", "EQ", "STRING", "COMMA">> \o Option,
     <<"CREATE", "LOGIN", "IDENT", "FROM", "CERTIFICATE", "IDENT">>,
     <<"CREATE", "LOGIN", "IDENT", "FROM", "WINDOWS", "WITH">> \o Option,
     <<"ALTER", "LOGIN", "IDENT", "DISABLE">>, <<"ALTER", "LOGIN", "IDENT", "WITH", "PASSWORD", "EQ", "STRING">>,
     <<"CREATE", "USER", "IDENT", "FOR", "LOGIN", "IDENT", "WITH">> \o Option,
     <<"CREATE", "USER", "IDENT", "WITHOUT", "LOGIN">>,
     <<"ALTER", "USER", "IDENT", "WITH">> \o Option \o <<"COMMA">> \o Option,
     <<"CREATE", "ROLE", "IDENT", "AUTHORIZATION", "IDENT">>, <<"CREATE", "SERVER", "ROLE", "IDENT">>,
     <<"ALTER", "ROLE", "IDENT", "ADD", "MEMBER", "IDENT">>,
     <<"ALTER", "SERVER", "ROLE", "IDENT", "DROP", "MEMBER", "IDENT">>,
     <<"CREATE", "MASTER", "KEY", "ENCRYPTION">> \o Protected,
     <<"CREATE", "CERTIFICATE", "IDENT", "WITH">> \o Option,
     <<"CREATE", "SYMMETRIC", "KEY", "IDENT", "WITH", "ALGORITHM", "EQ", "IDENT", "ENCRYPTION">> \o Protected,
     <<"CREATE", "ASYMMETRIC", "KEY", "IDENT", "FROM", "ASSEMBLY", "IDENT">>,
     <<"CREATE", "ASSEMBLY", "IDENT", "FROM", "STRING", "WITH", "PERMISSION_SET", "EQ", "IDENT">>,
     <<"ALTER", "ASSEMBLY", "IDENT", "FROM", "STRING">>,
     <<"DROP", "SYMMETRIC", "KEY", "IDENT">>, <<"DROP", "MASTER", "KEY">>,
     <<"OPEN", "SYMMETRIC", "KEY", "IDENT", "DECRYPTION">> \o Protected, <<"CLOSE", "SYMMETRIC", "KEY", "IDENT">>}

AdministrationTexts ==
    {<<"BACKUP", "DATABASE", "IDENT", "TO">> \o Disks,
     <<"BACKUP", "LOG", "IDENT", "TO", "DISK", "EQ", "STRING", "WITH">> \o Option \o <<"COMMA", "IDENT">>,
     <<"RESTORE", "DATABASE", "IDENT", "FROM">> \o Disks
         \o <<"WITH", "MOVE", "STRING", "TO", "STRING", "COMMA", "MOVE", "STRING", "TO", "STRING">>,
     <<"RESTORE", "FILELISTONLY", "FROM", "DISK", "EQ", "STRING">>,
     <<"CREATE", "RESOURCE", "POOL", "IDENT">> \o Settings, <<"ALTER", "RESOURCE", "POOL", "IDENT">> \o Settings,
     <<"CREATE", "WORKLOAD", "GROUP", "IDENT">> \o Settings \o <<"USING", "IDENT">>,
     <<"ALTER", "WORKLOAD", "GROUP", "IDENT">> \o Settings,
     <<"ALTER", "RESOURCE", "GOVERNOR", "RECONFIGURE">>,
     <<"ALTER", "RESOURCE", "GOVERNOR", "WITH", "LPAREN", "CLASSIFIER", "EQ", "NULL", "RPAREN">>,
     <<"DROP", "RESOURCE", "POOL", "IDENT">>, <<"DROP", "WORKLOAD", "GROUP", "IDENT">>,
     <<"DROP", "AVAILABILITY", "GROUP", "IDENT">>,
     <<"CREATE", "AVAILABILITY", "GROUP", "IDENT", "FOR", "DATABASE", "IDENT", "COMMA", "IDENT", "REPLICA", "ON",
       "STRING">> \o Settings \o <<"COMMA", "REPLICA", "ON", "STRING">>,
     <<"ALTER", "AVAILABILITY", "GROUP", "IDENT", "ADD", "DATABASE", "IDENT">>,
     <<"ALTER", "AVAILABILITY", "GROUP", "IDENT", "FAILOVER">>}

StorageTexts ==
    {<<"CREATE", "PARTITION", "SCHEME", "IDENT", "AS", "PARTITION", "IDENT", "ALL", "TO", "LPAREN", "IDENT", "RPAREN">>,
     <<"CREATE", "PARTITION", "SCHEME", "IDENT", "AS", "PARTITION", "IDENT", "TO", "LPAREN", "IDENT", "COMMA", "IDENT",
       "RPAREN">>,
     <<"ALTER", "PARTITION", "SCHEME", "IDENT", "NEXT", "USED", "IDENT">>,
     <<"CREATE", "FULLTEXT", "CATALOG", "IDENT", "AS", "DEFAULT_KW", "AUTHORIZATION", "IDENT">>,
     <<"CREATE", "FULLTEXT", "INDEX", "ON">> \o Name
         \o <<"LPAREN", "IDENT", "TYPE_WARNING", "COLUMN", "IDENT", "LANGUAGE", "INT", "COMMA", "IDENT", "RPAREN",
              "KEY", "INDEX", "IDENT", "ON", "IDENT", "WITH", "LPAREN">> \o Option \o <<"RPAREN">>,
     <<"ALTER", "FULLTEXT", "INDEX", "ON">> \o Name
         \o <<"ADD", "LPAREN", "IDENT", "LANGUAGE", "INT", "COMMA", "IDENT", "RPAREN">>,
     <<"ALTER", "FULLTEXT", "INDEX", "ON", "IDENT", "ENABLE">>,
     <<"DROP", "FULLTEXT", "INDEX", "ON">> \o Name, <<"DROP", "FULLTEXT", "CATALOG", "IDENT">>}

ConversationTexts ==
    {<<"CREATE", "MESSAGE", "TYPE_WARNING", "IDENT", "AUTHORIZATION", "IDENT", "VALIDATION", "EQ", "NONE_KW">>,
     <<"CREATE", "CONTRACT", "IDENT", "AUTHORIZATION", "IDENT", "LPAREN", "IDENT", "SENT", "BY", "INITIATOR", "COMMA",
       "IDENT", "SENT", "BY", "ANY", "RPAREN">>,
     <<"CREATE", "QUEUE">> \o Name, <<"CREATE", "QUEUE">> \o Name \o Settings,
     <<"ALTER", "QUEUE">> \o Name \o <<"WITH">> \o Option,
     <<"CREATE", "SERVICE", "IDENT", "AUTHORIZATION", "IDENT", "ON", "QUEUE">> \o Name
         \o <<"LPAREN", "IDENT", "COMMA", "IDENT", "RPAREN">>,
     <<"DROP", "MESSAGE", "TYPE_WARNING", "IF", "EXISTS", "IDENT">>, <<"DROP", "QUEUE">> \o Name,
     <<"END_CONVERSATION", "VARIABLE">>, <<"GET", "CONVERSATION", "GROUP", "VARIABLE", "FROM">> \o Name,
     <<"MOVE", "CONVERSATION", "VARIABLE", "TO", "VARIABLE">>}

(* As the first statement of a procedure this one is read as a block.      *)
DialogText ==
    <<"BEGIN", "DIALOG", "CONVERSATION", "VARIABLE", "FROM", "SERVICE", "IDENT", "TO", "SERVICE", "STRING",
      "ON", "CONTRACT", "IDENT", "WITH">> \o Option \o <<"COMMA">> \o Option

DbccForm    == <<Word(<<"DBCC", "IDENT", "LPAREN">>), Must(<<"STRING">>), May(<<"COMMA", "INT">>), Word(<<"RPAREN">>),
                 Plain(<<"WITH", "IDENT", "COMMA", "IDENT">>)>>
FunctionOfPartitions ==
    <<Word(<<"CREATE", "PARTITION", "FUNCTION", "IDENT", "LPAREN">>), Must(<<"IDENT", "LPAREN", "INT", "RPAREN">>),
      Word(<<"RPAREN", "AS", "RANGE", "LEFT", "FOR", "VALUES", "LPAREN">>), Must(<<"INT">>), May(<<"COMMA", "INT">>),
      Word(<<"RPAREN">>)>>
SplitForm   == <<Word(<<"ALTER", "PARTITION", "FUNCTION", "IDENT", "LPAREN", "RPAREN", "SPLIT", "RANGE", "LPAREN">>),
                 Must(<<"INT">>), Word(<<"RPAREN">>)>>
SendForm    == <<Word(<<"SEND", "ON", "CONVERSATION", "VARIABLE", "MESSAGE", "TYPE_WARNING", "IDENT", "LPAREN">>),
                 Must(<<"VARIABLE">>), Word(<<"RPAREN">>)>>
ReceiveForm == <<Word(<<"RECEIVE", "TOP", "LPAREN">>), Must(<<"INT">>),
                 Word(<<"RPAREN", "VARIABLE", "EQ", "IDENT", "COMMA", "IDENT", "FROM">> \o Name)>>

ServerForms ==
    {Form(<<Word(text)>>, 0, Separated) :
        text \in SecurityTexts \cup AdministrationTexts \cup StorageTexts \cup ConversationTexts}
        \cup {Form(<<Word(DialogText)>>, 0, Separated \ {FirstOfProcedure})}
        \cup {Form(parts, 9, Separated) : parts \in {DbccForm, FunctionOfPartitions, SplitForm, SendForm, ReceiveForm}}

(* Words that are no keywords, lists that are not closed, other objects.   *)
Short(opening, alphabet) == Family(opening, alphabet, 2)
ServerFamilies == {
    Family(<<"CREATE", "LOGIN", "IDENT", "WITH", "IDENT">>, {"IDENT", "EQ", "COMMA"}, 3),
    Family(<<"ALTER", "LOGIN", "IDENT", "WITH", "IDENT">>, {"IDENT", "EQ", "COMMA"}, 3),
    Short(<<"CREATE", "USER", "IDENT">>, {"FOR", "WITHOUT", "LOGIN", "WITH", "IDENT"}),
    Short(<<"ALTER", "ROLE", "IDENT">>, {"ADD", "WITH", "IDENT", "EQ"}),
    Family(<<"ALTER", "ROLE", "IDENT", "WITH">>, {"IDENT", "EQ", "BREAK"}, 3),
    Short(<<"CREATE", "IDENT">>, {"ROLE", "IDENT", "WITH"}),
    Short(<<"ALTER", "IDENT">>, {"ROLE", "IDENT", "WITH"}),
    Short(<<"CREATE", "IDENT", "IDENT", "WITH">>, {"IDENT", "EQ", "BREAK"}),
    Short(<<"CREATE", "DATABASE">>, {"IDENT", "SEMICOLON", "BREAK"}),
    Short(<<"CREATE", "DATABASE", "IDENT", "IDENT">>, {"IDENT", "WITH", "SEMICOLON"}),
    Short(<<"DROP", "DATABASE">>, {"IDENT", "COMMA", "IF"}),
    Short(<<"CREATE", "MASTER">>, {"KEY", "ENCRYPTION", "STRING"}),
    Family(<<"CREATE", "CERTIFICATE", "IDENT">>, {"FROM", "IDENT", "WITH", "STRING"}, 3),
    Family(<<"CREATE", "SYMMETRIC", "KEY", "IDENT">>, {"WITH", "ENCRYPTION", "BY", "IDENT"}, 3),
    Family(<<"CREATE", "ASYMMETRIC", "KEY", "IDENT">>, {"WITH", "FROM", "ALGORITHM", "IDENT"}, 3),
    Short(<<"DROP", "ASYMMETRIC">>, {"KEY", "IDENT", "BREAK"}),
    Family(<<"DBCC", "IDENT">>, {"IDENT", "LPAREN", "RPAREN", "COMMA", "WITH"}, 3),
    Family(<<"BACKUP", "DATABASE", "IDENT">>, {"IDENT", "EQ", "TO", "WITH"}, 3),
    Short(<<"BACKUP", "DATABASE", "IDENT", "TO", "IDENT">>, {"IDENT", "TO", "COMMA", "WITH"}),
    Family(<<"BACKUP", "DATABASE", "IDENT", "WITH">>, {"MOVE", "IDENT", "LPAREN", "COMMA"}, 3),
    Family(<<"RESTORE">>, {"LOG", "IDENT", "FROM", "WITH"}, 3),
    Family(<<"RESTORE", "LOG", "IDENT", "WITH", "MOVE">>, {"STRING", "TO", "IDENT", "COMMA"}, 3),
    Family(<<"CREATE", "RESOURCE", "POOL", "IDENT", "WITH", "LPAREN">>, {"IDENT", "EQ", "RPAREN", "COMMA"}, 3),
    Family(<<"ALTER", "RESOURCE">>, {"GOVERNOR", "IDENT", "WITH", "LPAREN"}, 3),
    Family(<<"CREATE", "AVAILABILITY", "GROUP", "IDENT">>, {"FOR", "REPLICA", "IDENT", "WITH"}, 3),
    Short(<<"ALTER", "AVAILABILITY", "GROUP", "IDENT">>, {"ADD", "IDENT", "REPLICA", "DATABASE"}),
    Short(<<"CREATE", "PARTITION">>, {"FUNCTION", "SCHEME", "IDENT"}),
    Short(<<"ALTER", "PARTITION">>, {"FUNCTION", "SCHEME", "IDENT"}),
    Family(<<"CREATE", "PARTITION", "FUNCTION", "IDENT", "VALUES", "LPAREN">>, {"INT", "COMMA", "RPAREN", "BREAK"}, 3),
    Short(<<"CREATE", "PARTITION", "FUNCTION", "IDENT", "LPAREN">>, {"IDENT", "RPAREN", "INT"}),
    Family(<<"CREATE", "PARTITION", "SCHEME", "IDENT", "AS", "PARTITION", "IDENT", "TO">>, {"LPAREN", "IDENT", "COMMA"}, 3),
    Short(<<"ALTER", "PARTITION", "FUNCTION", "IDENT">>, {"LPAREN", "MERGE", "INT"}),
    Short(<<"CREATE", "FULLTEXT">>, {"CATALOG", "INDEX", "IDENT"}), Short(<<"ALTER", "FULLTEXT">>, {"CATALOG", "INDEX", "ON"}),
    Short(<<"DROP", "FULLTEXT">>, {"CATALOG", "INDEX", "IDENT"}),
    Family(<<"CREATE", "FULLTEXT", "CATALOG", "IDENT">>, {"ON", "AS", "IDENT", "AUTHORIZATION"}, 3),
    Family(<<"CREATE", "FULLTEXT", "INDEX", "ON", "IDENT", "LPAREN", "IDENT">>, {"IDENT", "COMMA", "RPAREN", "LANGUAGE"}, 3),
    Family(<<"CREATE", "CONTRACT", "IDENT", "LPAREN", "IDENT">>, {"SENT", "BY", "COMMA", "RPAREN"}, 3),
    Short(<<"ALTER", "QUEUE", "IDENT">>, {"WITH", "IDENT", "SEMICOLON"}),
    Family(<<"CREATE", "SERVICE", "IDENT">>, {"ON", "QUEUE", "IDENT", "LPAREN"}, 3),
    Short(<<"BEGIN", "DIALOG", "IDENT", "WITH">>, {"IDENT", "EQ", "COMMA"}),
    Family(<<"SEND", "ON">>, {"IDENT", "LPAREN", "INT"}, 3),
    Family(<<"RECEIVE">>, {"TOP", "LPAREN", "VARIABLE", "FROM", "SEMICOLON"}, 3),
    Family(<<"END_CONVERSATION", "IDENT", "WITH">>, {"IDENT", "EQ", "INT"}, 4),
    Family(<<"GET">>, {"GROUP", "IDENT", "FROM", "BREAK"}, 3)}
=============================================================================
