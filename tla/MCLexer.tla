------------------------------- MODULE MCLexer -------------------------------
(* The lexer on families of texts: an opening, then any few characters.    *)
EXTENDS Lexer, SequencesExt

CONSTANT Families
Family(opening, alphabet, len) == [opening |-> opening, alphabet |-> alphabet, len |-> len]
Openings == UNION {{f.opening} \X BoundedSeq(f.alphabet, f.len) : f \in Families}
FamilyTexts == {p[1] \o p[2] : p \in Openings}
FamilyCharacters == UNION {f.alphabet \cup ToSet(f.opening) : f \in Families}

Signs      == {"+", "-", "*", "/", "%", "&", "|", "^", "!", "<", ">", "=", ":", "\n"}
Everything == {
    Family(<<>>, Signs, 3),
    Family(<<>>, {"{", "~", "?", ",", ";", ")", "]", " ", NUL}, 2),
    Family(<<>>, {"/", "*", "-", "\n", "a"}, 5),
    Family(<<"/", "*">>, {"/", "*", "a"}, 7),
    Family(<<>>, {"'", "n", "\n", " "}, 6),
    Family(<<>>, {"\"", "n", "[", "]", "\n"}, 5),
    Family(<<>>, {"'", "\"", "n", "[", NUL}, 5),
    Family(<<>>, {"0", "1", ".", "e", "+", "-"}, 5),
    Family(<<>>, {"$", "1", ",", ".", "a"}, 5),
    Family(<<"0">>, {"x", "e", "n", "1"}, 4),
    Family(<<>>, {"@", "#", "$", "_", "1", "a"}, 4),
    Family(<<"WITH">>, {" ", "\n", "CHECK", "OPTION", "NOCHECK", "a"}, 5),
    Family(<<"WITH">>, {" ", "(", "PARTITIONS", "CHECK"}, 5),
    Family(<<"NEXT">>, {"\n", " ", "VALUE", "FOR"}, 5),
    Family(<<"XML", " ">>, {"\n", "SCHEMA", "COLLECTION", "1"}, 4),
    Family(<<"IS", " ">>, {"\n", "NOT", "DISTINCT", "FROM"}, 5),
    Family(<<>>, {"SYMMETRIC", "ASYMMETRIC", " ", "KEY", ":"}, 5),
    Family(<<>>, {"END", "CONVERSATION", "TRUNCATE", "TABLE", " "}, 4),
    Family(<<>>, {"CREATE", "RULE", "BEGIN", "ATOMIC", "\n"}, 4),
    Family(<<"WITH", " ">>, {"XMLNAMESPACES", " ", "_", "#"}, 4)}
PartitionTexts == {Family(<<"WITH">>, {" ", "(", "PARTITIONS", "a"}, 5)}
=============================================================================
