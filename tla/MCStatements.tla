---------------------------- MODULE MCStatements ----------------------------
(***************************************************************************)
(* Statements on families of inputs, as MCExpressions has them.            *)
(***************************************************************************)
EXTENDS Statements

CONSTANT Families
Family(opening, alphabet, len) == [opening |-> opening, alphabet |-> alphabet, len |-> len]

Pairs == UNION {{f.opening} \X BoundedSeq(f.alphabet, f.len) : f \in Families}
FamilyInputs == {p[1] \o p[2] : p \in Pairs}
FamilyTokens == UNION {f.alphabet \cup ToSet(f.opening) : f \in Families}

Flow    == {"IF", "IDENT", "ELSE", "WHILE", "BEGIN", "END", "BREAK", "SEMICOLON"}
Nesting == {"ELSE", "BREAK", "SEMICOLON", "IF", "GO"}
Cases   == {"CASE", "WHEN", "THEN", "END", "IDENT", "BREAK"}
Trying  == {"BEGIN", "TRY", "END", "CATCH", "BREAK", "SEMICOLON", "IF"}
Ending  == {"END", "CATCH", "TRY", "BREAK", "SEMICOLON", "GO"}
Committing == {"BEGIN", "TRAN", "TRANSACTION", "COMMIT", "ROLLBACK", "SAVE", "IDENT", "WITH",
               "STRING", "SEMICOLON", "END"}
Skipping == {"GRANT", "GO", "SEMICOLON", "USE", "GOTO", "IDENT", "COLON", "WAITFOR", "CONTINUE"}
Raising  == {"IDENT", "COMMA", "RPAREN", "WITH", "SEMICOLON", "END"}
Fetching == {"PRIOR", "ABSOLUTE", "IDENT", "FROM", "INTO", "COMMA"}
Uniting  == {"LPAREN", "SELECT", "RPAREN", "UNION", "ALL", "IDENT"}

TryBlock == <<"BEGIN", "TRY", "BREAK", "END", "TRY", "BEGIN", "CATCH">>

Programs == {
    Family(<<>>, Flow, 4),
    Family(<<"BEGIN", "IF", "IDENT">>, Flow, 4),
    Family(<<"IF", "IDENT", "IF", "IDENT", "BREAK">>, Nesting, 5),
    Family(<<"BEGIN", "PRINT">>, Cases, 4),
    Family(<<"BEGIN", "TRY">>, Trying, 4),
    Family(TryBlock, Ending, 4),
    Family(<<"BEGIN">> \o TryBlock, Ending, 3),
    Family(<<>>, Committing, 3),
    Family(<<"BEGIN", "TRAN", "IDENT", "WITH">>, Committing, 2),
    Family(<<"BEGIN">>, Skipping \cup {"END", "RETURN"}, 3),
    Family(<<"THROW">>, Raising, 4),
    Family(<<"RAISERROR">>, Raising \cup {"LPAREN"}, 3),
    Family(<<"RAISERROR", "LPAREN", "IDENT", "COMMA", "IDENT", "COMMA">>, Raising, 4),
    Family(<<"FETCH_KW">>, Fetching, 4),
    Family(<<"DEALLOCATE">>, Fetching, 2),
    Family(<<"LPAREN">>, Uniting, 3),
    Family(<<"LPAREN", "SELECT", "IDENT", "RPAREN">>, Uniting, 4)}

(* These programs define and declare nothing: a step of the modules left   *)
(* out here would show as a deadlock.                                      *)
ControlNext == \/ StatementStep \/ DmlStep \/ SelectStep \/ TableStep \/ ExpressionStep
               \/ Finished /\ UNCHANGED vars
ControlSpec == ProgramInit /\ [][ControlNext]_vars
-----------------------------------------------------------------------------
(* parser.go:4545 takes the END behind a TRY ... CATCH "so                 *)
(* parseBeginEndBlock doesn't skip it": the block around it, which closes  *)
(* with that END, then ends there.                                         *)
BlocksAroundTryClose ==
    Finished /\ errors = <<>> => \A n \in Blocks : HasItsOwnEnd(heap[n])
NestedTry == {Family(<<"BEGIN">> \o TryBlock \o <<"END", "CATCH">>, {"END", "BREAK", "SEMICOLON"}, 4)}
=============================================================================
