---------------------------- MODULE MCExpressions ----------------------------
(***************************************************************************)
(* Expressions on families of inputs: a fixed beginning, then every token  *)
(* sequence over an alphabet up to a length.  The beginnings spend the     *)
(* length on the part of a construct where its functions meet.             *)
(***************************************************************************)
EXTENDS Expressions, SequencesExt, FiniteSetsExt

CONSTANT Families
Family(opening, alphabet, len) == [opening |-> opening, alphabet |-> alphabet, len |-> len]

(* (Pairs first: TLC enumerates a union of products without comparing.)    *)
Pairs == UNION {{f.opening} \X BoundedSeq(f.alphabet, f.len) : f \in Families}
FamilyInputs == {p[1] \o p[2] : p \in Pairs}
FamilyTokens == UNION {f.alphabet \cup ToSet(f.opening) : f \in Families}

Predicate == {"IDENT", "OR", "AND", "NOT", "EQ", "LIKE", "ESCAPE", "BETWEEN", "PLUS", "LPAREN", "RPAREN"}
Calling   == {"IDENT", "INT", "COUNT", "LPAREN", "RPAREN", "COMMA", "DOT", "SCOPE", "DISTINCT", "COLON"}
Casing    == {"IDENT", "FLOAT", "CASE", "WHEN", "THEN", "ELSE", "END", "IN", "LPAREN", "RPAREN",
              "SELECT", "EXISTS", "ALL"}
Windowing == {"IDENT", "PARTITION", "ORDER", "BY", "ROWS", "UNBOUNDED", "AND", "RPAREN", "COMMA", "ASC"}
Zoning    == {"IDENT", "AT", "TIME", "ZONE", "COLLATE", "IS", "NOT", "NULL", "IS_DISTINCT_FROM",
              "MINUS", "SEMICOLON"}
Converting == {"IDENT", "INT", "LPAREN", "RPAREN", "COMMA", "DOT", "AS", "USING", "FROM"}
Sequencing == {"IDENT", "DOT", "OVER", "VALUE", "FOR", "LOCAL", "SELECT", "LPAREN", "RPAREN"}
Searching  == {"IDENT", "ASTERISK", "LPAREN", "RPAREN", "COMMA", "LANGUAGE", "STRING"}

Over   == <<"COUNT", "LPAREN", "RPAREN", "OVER">>
Within == <<"COUNT", "LPAREN", "RPAREN", "WITHIN", "GROUP">>

Grammar == {
    Family(<<>>, Predicate, 4),
    Family(<<"IDENT", "LIKE", "IDENT", "ESCAPE">>, Predicate, 3),
    Family(<<"IDENT", "NOT", "BETWEEN", "IDENT">>, Predicate, 4),
    Family(<<"IDENT", "PLUS", "LPAREN", "IDENT">>, Predicate, 3),
    Family(<<>>, Calling, 4),
    Family(<<"COUNT", "LPAREN", "IDENT">>, Calling, 4),
    Family(<<"LPAREN", "IDENT", "SCOPE">>, Calling, 3),
    Family(<<>>, Casing, 3),
    Family(<<"CASE", "WHEN", "IDENT", "THEN", "IDENT">>, Casing \ {"LPAREN", "RPAREN", "ALL", "EXISTS", "IN"}, 4),
    Family(<<"IDENT", "EQ", "CASE", "IDENT">>, Casing, 3),
    Family(<<"IDENT", "IN", "LPAREN">>, Casing, 3),
    Family(Over, Windowing \cup {"LPAREN"}, 2),
    Family(Over \o <<"LPAREN">>, Windowing, 4),
    Family(Over \o <<"LPAREN", "ROWS", "BETWEEN">>, Windowing, 3),
    Family(Over \o <<"LPAREN", "ORDER", "BY", "ROWS">>, Windowing, 3),
    Family(Over \o <<"LPAREN", "PARTITION", "BY", "IDENT">>, Windowing, 3),
    Family(Within, Windowing \cup {"LPAREN"}, 2),
    Family(Within \o <<"LPAREN", "ORDER", "BY", "IDENT">>, Windowing \cup {"OVER"}, 3),
    Family(<<>>, Zoning, 3),
    Family(<<"IDENT", "AT", "TIME", "ZONE">>, Zoning, 2),
    Family(<<"MINUS", "IDENT">>, Zoning, 4),
    Family(<<"CAST">>, Converting, 3),
    Family(<<"CAST", "LPAREN", "INT", "AS">>, Converting, 3),
    Family(<<"TRY_CONVERT", "LPAREN", "XML", "LPAREN">>, Converting \ {"USING"}, 4),
    Family(<<"CONVERT", "LPAREN", "IDENT", "COMMA">>, Converting, 3),
    Family(<<"PARSE", "LPAREN", "INT", "AS", "IDENT">>, Converting, 3),
    Family(<<"TRIM", "LPAREN">>, Converting \ {"USING", "DOT", "AS"}, 4),
    Family(<<"NEXT">>, Sequencing, 3),
    Family(<<"NEXT_VALUE_FOR">>, Sequencing, 3),
    Family(<<"CURSOR">>, Sequencing, 3),
    Family(<<"CONTAINS">>, Searching, 3),
    Family(<<"FREETEXT", "LPAREN", "LPAREN", "IDENT">>, Searching, 4),
    Family(<<"CONTAINSTABLE", "LPAREN", "IDENT", "COMMA">>, Searching, 3),
    Family(<<"FREETEXTTABLE", "LPAREN">>, Searching, 3)}

(* Three tokens of every kind of Grammar but the conversions, sequences    *)
(* and searches, in every combination.                                     *)
Everything == {Family(<<>>, Predicate \cup Calling \cup Casing \cup Windowing \cup Zoning
                              \cup {"OVER", "WITHIN", "STRING"}, 3)}
-----------------------------------------------------------------------------
(* The levels as the comments on the precedence constants give them, the   *)
(* loosest first; chains of up to four of these operators.                 *)
Levels == <<"OR", "AND", "EQ", "PIPE", "CARET", "AMPERSAND", "LSHIFT", "PLUS", "ASTERISK">>
Level(t) == CHOOSE l \in DOMAIN Levels : Levels[l] = t

Chain(ops) == [i \in 1..(2 * Len(ops) + 1) |-> IF i % 2 = 1 THEN "IDENT" ELSE ops[i \div 2]]
Chains == {Chain(ops) : ops \in BoundedSeq(ToSet(Levels), 4)}
IsChain == Len(input) % 2 = 1 /\ \A i \in DOMAIN input :
               IF i % 2 = 1 THEN Tok(i) = "IDENT" ELSE Tok(i) \in ToSet(Levels)

GrammarInputs == {p[1] \o p[2] : p \in UNION {Pairs, {<<>>} \X Chains}}
GrammarTokens == FamilyTokens \cup ToSet(Levels)

(* The last of the loosest operators between two places is applied last; a *)
(* tree is <<operator, left, right>> or <<operand>>.                       *)
RECURSIVE Grouped(_, _)
Grouped(lo, hi) ==
    IF lo = hi THEN <<lo>>
    ELSE LET ops     == {i \in lo..hi : Tok(i) # "IDENT"}
             loosest == Min({Level(Tok(i)) : i \in ops})
             last    == Max({i \in ops : Level(Tok(i)) = loosest})
         IN  <<last, Grouped(lo, last - 1), Grouped(last + 1, hi)>>

RECURSIVE Tree(_)
Tree(v) == IF heap[v].kids = <<>> THEN <<heap[v].at>>
           ELSE <<heap[v].at, Tree(heap[v].kids[1]), Tree(heap[v].kids[2])>>

(* The tree of a chain of binary operators is the one that the levels      *)
(* define, whatever the order of the operators, and no error is reported.  *)
ChainsGroupByLevel ==
    Finished /\ IsChain => errors = <<>> /\ Tree(ret) = Grouped(1, Len(input))
-----------------------------------------------------------------------------
(* parser.go:20 has a level for NOT between AND and the comparisons: NOT   *)
(* applies to the whole comparison that follows it.                        *)
NotTakesTheComparison ==
    Finished /\ errors = <<>> =>
        ~ \E n \in DOMAIN heap : /\ heap[n].kind = "Infix" /\ Tok(heap[n].at) = "EQ"
                                 /\ heap[heap[n].kids[1]].kind = "Prefix"
                                 /\ Tok(heap[heap[n].kids[1]].at) = "NOT"
                                 /\ ~ heap[heap[n].kids[1]].paren
NotFamilies == {Family(<<>>, {"IDENT", "NOT", "EQ", "AND"}, 4)}

(* tsqlparser.go:23 says that Parse "returns the AST and any errors".      *)
NeverPanics == ret # Panicked
ScopeFamilies == {Family(<<>>, {"IDENT", "PLUS", "SCOPE", "LPAREN", "RPAREN"}, 4)}
=============================================================================
