-------------------------------- MODULE Lexer --------------------------------
(***************************************************************************)
(* lexer.Lexer: the text, the cursor on it, and NextToken, which Tokenize  *)
(* calls until it returns EOF.  A text is a sequence of characters, except *)
(* that a word the lexer knows stands as one element: the letters a, e, n, *)
(* x and _ make up all the other names.                                    *)
(***************************************************************************)
EXTENDS Integers, Sequences, FiniteSets, TLC

CONSTANTS Characters,        \* the elements of the texts
          Texts              \* the source texts
ASSUME TextsAssumption == /\ Characters \subseteq STRING
                          /\ Texts \subseteq Seq(Characters)

VARIABLES text,
          cursor,            \* position, line and column of l.ch
          tokens,            \* what NextToken has returned
          errors             \* the line and column each message names
vars == <<text, cursor, tokens, errors>>

(* l.ch is 0 behind the end, and at a NUL character in the text.           *)
NUL == "NUL"
Ch(i) == IF i \in DOMAIN text THEN text[i] ELSE NUL
Two(i) == <<Ch(i), Ch(i + 1)>>

MinusOne(c, j) == [position |-> j, line |-> c.line, column |-> c.column + j - c.position - 2]   \* mutant

(* The cursor once readChar has come to j; a newline has column 0.         *)
readTo(c, j) ==
    LET newlines == {m \in (c.position + 1)..j : Ch(m) = "\n"} IN
    [position |-> j,
     line     |-> c.line + Cardinality(newlines),
     column   |-> IF newlines = {} THEN c.column + j - c.position
                  ELSE j - CHOOSE m \in newlines : \A o \in newlines : o <= m]

(* One readChar: behind the end it moves the column only.                  *)
readChar(c) == IF c.position \in DOMAIN text THEN readTo(c, c.position + 1)
               ELSE [c EXCEPT !.column = @ + 1]

(* Loops of readChar: where they stop.                                     *)
FirstOf(places) == CHOOSE j \in places : \A m \in places : j <= m
Behind(i, chars) == FirstOf({j \in i..(Len(text) + 2) : Ch(j) \notin chars})
Ahead(i, chars)  == FirstOf({j \in i..(Len(text) + 2) : Ch(j) \in chars \cup {NUL}})

Digits  == {"0", "1"}
Keywords == {"END", "CONVERSATION", "NEXT", "VALUE", "FOR", "XML", "SCHEMA", "ASYMMETRIC", "SYMMETRIC", "KEY",
             "TRUNCATE", "TABLE", "WITH", "CHECK", "OPTION", "NOCHECK", "CREATE", "BEGIN", "IS", "NOT",
             "DISTINCT", "FROM"}
Letters == Keywords \cup {"a", "e", "n", "x", "_", "COLLECTION", "XMLNAMESPACES", "PARTITIONS", "RULE", "ATOMIC"}
HexDigits == Digits \cup {"a", "e"}
MoneyDigits == Digits \cup {","}

Blanks == {" ", "\n"}
skipWhitespace(i) == Behind(i, Blanks)
readIdentifier(i) == Behind(i, Letters \cup Digits \cup {"#", "$"})
LookupIdent(i, j) == IF j = i + 1 /\ Ch(i) \in Keywords THEN Ch(i) ELSE "IDENT"
-----------------------------------------------------------------------------
(* Lookahead over the words behind a keyword.  What is found: the type,    *)
(* the place behind the token's last character and the cursor afterwards.  *)
Found(type, end, c) == [type |-> type, end |-> end, cursor |-> c]

NoWord == ""
WordAt(i) == IF Ch(i) \in Letters /\ readIdentifier(i) = i + 1 THEN Ch(i) ELSE NoWord
Second(c) == skipWhitespace(c.position)          \* the places of the words
Third(c)  == skipWhitespace(Second(c) + 1)
Fourth(c) == skipWhitespace(Third(c) + 1)

Pairs == {<<"END", "CONVERSATION", "END_CONVERSATION">>, <<"TRUNCATE", "TABLE", "TRUNCATE_TABLE">>,
          <<"CREATE", "RULE", "CREATE_RULE">>, <<"BEGIN", "ATOMIC", "BEGIN_ATOMIC">>,
          <<"WITH", "XMLNAMESPACES", "WITH_XMLNAMESPACES">>, <<"WITH", "NOCHECK", "WITH_NOCHECK">>}
Triples == {<<"NEXT", "VALUE", "FOR", "NEXT_VALUE_FOR">>,
            <<"XML", "SCHEMA", "COLLECTION", "XML_SCHEMA_COLLECTION">>,
            <<"IS", "DISTINCT", "FROM", "IS_DISTINCT_FROM">>}

(* mutants: line and column are not restored; nothing is; all is, to where *)
(* the keyword begins.                                                     *)
KeepsLine(type, c) ==
    Found(type, c.position, [readTo(c, Second(c)) EXCEPT !.position = c.position])
KeepsAll(type, c)   == Found(type, c.position, readTo(c, readIdentifier(Second(c))))
BeforeWord(type, c) == Found(type, c.position, cursor)
Restored(type, c) == Found(type, c.position, c)
Joined(type, end, c) == Found(type, end, readTo(c, end))

TwoWords(type, c) == {t \in Pairs : t[1] = type /\ t[2] = WordAt(Second(c))}
ThreeWords(type, c) ==
    {t \in Triples : t[1] = type /\ t[2] = WordAt(Second(c)) /\ t[3] = WordAt(Third(c))}
Grants == [ASYMMETRIC |-> "ASYMMETRIC_KEY", SYMMETRIC |-> "SYMMETRIC_KEY"]
KeyOfGrant(type, c) ==                 \* [A]SYMMETRIC KEY ::
    /\ type \in DOMAIN Grants /\ WordAt(Second(c)) = "KEY"
    /\ Two(Third(c)) = <<":", ":">>
AnyCheck(type, c) ==                   \* mutant: OPTION is not looked for
    type = "WITH" /\ WordAt(Second(c)) = "CHECK"
WithCheck(type, c) ==                  \* but not WITH CHECK OPTION
    type = "WITH" /\ WordAt(Second(c)) = "CHECK" /\ WordAt(Third(c)) # "OPTION"
NotDistinct(type, c) ==
    /\ type = "IS" /\ WordAt(Second(c)) = "NOT"
    /\ WordAt(Third(c)) = "DISTINCT" /\ WordAt(Fourth(c)) = "FROM"

(* WITH ( PARTITIONS is looked for behind the second word if there is one. *)
Parenthesis(c) ==
    IF Ch(Second(c)) \in Letters THEN skipWhitespace(readIdentifier(Second(c))) ELSE Second(c)
Partitions(c) == skipWhitespace(Parenthesis(c) + 1)
WithPartitions(type, c) ==
    type = "WITH" /\ Ch(Parenthesis(c)) = "(" /\ WordAt(Partitions(c)) = "PARTITIONS"

checkCompoundKeyword(type, c) ==
    CASE TwoWords(type, c) # {}   -> Joined((CHOOSE t \in TwoWords(type, c) : TRUE)[3], Second(c) + 1, c)
      [] ThreeWords(type, c) # {} -> Joined((CHOOSE t \in ThreeWords(type, c) : TRUE)[4], Third(c) + 1, c)
      [] KeyOfGrant(type, c)      -> Found(Grants[type], Second(c) + 1, readTo(c, Third(c)))
      [] WithCheck(type, c)       -> Joined("WITH_CHECK", Second(c) + 1, c)
      [] NotDistinct(type, c)     -> Joined("IS_NOT_DISTINCT_FROM", Fourth(c) + 1, c)
      [] TwoWords(type, c) = {} /\ ~ WithCheck(type, c) /\ WithPartitions(type, c) ->
            Joined("WITH_PARTITIONS", Partitions(c) + 1, c)
      [] OTHER                    -> Restored(type, c)
-----------------------------------------------------------------------------
(* The place behind a literal: of the doubled quotes in a string, of the    *)
(* comments in a comment, and of the parts of a number.                    *)
FirstQuote(i) == Ahead(i + 1, {"'"})   \* mutant: a doubled quote ends the string
readString(i) ==
    LET End[j \in Nat] == CASE Two(j) = <<"'", "'">> -> End[j + 2]
                            [] Ch(j) \in {"'", NUL} /\ Two(j) # <<"'", "'">> -> j
                            [] OTHER -> End[j + 1]
    IN  End[i + 1]
readBlockComment(i) ==
    LET End[p \in Nat \X Nat] ==           \* from a place, at a depth
            CASE p[2] = 0 \/ Ch(p[1]) = NUL              -> p[1]
              [] p[2] > 0 /\ Two(p[1]) = <<"/", "*">>    -> End[<<p[1] + 2, p[2] + 1>>]
              [] p[2] > 0 /\ Two(p[1]) = <<"*", "/">>    -> End[<<p[1] + 2, p[2] - 1>>]
              [] OTHER                                   -> End[<<p[1] + 1, p[2]>>]
    IN  End[<<i + 2, 1>>]
Exponent(i) ==
    IF Ch(i) # "e" THEN i
    ELSE Behind(IF Ch(i + 1) \in {"+", "-"} THEN i + 2 ELSE i + 1, Digits)
Fraction(i) == IF Ch(i) = "." /\ Ch(i + 1) \in Digits THEN Behind(i + 1, Digits) ELSE i
readNumber(i) == Exponent(Fraction(Behind(i, Digits)))
readFloatFromDot(i) == Exponent(Behind(i + 1, Digits))
readMoneyLiteral(i) ==
    LET units == Behind(i + 1, MoneyDigits) IN
    IF Ch(units) = "." THEN Behind(units + 1, Digits) ELSE units
-----------------------------------------------------------------------------
(* Characters that are a token alone, and with the one behind them.        *)
Singles == {
    <<"+", "PLUS">>, <<"-", "MINUS">>, <<"*", "ASTERISK">>, <<"/", "SLASH">>, <<"%", "PERCENT">>, <<"&", "AMPERSAND">>,
    <<"|", "PIPE">>, <<"^", "CARET">>, <<"~", "TILDE">>, <<"=", "EQ">>, <<"!", "ILLEGAL">>, <<"<", "LT">>,
    <<">", "GT">>, <<",", "COMMA">>, <<";", "SEMICOLON">>, <<"(", "LPAREN">>, <<")", "RPAREN">>, <<"]", "RBRACKET">>,
    <<".", "DOT">>, <<":", "COLON">>, <<"?", "PLACEHOLDER">>, <<"{", "ILLEGAL">>}
Doubles == {
    <<"+", "=", "PLUSEQ">>, <<"-", "=", "MINUSEQ">>, <<"*", "=", "MULEQ">>, <<"/", "=", "DIVEQ">>,
    <<"%", "=", "MODEQ">>, <<"&", "=", "ANDEQ">>, <<"|", "=", "OREQ">>, <<"^", "=", "XOREQ">>,
    <<"!", "=", "NEQ">>, <<"!", "<", "NOT_LT">>, <<"!", ">", "NOT_GT">>, <<"<", ">", "NEQ">>,
    <<"<", "=", "LTE">>, <<"<", "<", "LSHIFT">>, <<">", "=", "GTE">>, <<">", ">", "RSHIFT">>,
    <<":", ":", "SCOPE">>}

Finished == tokens # <<>> /\ tokens[Len(tokens)].type = "EOF"      \* Tokenize stops

Start == readTo(cursor, skipWhitespace(cursor.position))
Here  == Start.position
Token(type, end, place) ==
    [type |-> type, from |-> Here, to |-> end - 1, line |-> place.line, column |-> place.column]

(* Return a token that ends before `end`, the cursor at c.                 *)
Return(type, end, place, c) ==
    /\ ~ Finished
    /\ tokens' = Append(tokens, Token(type, end, place))
    /\ cursor' = c
    /\ UNCHANGED text
Emit(type, end) == Return(type, end, Start, readTo(Start, end)) /\ UNCHANGED errors

(* A literal from i to a closing character at `end`.  One that is not      *)
(* closed is an error, at the column to the left of its first character.   *)
Literal(type, i, end) ==
    LET inside == readTo(Start, i + 1) IN
    IF Ch(end) # NUL THEN Emit(type, end + 1)
    ELSE /\ Return(type, end, Start, readTo(Start, end))
         /\ errors' = Append(errors, [line |-> inside.line, column |-> inside.column - 1])

OperatorToken ==               \* newToken has the place of the last character
    \/ \E d \in Doubles :
          /\ Two(Here) = <<d[1], d[2]>>
          /\ Return(d[3], Here + 2, readTo(Start, Here + 1), readTo(Start, Here + 2))
          /\ UNCHANGED errors
    \/ \E s \in Singles :
          /\ Ch(Here) = s[1]
          /\ \A d \in Doubles : Two(Here) # <<d[1], d[2]>>
          /\ Two(Here) \notin {<<"-", "-">>, <<"/", "*">>} \cup {<<".", d>> : d \in Digits}
          /\ Emit(s[2], Here + 1)
CommentToken ==
    \/ Two(Here) = <<"-", "-">> /\ Emit("COMMENT", Ahead(Here, {"\n"}))
    \/ Two(Here) = <<"/", "*">> /\ Emit("COMMENT", readBlockComment(Here))
QuotedToken ==                 \* doubled brackets and quotes end a name
    \/ Ch(Here) = "["  /\ Literal("IDENT", Here, Ahead(Here + 1, {"]"}))
    \/ Ch(Here) = "\"" /\ Literal("IDENT", Here, Ahead(Here + 1, {"\""}))
    \/ Ch(Here) = "'"  /\ Literal("STRING", Here, readString(Here))
    \/ Two(Here) = <<"n", "'">>  /\ Literal("NSTRING", Here + 1, readString(Here + 1))
    \/ Two(Here) = <<"n", "\"">> /\ Literal("NSTRING", Here + 1, Ahead(Here + 2, {"\""}))
NumberToken ==
    \/ Ch(Here) = "." /\ Ch(Here + 1) \in Digits /\ Emit("FLOAT", readFloatFromDot(Here))
    \/ Ch(Here) = "$" /\ Ch(Here + 1) \in Digits /\ Emit("MONEY_LIT", readMoneyLiteral(Here))
    \/ Two(Here) = <<"0", "x">> /\ Emit("BINARY", Behind(Here + 2, HexDigits))
    \/ /\ Ch(Here) \in Digits /\ Two(Here) # <<"0", "x">>
       /\ Emit(IF readNumber(Here) = Behind(Here, Digits) THEN "INT" ELSE "FLOAT", readNumber(Here))
NameToken ==
    \/ Two(Here) = <<"@", "@">> /\ Emit("TEMPVAR", readIdentifier(Here + 2))
    \/ Ch(Here) = "@" /\ Ch(Here + 1) # "@" /\ Emit("VARIABLE", readIdentifier(Here + 1))
    \/ Ch(Here) = "$" /\ Ch(Here + 1) \notin Digits /\ Emit("SYSVAR", readIdentifier(Here + 1))
    \/ Ch(Here) = "#" /\ Emit("IDENT", readIdentifier(Here))
WordToken ==
    /\ Ch(Here) \in Letters
    /\ Two(Here) \notin {<<"n", "'">>, <<"n", "\"">>}
    /\ LET end == readIdentifier(Here)
           found == checkCompoundKeyword(LookupIdent(Here, end), readTo(Start, end))
       IN  Return(found.type, found.end, Start, found.cursor)
    /\ UNCHANGED errors
EOFToken == Ch(Here) = NUL /\ Return("EOF", Here, Start, readChar(Start)) /\ UNCHANGED errors

NextToken == \/ OperatorToken \/ CommentToken \/ QuotedToken \/ NumberToken
             \/ NameToken \/ WordToken \/ EOFToken

Init == /\ text \in Texts
        /\ cursor = readTo([position |-> 0, line |-> 1, column |-> 0], 1)
        /\ tokens = <<>>
        /\ errors = <<>>
Next == NextToken \/ (Finished /\ UNCHANGED vars)
Spec == Init /\ [][Next]_vars
-----------------------------------------------------------------------------
Types == {"COMMENT", "IDENT", "STRING", "NSTRING", "FLOAT", "MONEY_LIT", "BINARY", "INT", "TEMPVAR", "VARIABLE",
          "SYSVAR", "EOF", "END_CONVERSATION", "TRUNCATE_TABLE", "CREATE_RULE", "BEGIN_ATOMIC", "WITH_XMLNAMESPACES",
          "WITH_NOCHECK", "NEXT_VALUE_FOR", "XML_SCHEMA_COLLECTION", "IS_DISTINCT_FROM", "IS_NOT_DISTINCT_FROM",
          "ASYMMETRIC_KEY", "SYMMETRIC_KEY", "WITH_CHECK", "WITH_PARTITIONS"}
             \cup Keywords \cup {s[2] : s \in Singles} \cup {d[3] : d \in Doubles}
Places == [line : Nat \ {0}, column : Int]
LexerTypeOK ==
    /\ text \in Seq(Characters)
    /\ cursor \in [position : Nat \ {0}, line : Nat \ {0}, column : Nat]
    /\ tokens \in Seq([type : Types, from : Nat, to : Nat, line : Nat, column : Nat])
    /\ errors \in Seq(Places)

(* The characters of a token: those from its first to its last, but for a  *)
(* name that the lexer reads between WITH and the parenthesis of a         *)
(* WITH_PARTITIONS and drops: it is in no literal.                         *)
Dropped(token) == {i \in (token.from + 1)..token.to :
                      /\ token.type = "WITH_PARTITIONS" /\ Ch(i) \notin Blanks
                      /\ \A j \in (token.from + 1)..i : Ch(j) # "("}
Held(token) == (token.from..token.to) \ Dropped(token)

(* What the lexer has gone through is white space, or is held by exactly   *)
(* one token: looking ahead for a compound keyword neither loses           *)
(* characters nor reads any twice.  Excepted is the name a WITH_PARTITIONS *)
(* drops, which is held by none.                                           *)
NothingLost ==
    \A i \in DOMAIN text :
        i < cursor.position /\ Ch(i) \notin Blanks \cup {NUL} =>
            LET holders == {t \in DOMAIN tokens : i \in Held(tokens[t])}
            IN  IF \E t \in DOMAIN tokens : i \in Dropped(tokens[t]) THEN holders = {}
                ELSE Cardinality(holders) = 1

(* The line and the column of a token are where it begins in the text, and *)
(* those of the second character for an operator of two: reading ahead     *)
(* over a line break does not disturb the places of what follows.          *)
LastNewline(i) == LET before == {m \in 1..(i - 1) : Ch(m) = "\n"} IN
                  IF before = {} THEN 0 ELSE CHOOSE m \in before : \A o \in before : o <= m
LineOf(i) == 1 + Cardinality({m \in 1..(i - 1) : Ch(m) = "\n"})
DoubleTypes == {d[3] : d \in Doubles}
PlacesAreTrue ==
    \A t \in DOMAIN tokens :
        LET token == tokens[t]
            place == IF token.type \in DoubleTypes THEN token.to ELSE token.from
        IN  token.line = LineOf(place) /\ token.column = place - LastNewline(place)

(* A string ends with the first quote that is not doubled: it holds an     *)
(* even number of quotes and none follows, or else an error is recorded:    *)
(* one for the literal that is not closed, naming the place of its opening *)
(* quote or bracket (but when a line break follows, the code names the     *)
(* next line and column -1).                                               *)
IsLiteral(token) == token.type \in {"STRING", "NSTRING"} \/ Ch(token.from) \in {"[", "\""}
Opening(token)   == IF token.type = "NSTRING" THEN token.from + 1 ELSE token.from
Marks(token, c) == {i \in token.from..token.to : Ch(i) = c}
Closed(token) == CASE Ch(Opening(token)) = "["  -> Ch(token.to) = "]"
                   [] Ch(Opening(token)) = "\"" -> Cardinality(Marks(token, "\"")) = 2
                   [] OTHER -> Cardinality(Marks(token, "'")) % 2 = 0 /\ Ch(token.to + 1) # "'"
UnclosedIsReported ==
    LET Open == {t \in DOMAIN tokens : IsLiteral(tokens[t]) /\ ~ Closed(tokens[t])} IN
    /\ Cardinality(Open) = Len(errors)
    /\ \A t \in Open : LET opening == Opening(tokens[t]) IN
          /\ Ch(tokens[t].to + 1) = NUL
          /\ Ch(opening + 1) # "\n" =>
                 errors[1] = [line |-> LineOf(opening), column |-> opening - LastNewline(opening)]

(* A compound keyword is exactly its words, with nothing between them but   *)
(* white space (and the name that WITH_PARTITIONS drops), and each time    *)
(* its words follow each other it is one.  Three are one only before       *)
(* certain words: [A]SYMMETRIC KEY where :: follows, WITH CHECK where      *)
(* OPTION does not.                                                        *)
Compounds == {
    <<"END_CONVERSATION", <<"END", "CONVERSATION">>>>, <<"TRUNCATE_TABLE", <<"TRUNCATE", "TABLE">>>>,
    <<"CREATE_RULE", <<"CREATE", "RULE">>>>, <<"BEGIN_ATOMIC", <<"BEGIN", "ATOMIC">>>>,
    <<"WITH_XMLNAMESPACES", <<"WITH", "XMLNAMESPACES">>>>, <<"WITH_NOCHECK", <<"WITH", "NOCHECK">>>>,
    <<"NEXT_VALUE_FOR", <<"NEXT", "VALUE", "FOR">>>>, <<"IS_DISTINCT_FROM", <<"IS", "DISTINCT", "FROM">>>>,
    <<"XML_SCHEMA_COLLECTION", <<"XML", "SCHEMA", "COLLECTION">>>>,
    <<"IS_NOT_DISTINCT_FROM", <<"IS", "NOT", "DISTINCT", "FROM">>>>, <<"WITH_CHECK", <<"WITH", "CHECK">>>>,
    <<"ASYMMETRIC_KEY", <<"ASYMMETRIC", "KEY">>>>, <<"SYMMETRIC_KEY", <<"SYMMETRIC", "KEY">>>>,
    <<"WITH_PARTITIONS", <<"WITH", "(", "PARTITIONS">>>>}
Solid(places) == {i \in places : Ch(i) \notin Blanks}
SpelledAt(places, words) ==    \* these places are the words and white space
    \E at \in [DOMAIN words -> Solid(places)] :
        /\ Solid(places) = {at[k] : k \in DOMAIN words}
        /\ \A k \in DOMAIN words : Ch(at[k]) = words[k] /\ (k > 1 => at[k - 1] < at[k])
Spells(token, words) == SpelledAt(Held(token), words)
Follow(t, words) ==            \* the tokens from t on are these words
    \A k \in DOMAIN words : t + k - 1 \in DOMAIN tokens /\ Spells(tokens[t + k - 1], <<words[k]>>)
Keys == {"ASYMMETRIC_KEY", "SYMMETRIC_KEY"}
CompoundsAreExact ==
    /\ \A t \in DOMAIN tokens, c \in Compounds :
          /\ tokens[t].type = c[1] => Spells(tokens[t], c[2])
          /\ c[1] \notin Keys \cup {"WITH_CHECK"} => ~ Follow(t, c[2])
          /\ c[1] \in Keys /\ Follow(t, c[2]) /\ t + 2 \in DOMAIN tokens => tokens[t + 2].type # "SCOPE"
    /\ \A t \in DOMAIN tokens : tokens[t].type \in Keys /\ t + 1 \in DOMAIN tokens =>
                                    tokens[t + 1].type = "SCOPE"
    /\ \A t \in DOMAIN tokens :
          tokens[t].type = "WITH_CHECK" /\ t + 1 \in DOMAIN tokens => ~ Spells(tokens[t + 1], <<"OPTION">>)
    /\ \A t \in DOMAIN tokens : Follow(t, <<"WITH", "CHECK">>) /\ t + 2 \in DOMAIN tokens =>
                                    Spells(tokens[t + 2], <<"OPTION">>)

(* lexer.go:794 looks for the "WITH ( PARTITIONS pattern": the token is     *)
(* WITH, the parenthesis and PARTITIONS, with nothing between them.        *)
PartitionsBehindWith ==
    \A t \in DOMAIN tokens :
        tokens[t].type = "WITH_PARTITIONS" =>
            SpelledAt(tokens[t].from..tokens[t].to, <<"WITH", "(", "PARTITIONS">>)

(* No call of NextToken goes back or leaves the lexer in front of a token  *)
(* it has returned, and each one that does not return EOF has moved on:    *)
(* Tokenize, which stops at EOF only, comes to the end of every text.      *)
Advances == [][/\ cursor'.position > tokens'[Len(tokens')].to
               /\ cursor'.position >= cursor.position
               /\ ~ Finished' => cursor'.position > cursor.position]_vars
=============================================================================
