----------------------------- MODULE TokenStream -----------------------------
(***************************************************************************)
(* The parser's window on the lexer: curToken, peekToken and peekPeekToken *)
(* of parser.Parser, filled by parser.New and moved by nextToken and       *)
(* expectPeek.  A token is the place it has in `raw`, the sequence of      *)
(* token types the lexer produces for one source text.                     *)
(***************************************************************************)
EXTENDS Integers, Sequences

CONSTANTS Raws,              \* the token sequences the lexer may produce
          Expected,          \* the types the parser asks expectPeek for
          MaxErrors          \* bound: errors recorded before the parser stops
ASSUME RawsAssumption == Raws \subseteq Seq(STRING)
ASSUME BoundAssumption == MaxErrors \in Nat

VARIABLES raw,               \* the token types of the source
          next,              \* the lexer: the next token NextToken returns
          curToken, peekToken, peekPeekToken,
          filled,            \* calls of nextToken made by New so far
          errors             \* the token that each error message names
vars == <<raw, next, curToken, peekToken, peekPeekToken, filled, errors>>

EOFAt == Len(raw) + 1        \* at the end NextToken keeps returning EOF

TypeAt(i) == CASE i \in DOMAIN raw -> raw[i]
               [] i = 0            -> "ILLEGAL"     \* the zero token.Token
               [] OTHER            -> "EOF"

SkipOneComment(i) ==         \* mutant: `if` in place of the loop
    IF TypeAt(i) = "COMMENT" /\ i < EOFAt THEN i + 1 ELSE i

(* The loop of nextToken: the first token from i on that is no comment.    *)
SkipComments(i) == CHOOSE j \in i..EOFAt : /\ TypeAt(j) # "COMMENT"
                                           /\ \A k \in i..(j - 1) : TypeAt(k) = "COMMENT"

PastEOF(i) == i + 1          \* mutant: the lexer runs off the end
After(i) == IF i < EOFAt THEN i + 1 ELSE EOFAt

nextToken == /\ curToken' = peekToken
             /\ peekToken' = peekPeekToken
             /\ peekPeekToken' = SkipComments(next)
             /\ next' = After(SkipComments(next))

Init == /\ raw \in Raws
        /\ next = 1
        /\ curToken = 0 /\ peekToken = 0 /\ peekPeekToken = 0
        /\ filled = 0
        /\ errors = <<>>

(* mutant: New reads two tokens, so the window is not full.                *)
NewReadsTwo == /\ filled < 3
               /\ IF filled < 2 THEN nextToken
                  ELSE UNCHANGED <<next, curToken, peekToken, peekPeekToken>>
               /\ filled' = filled + 1
               /\ UNCHANGED <<raw, errors>>

(* New reads three tokens before it returns the parser.                    *)
New == /\ filled < 3
       /\ nextToken
       /\ filled' = filled + 1
       /\ UNCHANGED <<raw, errors>>

(* A parse function moves on without looking.                              *)
Advance == filled = 3 /\ nextToken /\ UNCHANGED <<raw, filled, errors>>

peekPeekError(t) ==          \* mutant: the error names the wrong lookahead
    /\ filled = 3
    /\ \/ TypeAt(peekToken) = t /\ nextToken /\ UNCHANGED errors
       \/ /\ TypeAt(peekToken) # t
          /\ Len(errors) < MaxErrors
          /\ errors' = Append(errors, peekPeekToken)
          /\ UNCHANGED <<next, curToken, peekToken, peekPeekToken>>
    /\ UNCHANGED <<raw, filled>>

(* A parse function requires the token after the current one.              *)
expectPeek(t) ==
    /\ filled = 3
    /\ \/ /\ TypeAt(peekToken) = t
          /\ nextToken
          /\ UNCHANGED errors
       \/ /\ TypeAt(peekToken) # t
          /\ Len(errors) < MaxErrors
          /\ errors' = Append(errors, peekToken)          \* peekError
          /\ UNCHANGED <<next, curToken, peekToken, peekPeekToken>>
    /\ UNCHANGED <<raw, filled>>

RecordError(token) == /\ filled = 3
                      /\ Len(errors) < MaxErrors
                      /\ errors' = Append(errors, token)
                      /\ UNCHANGED <<raw, next, curToken, peekToken, peekPeekToken, filled>>

(* No parse function for the current token: the message names that token,  *)
(* and so do "could not parse ... as integer" and "unexpected token after  *)
(* NOT".                                                                   *)
noPrefixParseFnError == RecordError(curToken)

(* The comma missed in a select list: the message names the next token.    *)
MissingComma == RecordError(peekToken)

Next == \/ New
        \/ Advance
        \/ \E t \in Expected : expectPeek(t)
        \/ noPrefixParseFnError
        \/ MissingComma

Spec == Init /\ [][Next]_vars
-----------------------------------------------------------------------------
TypeOK == /\ raw \in Seq(STRING)
          /\ next \in 1..EOFAt
          /\ {curToken, peekToken, peekPeekToken} \subseteq 0..EOFAt
          /\ filled \in 0..3
          /\ errors \in Seq(0..EOFAt)

(* j is the code token that comes right after i, or both are EOF.          *)
Consecutive(i, j) == \/ i = EOFAt /\ j = EOFAt
                     \/ /\ i < j
                        /\ TypeAt(j) # "COMMENT"
                        /\ \A k \in (i + 1)..(j - 1) : TypeAt(k) = "COMMENT"

(* No token is lost, duplicated or reordered between the lexer and the     *)
(* parse functions, and no comment gets in: what the parser sees are three *)
(* consecutive code tokens and the lexer stands right behind them.         *)
WindowIsConsecutive ==
    filled = 3 => /\ curToken # 0                  \* New has filled the window
                  /\ Consecutive(curToken, peekToken)
                  /\ Consecutive(peekToken, peekPeekToken)
                  /\ next = After(peekPeekToken)

(* An error is about the current token or the one behind it at the moment *)
(* it is recorded, never about one the parser has already passed, and the  *)
(* parser's own errors come in the order of the source, but for one case:  *)
(* an error about the current token may follow one about the very next     *)
(* token.  (Errors() of the code puts the lexer's errors before all these, *)
(* and the messages that name no token are not counted here.)              *)
ErrorsInOrder ==
    [][errors' # errors =>
         LET e == errors'[Len(errors')]
         IN  /\ e \in {curToken, peekToken}
             /\ \A i \in DOMAIN errors : errors[i] <= e \/ Consecutive(e, errors[i])]_vars

(* The promise of TokenCursor, kept by the current token.                  *)
Cursor == INSTANCE TokenCursor WITH at <- curToken
ImplementsCursor == Cursor!Spec
=============================================================================
