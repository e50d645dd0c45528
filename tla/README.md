# A TLA+ model of tsqlparser

`tsqlparser` turns T-SQL text into an AST. It is a sequential program: one
lexer, one hand-written recursive-descent parser with a Pratt parser for
expressions, one AST package. Nothing runs concurrently, nothing is persisted,
nothing times out. What makes it hard is the *protocol between its functions*:
more than two hundred `parse...` functions share one cursor, and each of them
must leave it on the last token of what it has parsed, must report an error
whenever it gives up, and must hand a precedence on that its callees respect.
No function can check this of another one, a single slip shows only in inputs
that combine several constructs, and most inputs that combine several
constructs are in nobody's tests. These modules model that protocol and check
it on all short inputs around every construct, most of them ill-formed, and on
well-formed statements with every choice of their clauses in every place a
statement can stand; the proofs extend part of it to inputs of every length.

## The system

| component | state | operations | how it interacts |
|---|---|---|---|
| Lexer (`lexer/lexer.go`) | `position`, `readPosition`, `ch`, `line`, `column`, `errors` | `NextToken`, `readChar`, the `read...` functions, `checkCompoundKeyword` (reads ahead and restores) | called by `Parser.nextToken` only |
| Token types (`token/token.go`) | none | `LookupIdent` | called by the lexer |
| Token window (`parser.go` 69-302) | `curToken`, `peekToken`, `peekPeekToken`, `errors` | `New`, `nextToken`, `curTokenIs`, `peekTokenIs`, `expectPeek`, `Errors` | pulls tokens, shows three of them to every parse function |
| Expression parser (472-1465, 3210-3236, 9024-9235) | the call stack; `prefixParseFns`, `infixParseFns`, `precedences` (constant after `New`) | `parseExpression` and what it dispatches to | calls `parseSelectStatement` for subqueries |
| Statement dispatch and control flow (319-466, 1472-1527, 4286-4628, 10545-10653, 10811-10986) | the call stack | `ParseProgram`, `parseStatement`, IF, WHILE, BEGIN, TRY, simple statements | calls the expression parser and itself |
| SELECT (1529-3208) | the call stack | clauses, table references, joins, hints, set operations | calls expressions and itself |
| DML, WITH (3242-3861, 10655-10751) | the call stack | INSERT, UPDATE, DELETE, MERGE, CTEs | calls SELECT and expressions |
| DECLARE, SET, EXEC (3867-4284, 4630-4928) | the call stack | one per statement | calls expressions |
| Procedures, functions, triggers, views (6174-6371, 6605-6671, 6874-7083, 10398-10543) | the call stack | CREATE, ALTER, their bodies | hold statement lists |
| Tables, indexes and other DDL (4930-6172, 6373-6604, 6673-7439) | the call stack | columns, constraints, options; the dispatch of CREATE, ALTER, DROP | call expressions |
| Security, administration, storage, service broker (7441-10396) | none but the cursor | word after word | few calls of each other |
| AST (`ast/ast.go`) | the tree | `String()` of every node | calls itself on the children, and panics on a nil one |
| `Walk`, `Inspector` (`tsqlparser.go` 189-378) | the list of nodes found | `Visit`, `collect` | read the tree |
| `Parse` (`tsqlparser.go` 23-29) | none | | lexer, parser, `ParseProgram`, `Errors` |
| `cmd/`, `pkg/version` | none | demonstrations, a version text | call `Parse` |

What is hard, and which properties each component owes its callers:

* **Token window.** Comments are dropped from the third position only, and
  `New` fills the window with three reads. Owed: the parser sees every code
  token once, in order, and no comment; an error is about the current token or
  the next one, and errors come in source order.
* **Expressions.** A function that fails returns nil and its callers go on.
  Owed: no nil without an error; operators group by precedence and from left
  to right; operands are in source order, disjoint and complete; the recursion
  is bounded by the tokens read and comes to an end. A SELECT inside an
  expression is the exception that its callers do not expect: it may break
  without an error (GROUPING SETS without a parenthesis, OPTIMIZE FOR without a
  value).
* **Statements.** Blocks end where the statements in them leave the cursor.
  Owed: a block closes with its own END, an ELSE belongs to the nearest IF, no
  statement loses a token, the loop of `ParseProgram` ends, a tree without
  errors can be printed.
* **SELECT, DML, definitions**: the same protocol. Owed: each clause keeps its
  own words, whichever clauses stand around it; the statement is the same in
  every context and leaves the next statement, the END of its block and the
  ELSE of an IF alone. The delicate parts are aliases without AS, OVER, which
  leaves the cursor one token too far, and lists that end on the first token
  they do not know.
* **Security, administration, storage, service broker**: most of these
  functions leave the cursor one token *behind* their last one. Owed at least:
  no more than that one token.
* **Lexer**: every character is in one token, the restored look-ahead loses
  nothing (WITH_PARTITIONS does: see the disagreements), EOF repeats, unclosed literals are reported.
* **Walk, Inspector**: what they reach, and nil children.

`PROJECT.json` lists the single hazards, each at its line.

## The modules

```
TokenCursor            what the rest of the parser is promised: a cursor on code tokens
  ^ refined by
TokenStream            the three-token window             MCTokenStream, TokenStream_proof
Lexer                  NextToken on characters            MCLexer, Lexer_proof

ParserMachine          cursor, call stack, AST nodes,
  |                    errors; Call, Return, Fail, ...
  ^ extended by
Conversions, Windows   CAST, TRIM, full text; OVER, frames
  ^
Expressions            the Pratt parser                   MCExpressions, Expressions_proof >
  |                      (refines ParseContract)            Order_proof > Binding_proof, Words_proof
  ^
Tables > Select > Dml  FROM; SELECT; INSERT, UPDATE, ...  MCQueries
  ^
WordRows > TableDefinitions                               MCDefinitions
  ^
Declarations, Routines, Security, Administration, Storage, Conversations
  ^                                                       MCServer
Definitions            other objects, dispatch of CREATE and ALTER
SimpleStatements       statements that hold no other
  ^
Statements, Points     dispatch, IF, WHILE, BEGIN, TRY    MCStatements, StatementForms;
                                                          Program_proof > Statements_proof
```

**TokenCursor, TokenStream.** A token of the input is a code token, a comment or
EOF (`TypeAt`); positions behind the end are EOF, which the lexer repeats.
`filled` counts the reads of `New`. `nextToken` is the function of that name:
shift, read, skip comments. `expectPeek` either moves or appends an error about
`peekToken`; `noPrefixParseFnError` and `MissingComma` record one about the
current and about the next token and do not move.

**Lexer.** The text is a sequence of characters of the classes the code tells
apart; a word the lexer knows is one element. `cursor` is the place, line and
column of `l.ch`; `tokens` and `errors` are what `NextToken` has returned and
reported. Each operator of the reading functions says where its loop stops.
At the end of the text `readChar` moves nothing but the column.
`checkCompoundKeyword` is `Found` and its users: what is returned, and the
cursor afterwards, restored (`Restored`) or not. The table of keywords is the
sample of words in `Keywords`; `TwoWords`, `Triples` and `WithCheck` have one
entry for each path of the code.

**ParserMachine.** The parse functions are written as the code has them, one
definition per function and one disjunct per stretch of code between two calls.
`stack` is the Go call stack: a frame has the point at which its function goes
on (`pc`, named after the function and what it waits for), its `precedence`
argument, the place of its token and the operands it has so far. `ret` is the
value of the last `return`, `heap` the AST nodes built, `errors` the tokens the
messages are about. `Call(k, pc, kids, fn)` is "k times `nextToken`, then call
`fn`"; `Fail(e, k)` is "`expectPeek` failed on the token e ahead, return nil";
`Panic` unwinds every call; `ReturnPassing` is the end of `parseOverClause`, which
returns with the cursor one token behind its node. A node has its kind, place and children and what
the AST does not keep: the span of tokens its call went through (`lo`, `hi`)
and whether a pair of parentheses around it was dropped. The cursor `pos` is an
index of the code tokens: TokenStream shows that this is what the window
amounts to.

**Conversions, Windows, Expressions.** `parseExpression` has the loop of lines
480 to 488; every prefix and infix function follows under its own name. Leaves
differ in kind only (`LeafKind`); `COUNT` and `DATE` stand for the function
names and the keywords that serve as names. Where expressions are checked and
proved alone, a nested SELECT is `NestedSelect`: it goes 1 to `MaxSelect` tokens
on and returns a statement, whole or broken, with or without an error, or nil
with an error, or panics (`SelectPanics`). It is one frame of the stack there,
where the code has several calls. In all other runs it is the one of `Select`.

**Tables, Select, Dml.** One definition per function; the clauses of
`parseSelectStatement` are its resume points in the order of the code. The lists
of words that are no alias (`AliasOf` and the sets it uses) are those of the
code. Lists that only read names are one step (`ListEnd`, `FirstIn`).

**TableDefinitions, Declarations, Routines, Definitions.** The same for
DECLARE, SET, EXEC, for CREATE, ALTER and DROP, and for the bodies of
procedures, functions and triggers (`BodyStatements`). A word that is no keyword
of the lexer and is compared by its characters (SAMPLE, RESTART, OFFSETS) is an
IDENT, and both outcomes of the comparison are taken.

**WordRows, Security, Administration, Storage, Conversations.** These functions
take each word if it is there and pass over it without an error if it is not.
`Row(i, <<Anything, Opt("KEY"), Anything>>)` is where such a row leaves the
cursor; what is between two calls of `parseExpression`, or two nondeterministic
words, is one step.

**SimpleStatements, Statements.** The statements by name, and `parseStatement`
with the dispatch of lines 340 to 466. `Section` is the loop that the TRY part
and the CATCH part of `parseTryCatchStatement` have in common. The children of a
node are those its `String()` calls without looking, so `Whole` tells whether
the program can be printed. `Points` names the resume points of all functions and
the kinds of all nodes: `StatementTypeOK` says that a frame is at one of the
former, a node of one of the latter, and that what goes on with a result has one.

**ParseContract** is the promise in the terms of the caller of `Parse`: the
cursor moves forwards only, an error stays reported, and the end is a complete
tree or a reported error, reached for certain. Only where a SELECT in the tree
broke without an error (`spoilt`) may the tree be broken, or the parse panic,
unreported; it never returns nil then either. Expressions implements it
(`ImplementsContract`), with the `Outcome` of a state as the mapping.

## The runs

Inputs are of two kinds. A *family* is a fixed beginning, then every sequence
over an alphabet up to a length; the beginnings lead into a construct, so that
the length is spent where functions meet. A *form* (StatementForms) is a
statement in parts, each optional or not, each with an operand of the tree or
not: all choices of its parts alone, and up to one or all of them in each
context - in front of another statement, of GO, in a block, in the THEN part of
an IF with an ELSE, first in a procedure, in a TRY.

| run | cfg | what it checks | bounds |
|---|---|---|---|
| `token_stream` | MCTokenStream | `TypeOK`, `WindowIsConsecutive`, `ErrorsInOrder`, refinement of TokenCursor | all mixes of up to 5 tokens and comments, 2 errors. The window is 3 tokens: 5 positions hold every pattern of comments before, in and behind it |
| `lexer` | MCLexer | `NothingLost`, `PlacesAreTrue`, `UnclosedIsReported`, `CompoundsAreExact`, `Advances` | 20 families of up to 8 characters. No test of the lexer looks at more than four words or three characters; an opening, a wrong end and what follows fit in five |
| `expressions` | MCExpressions | `TypeOK`, `NilIsReported`, `OperatorsBind`, `SourceOrder`, `NoTokenLost`, `DepthBounded`, `ChainsGroupByLevel` | families with lengths 2 to 4 behind their beginnings, all chains of up to 4 of 9 operators; `MaxSelect = 2` |
| `expression_termination` | MCTermination | `Terminates`, `ImplementsContract` | every token type of an expression but the words of conversions, sequences and searches, up to 3 tokens |
| `statements` | MCStatements | `StatementTypeOK`, `SourceOrder`, `BlocksClose`, `ElseBindsNearest`, `NoStatementTokenLost`, `BrokenOnlyWhereKnown` | 17 families, up to 11 tokens |
| `queries` | MCQueries | `StatementTypeOK`, `SourceOrder`, `ClausesKept`, `StatementsKeptApart`, `BrokenOnlyWhereKnown`, `ProgramTerminates` | the forms of SELECT, its table sources, INSERT, UPDATE, DELETE, MERGE and WITH; 17 families around them |
| `definitions` | MCDefinitions | the same without `ProgramTerminates` | the forms of everything else (MCDefinitions, MCServer); about 90 families around them |
| `finding_not`, `finding_panic`, `finding_try_end`, `finding_modify`, `finding_partitions` | MCFinding... | one statement of a comment, a test or the README each, which the code does not keep | one family each |

Why the bounds are enough. Precedence has nine levels of binary operators: a
wrong comparison or level shows with two operators next to each other, a wrong
loop with three, and chains of four leave one to spare. `OperatorsBind` compares
each node with its children; `ChainsGroupByLevel` compares the whole tree with a
definition that does not know how the parser works (the last of the loosest
operators comes last). A clause can disturb only what is in the three-token
window behind it, so pairs of clauses, with all of them and with none, meet
every neighbour; the contexts are all the loops that call `parseStatement`.
Behind each beginning of a family there are two to four free tokens: one more
than the code looks at before it decides.

What the code does and the properties leave out, on purpose:

* `NoTokenLost`: an AT without TIME is dropped, and so is the token behind
  `OVER (...)`, on which the cursor is left (`BehindOver`). Of eight kinds of nodes
  it says nothing (`Loose`): `f(x).y` drops `f(x)`, a frame bound takes any word.
* `NilIsReported`, `ImplementsContract`: a SELECT in an expression may be broken
  without an error. `DepthBounded`: the SELECT's own calls do not count.
* `OperatorsBind`: what ESCAPE brings into a LIKE may be an operator of any level
  (`Floor`).
* `ErrorsInOrder`: an error about the current token may follow one about the very
  next. Messages that name no token are not counted, and `Errors()` puts those of
  the lexer before all others.
* `NothingLost`, `CompoundsAreExact`: the name between WITH and `(PARTITIONS` is in
  no token (`Dropped`); [A]SYMMETRIC KEY is one token in front of `::` only, WITH
  CHECK not in front of OPTION. `Advances`: the call that returns EOF need not move.
* `BlocksClose`, `NoStatementTokenLost`: GRANT, REVOKE and DENY skip to a semicolon;
  ROLLBACK, USE, GOTO, SAVE, DEALLOCATE and WAITFOR take any token (`Taken`).
* `BrokenOnlyWhereKnown`: the nodes that may lack a child without an error are
  named in `MayLack`; it says that no other node does, and that a parse that panics
  without an error has met one of them.
* `StatementsKeptApart`: the statements that leave the cursor one token behind are
  in `LeavesBehind` (each of them does, and none takes a second token). EXEC, ALTER
  DATABASE, sequences and the statements of MCServer are only put in front of a
  semicolon or GO (`Separated`), because without one they take words of what
  follows; BEGIN DIALOG is not put first into a procedure, where it is read as a
  block.

Where one of these is a hazard for the caller it is listed as one.

**The disagreements found.** `NOT a = b` is parsed as `(NOT a) = b`: the level
`NOT_PREC` exists and is not used. `::` behind an operand that could not be
parsed panics. A TRY ... CATCH inside a block consumes the END of the block and
leaves the cursor behind it, so that the block goes on. `UPDATE t SET c.modify(...)`
is parsed without an error into a tree whose `String()` dereferences nil.
`WITH a (Partitions` becomes the keyword WITH_PARTITIONS, and the name `a` is in
no token. Two more are exceptions of the properties and have no run of their own:
`a LIKE b ESCAPE c AND d` has the AND under the LIKE, since the operand of ESCAPE is
parsed at LOWEST (the comment at parser.go:1098 wants to keep the AND out of the
pattern); and `BEGIN TRY SELECT 1 END TRY` without a CATCH is parsed without an
error, its statements dropped, although parser_test.go:6773 asks for one.

**Fairness.** Weak fairness of the whole next-state relation, in the two runs
with liveness, `expression_termination` and `queries`. The parser is one thread
of straight code that waits for nothing: when a step is possible the program
takes one. A finished parse stutters by an explicit disjunct, so deadlock
checking stays on and any stuck call is reported. `definitions` and `statements`
have no liveness property: the fairness condition makes TLC evaluate ENABLED of
several hundred disjuncts in each state, which takes too long there. The loop of
`ParseProgram` is the same one. That a loop of a single definition comes to an
end is not stated as a property there: these two runs show only that it cannot
collect operands or nodes without end, since their state spaces are finite. `Advances`
of the lexer is an action property and needs no fairness.

## The proofs

`TokenStream_proof` proves the four properties of its run for every input. The
inductive invariant `IInv` adds to the types that the filled part of the window
is consecutive (`Filling`); from it, every move of `nextToken` is a move of the abstract
cursor or, while `New` is filling, a stutter. For `ErrorsInOrder`, `Reported` adds
that every error recorded is about a token up to `curToken` or about `peekToken`
itself: what is recorded later is about `curToken` at least.

Everything below holds for every set of inputs, of any length, every text, and
every value of the other constants. Each proof has the same three parts: the
initial state satisfies an invariant, every step keeps it, and it implies the
property; where the property itself is not inductive, what the invariant adds is
said here.

**Types and nil of expressions** (`Expressions_proof`).
`ExpressionTypes` is `Spec => []TypeOK`; `NothingMissing` is
`Spec => []NilIsReported`: as long as no error is recorded, no function has
returned nil and no node but a SELECT has a nil child; and if no SELECT is broken
either, every node can be printed and nothing has panicked. `NilIsReported`
alone says nothing of the operands that the calls in progress hold and will build
nodes from, and nothing of the left operand that an infix function is called
with. `MachineInv` adds, under the same condition, that the operands in every
frame of the stack and the value just returned are nodes on the heap (`FramesOK`,
`RetOK`), and, without a condition, that `parseAtTimeZoneExpression` has a left
operand (`NeedsLeft`), since it may return it as it is. That a function which
goes on with a result finds one is part of the types: it is what makes `Got` a
sequence of pointers. The helpers of the machine are proved once, each to keep
the invariant when its arguments are operands; a parse function then needs one
step per resume point. The panic of `::` is possible only behind an error or
over a SELECT that broke without one (`WholeOK`).

**Types and nil of programs** (`Program_proof`, `Statements_proof`).
`ProgramTyped` is `ProgramSpec => []StatementTypeOK` and
`ProgramBrokenOnlyWhereKnown` is `ProgramSpec => []BrokenOnlyWhereKnown`: the same
two questions for `ParseProgram` with everything it calls, some five hundred resume
points. The answer is different, because statements do return nil without an
error: the invariant of expressions is false here, and a weaker one that allows
nil everywhere would prove nothing. `ProgramInv` follows the nil. It comes from the
functions of `MayReturnNil` or from a point that had nothing to call; it can only
be returned to a point of `MayGetNil`, for which a caller must be ready before the
call is made (`CallersReady`, `ResultReady`); only the points of `MayHoldNil` put it
among their operands (`CallsHold`), and only nodes of `MayLack` are built from
them (`NodesHold`). All of that is under `errors = <<>>`; without a condition, an
operand is nil or a node that exists. `BrokenByLack` ties the panic of `::` to a
node that lacks a child: a node is broken because one below it does. A point that
looks at its first operand has one (`NeedsOperand`).

`Program_proof` shows for each helper of the machine under which conditions on the
point, the function it calls and the operands it hands on it keeps the
invariant. These conditions are sorts of points (`Begins`, `Takes`, `Gets`, `Leaves`
and their like), and each point of `Points` is sorted once. It also bounds the rows
of words (`Row`, `ItemsEnd`, `Closing`), whose loops are recursive functions that
stop at the end of the input. `Statements_proof` has one lemma per parse function,
with a step for each stretch of its code, and gathers them in the order in which
`ProgramNext` is put together. The attempt showed that a TRY ... CATCH, which
`MayLack` listed, never lacks a child, and that `BrokenOnlyWhereKnown` did not say
what a panic without an error means; the property that the runs check was
made stronger by both.

**Eleven moves** (`Order_proof`, first part). The three proofs that follow depend on what a
step does to the cursor, the stack and the heap, and hardly on the function it
belongs to. `NextMoves` shows, function by function, that every step is one of
eleven moves: a call of a function or of `parseExpression`; going on; building a
node; failing; calling an infix function; returning the left side of the loop;
dropping parentheses; AT TIME ZONE giving back its left side; NOT handing over to
IN, LIKE or BETWEEN; a panic; the name node of a function literal. The moves keep what
matters of the points in the code: which of them wait for an operand and with
which precedence (`WantPoints`, `Wanted`), which belong to operations, and how
many tokens have been read for each call (`Slack`). These three proofs
go by move and name no parse function that is not special.

**Order and depth** (`Order_proof`, second part). `OperandsInOrder` is
`Spec => []SourceOrder`. An invariant about finished nodes is not enough, since a
node is built from what lies on the stack: `OrderInv` says that the operands a
call has collected lie between the beginning of its expression and the cursor, in
order (`FramesOrder`); that those of a caller lie before everything it calls
(`Below`); that a result comes after the operands of the call that is to take it
and that no other call holds it (`ResultOrder`); and that the left side of AT
TIME ZONE, which may be returned as it is, is the youngest node (`LeftOrder`).
The attempt to prove the property in its first form, with no token in two
operands, failed for a reason in the code: ROWS and RANGE are names too, so the
last item of the ORDER BY of an OVER clause may be the very word that begins its
frame, and `parseOverClause` reads it twice. The property names this one
exception (`ReadTwice`), a family of `MCExpressions` exercises it, and the hazard
is listed. `DepthIsBounded` is `Spec => []DepthBounded`: a frame at depth i has
read enough tokens for `i <= 2 * pos + Slack(pc)`; the bound of the property
follows from the largest slack. Some calls do not move the cursor, and `Slack`
counts how many of them can follow each other. The calls inside a SELECT are not
in this module, some five for each SELECT nested in the column list of another:
the bound is one of the calls of expression functions, and is not stated while a
SELECT is parsed.

**The contract** (`Order_proof`). `MeetsContract` is
`Spec => ImplementsContract`, with the mapping of the runs: the initial state maps
to an initial state, and every move maps to a step of `ParseContract` or to a
stutter. That the end is a complete tree when no error is reported and no SELECT
is broken is `NilIsReported`; a broken SELECT stays one (`BrokenStays`). `ParseContract!Spec` states no fairness; that the end is
reached, `Terminates`, is left to TLC.

**Grouping** (`Binding_proof`). `OperatorsGroup` is `Spec => []OperatorsBind`: in
every tree parsed without an error, operators group by precedence and, on a
level, from left to right; the operand of ESCAPE is parsed at LOWEST and may be an
AND (parser.go:1107). What makes it true is not in the tree but in the
conversation between the loop of `parseExpression` and the functions it calls.
`BindInv` states it: the operator a call handles binds tighter than its caller
asked for, and its left operand is complete as far as that operator is concerned
(`Operates`); an operand is parsed with the precedence that the point waiting
for it wants (`Calls`); and what has just been returned binds tighter than the
caller's level, while the token after it does not belong to it any more
(`Suits`). It is stated under `errors = <<>>`: behind an error a function returns
in the middle of an operand.

**No token lost** (`Words_proof`). `EveryTokenIsKept` is `Spec => []NoTokenLost`:
outside its operands a node stands on its own words only, unless it is of one of
the eight loose kinds; an AT without TIME and the token behind an OVER clause are
excepted. A node knows nothing
of the tokens that were passed over on the way to it, so `WordsInv` keeps account
of them while the calls are in progress. As long as no error is recorded, a call
has taken notice of every token from the beginning of its expression up to what
it calls or, for the call at the top, up to the cursor: the token is in one of
its operands, or it is the one the call is for, or one of the words its resume
point may have passed (`Taken`, `CallersTaken`); only the value that has just been
returned is in no node yet (`TopTaken`). The words of a point (`Words`) are those
of the node it is going to build, so that what the call has taken is, when it
builds the node, what the node stands on (`Stands`). An OVER clause returns with the
cursor one token behind its node: the point that takes it has one token more to
account for (`OverReturn`). Here the moves are not enough, because each function
has words of its own: the proof uses the moves for what happens to stack and heap
(`WordsGo`, `WordsReturn` and others), then goes through the functions. The
functions of `LoosePoints` skip words that they do not know, as the property says
of their nodes.

**Lexer** (`Lexer_proof`). `LexInv` says that the cursor carries nothing over
from the way it has come: line and column are a function of the position alone
(`CursorIn`, which counts the line breaks from the beginning of the text).
`ReadToIs` shows that `readChar`'s counting agrees with it. From there
`TokensAreWhereTheySay` (`PlacesAreTrue`), `EveryCharacterIsInOneToken`
(`NothingLost`), `LexerTyped` and the action property `EveryCallAdvances`
(`Advances`) need one lemma, `NextSteps`: whichever token a call of `NextToken`
finds, the token begins behind white space, ends in front of the new cursor, and
what lies between is white space (`Reading`). For NothingLost the invariant adds
that every token ends in front of the cursor, so that a character read next is in
no earlier token.

`UnclosedLiteralsAreReported` (`UnclosedIsReported`) needs to know that a literal
left open is the last there is: `UnclosedInv` says that it is the only one, that
its error is the only one and that the cursor is on the NUL behind it, where the
next call returns EOF. A string that `readString` ends holds an even number of
quotes with none behind it, one that it does not end an odd number
(`EvenQuotes`, `MarksAre`). The attempt showed the property to be wrong as it was
stated before: it took every literal with a double quote in its first two
characters for a quoted name, the string `'"'` among them. It now looks at the
opening mark alone, and the run has a family of texts with both kinds of quotes.

`CompoundKeywordsAreExact` (`CompoundsAreExact`) relates tokens that are returned
one after the other with what the look-ahead of the first of them saw.
`CompoundInv` says for each token what it and the text behind it allow: if it is a
compound keyword it is spelt exactly so (`SpellsIn`), the name that WITH_PARTITIONS
drops apart, if it is a single word no
compound keyword begins there (`Unjoined`); and the next token begins at the next
character that is not white space (`Adjacent`), which is where the look-ahead
went on reading (`Nth`). Tokens that spell the words of a compound keyword would
therefore be the words the look-ahead had seen.

The ends of strings and of nested comments are recursive functions; they are
shown to exist from the end of the text on down (`StringEndExists`,
`CommentEndExists`) and to be bounded in the same order (`DownTo`).

Assumptions: `InputsAssumption` (inputs are sequences of token types),
`SelectAssumption` (`MaxSelect` is a natural number), `RawsAssumption` and
`BoundAssumption` of the window (inputs are sequences of strings, `MaxErrors` is a
natural number); the lexer has `TextsAssumption`. TLC evaluates each of them in
the runs of its module.

Only model-checked:

* liveness: `Terminates` and `ProgramTerminates` depend on fairness;
* `ChainsGroupByLevel`, which compares with a recursive definition
  (`OperatorsBind` is the part of it that is a statement about each node);
* of programs, `SourceOrder`, `BlocksClose`, `ElseBindsNearest`,
  `NoStatementTokenLost`, `ClausesKept` and `StatementsKeptApart`. The last three
  count words of whole statements; the invariants they need are those of
  `Words_proof`, with the words of each of the five hundred points. `BlocksClose` and
  `ElseBindsNearest` count words too, of blocks and of IFs, and speak of the
  inputs of their run: in CREATE ROLE BEGIN the word is a name and opens no block.

## What is not modelled

* The text of tokens and messages, and the values of literals: no control
  depends on them but the comparisons named above. The parser's inputs are
  token types; that the lexer produces them is the business of `Lexer`, whose
  keywords are a sample.
* A keyword in brackets where a function compares characters and not types
  (`WordRows`).
* What `String()` writes; a node keeps only whether `String()` meets nil.
* `Walk` and `Inspector`: which children they visit depends on fields of the AST
  that the nodes here do not keep.
* `parseGrantStatement`, `parseRevokeStatement` and `parseDenyStatement`, which
  nothing calls; the command line tools and the version text, which are input
  and output.

## Plan

1. Proofs: `SourceOrder` of programs, with the moves of `Order_proof` for the
   points of `Points`; then `BlocksClose` and `ElseBindsNearest` from it, with the
   places where a function takes any word for a name set apart.
2. `Traversal`: Walk and Inspector over small trees: what each reaches.

Runs are bounded by what TLC does in minutes: one run per component, with
forms and families that share it, and proofs for what the bounds cannot show.
