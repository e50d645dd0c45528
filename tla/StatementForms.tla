--------------------------- MODULE StatementForms ---------------------------
(***************************************************************************)
(* Statements put together from their clauses and set into the contexts a  *)
(* statement can stand in.                                                 *)
(***************************************************************************)
EXTENDS MCStatements

(* A form: the parts of a statement in their order, how many of the        *)
(* optional ones a text has at most (or all of them), and its contexts.    *)
(* A part that String() writes from a node of its own has an operand.      *)
CONSTANT Forms
Part(text, optional, operand) == [text |-> text, optional |-> optional, operand |-> operand]
Must(text)  == Part(text, FALSE, TRUE)
Word(text)  == Part(text, FALSE, FALSE)
May(text)   == Part(text, TRUE, TRUE)
Plain(text) == Part(text, TRUE, FALSE)

(* What stands before and after a statement, the kind of the node whose    *)
(* list it is in, its place in that list and the length of the list.       *)
Context(before, after, list, index, count) ==
    [before |-> before, after |-> after, list |-> list, index |-> index, count |-> count]
Before(after) == Context(<<>>, after, "Program", 1, 2)
Alone     == Context(<<>>, <<>>, "Program", 1, 1)
FirstOfProcedure ==
    Context(<<"CREATE", "PROCEDURE", "IDENT", "AS">>, <<"SEMICOLON", "BREAK">>, "CreateProcedure", 1, 2)
Separated == {Alone, FirstOfProcedure, Before(<<"SEMICOLON", "BREAK">>), Before(<<"GO", "BREAK">>),
              Context(<<"BEGIN">>, <<"SEMICOLON", "BREAK", "END">>, "Block", 1, 2),
              Context(<<"IF", "IDENT">>, <<"SEMICOLON", "ELSE", "BREAK">>, "IfElse", 2, 3),
              Context(<<"BEGIN", "TRY">>,
                      <<"SEMICOLON", "END", "TRY", "BEGIN", "CATCH", "BREAK", "END", "CATCH">>,
                      "TryCatch", 1, 2)}
Anywhere  == Separated \cup {Before(<<"BREAK">>)}
OwnBatch  == {Alone, Before(<<"GO", "BREAK">>)}

Form(parts, most, contexts) == [parts |-> parts, most |-> most, contexts |-> contexts]

(* The text of a form with the optional parts c, and its operands' places. *)
Optional(form) == {i \in DOMAIN form.parts : form.parts[i].optional}
PartSets(form, most) ==
    IF most >= Cardinality(Optional(form)) THEN SUBSET Optional(form)
    ELSE {Optional(form)} \cup {ToSet(chosen) : chosen \in BoundedSeq(Optional(form), most)}
PartTexts(form, c) ==
    [i \in DOMAIN form.parts |->
        IF form.parts[i].optional /\ i \notin c THEN <<>> ELSE form.parts[i].text]
Sample(form, c, context) ==
    LET texts    == PartTexts(form, c)
        End(i)   == Len(context.before) + Len(FlattenSeq(SubSeq(texts, 1, i)))
        Place(i) == (End(i - 1) + 1)..End(i)
        Operand(i) == IF form.parts[i].operand THEN Place(i) ELSE {}
    IN  [text    |-> context.before \o FlattenSeq(texts) \o context.after,
         place   |-> (End(0) + 1)..End(Len(texts)),
         operands |-> SelectSeq([i \in DOMAIN texts |-> Operand(i)], LAMBDA place : place # {}),
         context |-> context]

(* Every choice of parts for the statement alone, up to one or all of them *)
(* in the other contexts.                                                  *)
Samples == UNION {{Sample(form, c, context) :
                      c \in PartSets(form, IF context = Alone THEN form.most ELSE 1)} :
                  <<form, context>> \in UNION {{form} \X form.contexts : form \in Forms}}
SampleTexts == {s.text : s \in Samples}
FormInputs == SampleTexts \cup FamilyInputs
PartsOfForms == UNION {ToSet(form.parts) : form \in Forms}
FormTokens   == FamilyTokens \cup UNION {ToSet(part.text) : part \in PartsOfForms}
                    \cup UNION {ToSet(context.before \o context.after) : context \in Anywhere}
-----------------------------------------------------------------------------
(* The list a statement of a sample is in and the statement itself.        *)
TheSample == CHOOSE s \in Samples : s.text = input
TheList(s) == heap[CHOOSE n \in DOMAIN heap : heap[n].kind = s.context.list /\ heap[n].lo = 1]
TheStatement(s) == heap[TheList(s).kids[s.context.index]]

(* A statement with its clauses in the order of the grammar is accepted,   *)
(* whatever clauses it has and wherever it stands, and each of its clauses *)
(* is an operand of its own: no clause takes the words of the next one or  *)
(* is lost.                                                                *)
ClausesKept ==
    Finished /\ input \in SampleTexts =>
        /\ errors = <<>>
        /\ LET s == TheSample
               statement == TheStatement(s) IN
           /\ Len(statement.kids) = Len(s.operands)
           /\ \A i \in DOMAIN s.operands : Span(statement.kids[i]) \subseteq s.operands[i]

(* Statements that may leave the cursor one token behind their last one.   *)
LeavesBehind ==
    {"CreateLogin", "AlterLogin", "CreateUser", "AlterUser", "CreateRole", "AlterRole",
     "CreateMasterKey", "CreateCertificate", "CreateSymmetricKey", "CreateAsymmetricKey",
     "CreateAssembly", "AlterAssembly", "DropObject", "OpenKey", "CloseKey", "Backup", "Restore",
     "CreateResourcePool", "AlterResourcePool", "CreateWorkloadGroup", "AlterWorkloadGroup",
     "AlterResourceGovernor", "DropNamed", "CreateAvailabilityGroup", "AlterAvailabilityGroup",
     "PartitionFunction", "PartitionScheme", "AlterPartitionScheme", "CreateFulltextCatalog",
     "CreateFulltextIndex", "AlterFulltextIndex", "CreateMessageType", "CreateContract",
     "CreateQueue", "CreateService", "BeginDialog", "MoveConversation"}
Behind(statement, place) == IF statement.kind \in LeavesBehind THEN {Max(place) + 1} ELSE {}

(* In every context a statement is the same, from its first token to its   *)
(* last, and the statements behind it are all there: none takes the words  *)
(* of the next one, the END of its block or the ELSE of an IF.  One that   *)
(* leaves the cursor behind takes one token more and no second one, and so *)
(* spares what follows a semicolon or GO.                                  *)
StatementsKeptApart ==
    Finished /\ input \in SampleTexts =>
        LET s == TheSample
            list == TheList(s) IN
        /\ Len(list.kids) = s.context.count
        /\ s.place \subseteq Span(list.kids[s.context.index])
        /\ Span(list.kids[s.context.index]) \subseteq s.place \cup Behind(TheStatement(s), s.place)
        /\ list.hi >= Len(input)
        /\ \A i \in DOMAIN list.kids : i > s.context.index =>
              Tok(heap[list.kids[i]].at) = "BREAK"
=============================================================================
