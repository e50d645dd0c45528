------------------------------ MODULE WordRows ------------------------------
(***************************************************************************)
(* Statements that are a row of words: each word is taken if it is there   *)
(* and passed over without an error if it is not.  What a function of this *)
(* kind does is where it leaves the cursor, most often one token behind    *)
(* its last word.  A word that is no keyword is a name or a text whose     *)
(* characters the code compares: both outcomes are possible.               *)
(* A keyword is known by its token: that some of these functions compare    *)
(* its characters, and would take it in brackets too, is left out.         *)
(***************************************************************************)
EXTENDS ParserMachine

(* One step of a row: how many tokens it takes, and at which words; with   *)
(* no words, at every one.                                                 *)
Anything       == [words |-> {}, takes |-> 1]
OneOf(words)   == [words |-> words, takes |-> 1]
Opt(word)      == [words |-> {word}, takes |-> 1]
OptNamed(word) == [words |-> {word}, takes |-> 2]
OptText        == OneOf({"STRING", "NSTRING"})
Take(j, step)  == IF step.words = {} \/ Tok(j) \in step.words THEN j + step.takes ELSE j
Row(i, steps) ==
    LET past[n \in 0..Len(steps)] == IF n = 0 THEN i ELSE Take(past[n - 1], steps[n])
    IN  past[Len(steps)]

(* name {, name}: the place behind the last one.                           *)
NamesPast(i) == ListEnd(i, "COMMA") + 1

(* A loop that begins at i: next[j] is where its body leads from j, and j  *)
(* itself where it ends.                                                   *)
Loop(i, next) ==
    LET end[j \in Nat] == IF next[j] = j THEN j ELSE end[next[j]]
    IN  end[i]

(* Items up to a closing parenthesis, which is where the cursor stays.     *)
ItemsEnd(i, Past(_)) ==
    Loop(i, [j \in Nat |-> IF Tok(j) \in {"RPAREN", "EOF"} THEN j ELSE Past(j)])

(* item {, item} up to the first of `stops`: the place behind the last one. *)
ListPast(i, stops, Past(_)) ==
    LET last == Loop(i, [j \in Nat |-> IF Tok(j) \notin stops /\ Tok(Past(j)) = "COMMA"
                                      THEN Past(j) + 1 ELSE j])
    IN  IF Tok(last) \in stops THEN last ELSE Past(last)

(* option [= value] {, option [= value]}                                   *)
ValueOption(i)        == IF Tok(i + 1) = "EQ" THEN i + 3 ELSE i + 1
OptionsPast(i, stops) == ListPast(i, stops \cup {"EOF"}, ValueOption)

(* name [,]: one of the names in parentheses.                              *)
NamePast(i) == Row(i, <<Anything, Opt("COMMA")>>)

(* [WITH [( {option [=] value [,]} )]]: an option without a value takes the *)
(* parenthesis for it.                                                     *)
Pair(i) == Row(i, <<Anything, Opt("EQ"), Anything, Opt("COMMA")>>)
PairsPast(i) ==
    CASE Tok(i) = "WITH" /\ Tok(i + 1) = "LPAREN" -> ItemsEnd(i + 2, Pair) + 1
      [] Tok(i) = "WITH" /\ Tok(i + 1) # "LPAREN" -> i + 1
      [] OTHER -> i

(* What protects a key, behind BY.                                         *)
ProtectionPast(i) ==
    CASE Tok(i) = "CERTIFICATE" -> i + 2
      [] Tok(i) = "SYMMETRIC"   -> Row(i + 1, <<Opt("KEY"), Anything>>)
      [] Tok(i) = "PASSWORD"    -> Row(i + 1, <<Opt("EQ"), OptText>>)
      [] OTHER                  -> i

(* return p.fn(token): the node is for the token the caller was at.        *)
HandOn(k, fn) ==
    /\ stack' = [stack EXCEPT ![Len(stack)] = Frame(fn, Top.prec, Top.at, Top.lo, Top.kids)]
    /\ pos' = pos + k
    /\ UNCHANGED <<input, ret, heap, errors>>

(* The statement is a node of what it has collected, the cursor at `past`. *)
ReturnAt(kind, past) == ReturnNew(kind, Top.at, Top.kids, past - pos)
=============================================================================
