----------------------------- MODULE TokenCursor -----------------------------
(***************************************************************************)
(* What the parser is promised about its input: a cursor that visits every *)
(* token of the source once, in order, comments left out, and that then    *)
(* stays on the end of the file.  `at` is the place of the current token   *)
(* in `raw`, the token types as the lexer produces them; 0 stands for the  *)
(* zero Token that the fields hold before parser.New has filled them.      *)
(***************************************************************************)
EXTENDS Integers, Sequences

CONSTANT Raws                \* the token sequences under consideration
VARIABLES raw, at

EOFAt == Len(raw) + 1        \* where every EOF token sits

IsCode(i) == i \in 1..EOFAt /\ (i \in DOMAIN raw => raw[i] # "COMMENT")

(* i is the first token after j that is not a comment, or EOF again.       *)
Follows(i, j) ==
    \/ j = EOFAt /\ i = EOFAt
    \/ /\ j < i
       /\ IsCode(i)
       /\ \A k \in (j + 1)..(i - 1) : ~ IsCode(k)

Init == raw \in Raws /\ at = 0

Advance == /\ \E i \in 1..EOFAt : Follows(i, at) /\ at' = i
           /\ UNCHANGED raw

Spec == Init /\ [][Advance]_<<raw, at>>
=============================================================================
