---------------------------- MODULE ParseContract ----------------------------
(***************************************************************************)
(* What a caller may expect of a parse: it reads forwards only, it comes   *)
(* to an end, and it ends with a usable tree or has reported an error.  A  *)
(* SELECT may break without an error: a tree with such a SELECT in it may  *)
(* be broken, and printing a part of it on the way may panic.              *)
(***************************************************************************)
EXTENDS Integers

VARIABLES at,                \* the current token
          reported,          \* an error has been recorded
          spoilt,            \* a SELECT in the tree is broken
          outcome
vars == <<at, reported, spoilt, outcome>>

Outcomes == {"running", "tree", "broken tree", "nil", "panic"}

Init == at = 1 /\ ~ reported /\ ~ spoilt /\ outcome = "running"

Step == /\ outcome = "running"
        /\ at' \in Nat /\ at' >= at
        /\ reported' \in BOOLEAN /\ (reported => reported')
        /\ spoilt' \in BOOLEAN /\ (spoilt => spoilt')
        /\ outcome' \in Outcomes
        /\ outcome' = "nil" => reported'
        /\ outcome' \in {"broken tree", "panic"} => reported' \/ spoilt'

Spec     == Init /\ [][Step]_vars
FairSpec == Spec /\ WF_vars(Step /\ outcome' # "running")
Ends     == <>(outcome # "running")
=============================================================================
