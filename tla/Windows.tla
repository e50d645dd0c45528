------------------------------- MODULE Windows -------------------------------
(***************************************************************************)
(* ORDER BY items and OVER clauses: parseOrderByItems, parseOverClause,    *)
(* parseWindowFrame, parseFrameBound.  parseExpression is in Expressions.  *)
(***************************************************************************)
EXTENDS ParserMachine

(* expr [ASC | DESC] {, expr [ASC | DESC]}                                 *)
parseOrderByItems ==
    \/ /\ At("parseOrderByItems")
       /\ CallExpression(0, "parseOrderByItems.Item", <<>>, LOWEST)
    \/ /\ At("parseOrderByItems.Item")
       /\ LET k == IF Peek \in {"ASC", "DESC"} THEN 1 ELSE 0 IN
          IF Tok(pos + k + 1) = "COMMA"
          THEN CallExpression(k + 2, "parseOrderByItems.Item", Got, LOWEST)
          ELSE ReturnNew("OrderBy", Top.at, Got, k)

(* n PRECEDING, UNBOUNDED FOLLOWING, CURRENT ROW, ...: whatever follows    *)
(* the first word or the offset is taken for the second word.              *)
parseFrameBound ==
    \/ /\ At("parseFrameBound")
       /\ IF Cur \in {"UNBOUNDED", "CURRENT"}
          THEN ReturnNew("FrameBound", pos, <<>>, 1)
          ELSE CallExpression(0, "parseFrameBound.Offset", <<>>, LOWEST)
    \/ /\ At("parseFrameBound.Offset")
       /\ ReturnNew("FrameBound", Top.at, GotIfAny, 1)

(* ROWS bound, or ROWS BETWEEN bound AND bound; a frame without AND is     *)
(* returned all the same, after the error.                                 *)
parseWindowFrame ==
    \/ /\ At("parseWindowFrame")
       /\ IF Peek = "BETWEEN" THEN Call(2, "parseWindowFrame.Start", <<>>, "parseFrameBound")
                              ELSE Call(1, "parseWindowFrame.End", <<>>, "parseFrameBound")
    \/ /\ At("parseWindowFrame.Start")
       /\ IF Peek = "AND" THEN Call(2, "parseWindowFrame.End", Got, "parseFrameBound")
                          ELSE ReturnFlawed("WindowFrame", Top.at, Got, 0, 1)
    \/ /\ At("parseWindowFrame.End")
       /\ ReturnNew("WindowFrame", Top.at, Got, 0)

(* The end of the clause: the cursor is left on the token after the ), which *)
(* is no part of it.                                                       *)
OverClose ==
    /\ At("parseOverClause.Close")
    /\ CASE Cur = "RPAREN"                     -> ReturnPassing("Over", Top.at, Top.kids, 1)
         [] Cur # "RPAREN" /\ Peek = "RPAREN" -> ReturnPassing("Over", Top.at, Top.kids, 2)
         [] OTHER                              -> Fail(1, 0)

(* OVER name, or OVER ( [PARTITION BY list] [ORDER BY items] [frame] )     *)
parseOverClause ==
    \/ /\ At("parseOverClause")
       /\ CASE Peek = "IDENT" -> ReturnNew("Over", Top.at, <<>>, 1)
            [] Peek = "LPAREN" /\ Tok(pos + 2) = "PARTITION" ->
                 IF Tok(pos + 3) = "BY"
                 THEN CallExpression(4, "parseOverClause.Partition", <<>>, LOWEST)
                 ELSE Fail(3, 2)
            [] Peek = "LPAREN" /\ Tok(pos + 2) # "PARTITION" ->
                 Continue(2, "parseOverClause.Order", <<>>)
            [] OTHER -> Fail(1, 0)
    \/ /\ At("parseOverClause.Partition")
       /\ IF Peek = "COMMA" THEN CallExpression(2, "parseOverClause.Partition", Got, LOWEST)
                            ELSE Continue(1, "parseOverClause.Order", Got)
    \/ /\ At("parseOverClause.Order")
       /\ CASE Cur # "ORDER" -> Continue(0, "parseOverClause.Frame", Top.kids)
            [] Cur = "ORDER" /\ Peek = "BY" ->
                 Call(2, "parseOverClause.Ordered", Top.kids, "parseOrderByItems")
            [] OTHER -> Fail(1, 0)
    \/ /\ At("parseOverClause.Ordered")         \* is the cursor still on the items?
       /\ LET stays == \/ Cur \in {"ROWS", "RANGE"}
                       \/ Cur = "RPAREN" /\ Peek # "RPAREN"
          IN  Continue(IF stays THEN 0 ELSE 1, "parseOverClause.Frame", Got)
    \/ /\ At("parseOverClause.Frame")
       /\ IF Cur \in {"ROWS", "RANGE"}
          THEN Call(0, "parseOverClause.Framed", Top.kids, "parseWindowFrame")
          ELSE Continue(0, "parseOverClause.Close", Top.kids)
    \/ At("parseOverClause.Framed") /\ Continue(0, "parseOverClause.Close", Got)
    \/ OverClose

WindowStep == parseOrderByItems \/ parseFrameBound \/ parseWindowFrame \/ parseOverClause
=============================================================================
