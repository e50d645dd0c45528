------------------------------ MODULE Words_proof ------------------------------
(***************************************************************************)
(* Proofs about Expressions: no token is lost.  They need the words that   *)
(* each function passes over, which the moves of Order_proof do not keep.  *)
(***************************************************************************)
EXTENDS Order_proof

(* The token types, for operators whose parameters are values.             *)
Text == [i \in Nat |-> Tok(i)]

(* The functions whose nodes may swallow words, see Loose.                 *)
LoosePoints ==
    {"parseFrameBound", "parseFrameBound.Offset", "parseOverClause", "parseOverClause.Partition",
     "parseOverClause.Order", "parseOverClause.Ordered", "parseOverClause.Frame",
     "parseOverClause.Framed", "parseOverClause.Close", "parseDataType", "parseSelectStatement",
     "parseCursorExpression", "parseCursorExpression.ForSelect", "parseNextValueFor",
     "parseNextValueForCompound", "parseNextValueForCompound.Over",
     "parseContainsExpression", "parseContainsExpression.SearchTerm",
     "parseFreetextExpression", "parseFreetextExpression.SearchTerm",
     "parseContainsTableExpression", "parseContainsTableExpression.SearchTerm",
     "parseFreetextTableExpression", "parseFreetextTableExpression.SearchTerm"}

(* The words the other functions pass over are those of what they build.   *)
GroupPoints ==
    {"parseGroupedExpression", "parseGroupedExpression.Exp", "parseGroupedExpression.Subquery"}
Words(pc) ==
    CASE pc \in {"parseLikeExpression", "parseLikeExpression.Pattern",
                 "parseLikeExpression.Escape"}                         -> Layout("Like")
      [] pc \in {"parseBetweenExpression", "parseBetweenExpression.Low",
                 "parseBetweenExpression.High"}                        -> Layout("Between")
      [] pc \in {"parseInExpression", "parseInExpression.Value",
                 "parseInExpression.Subquery"}                         -> Layout("In")
      [] pc = "parseIsNullExpression"                                  -> Layout("IsNull")
      [] pc = "parseAtTimeZoneExpression.TimeZone"                     -> Layout("AtTimeZone")
      [] pc \in {"parseCaseExpression", "parseCaseExpression.Operand",
                 "parseCaseExpression.When", "parseCaseExpression.Condition",
                 "parseCaseExpression.Result", "parseCaseExpression.Else",
                 "parseCaseExpression.End"}                            -> Layout("Case")
      [] pc \in {"parseExistsExpression", "parseExistsExpression.Subquery"} -> Layout("Exists")
      [] pc \in {"parseExpressionList", "parseExpressionList.Key",
                 "parseExpressionList.Value"}                          -> Layout("List")
      [] pc \in {"parseCallExpression", "parseCallExpression.Arguments",
                 "parseCallExpression.WithinGroup", "parseCallExpression.Over",
                 "parseCallExpression.Clause", "parseAllExpression",
                 "parseAllExpression.Subquery"}                        -> Layout("FunctionCall")
      [] pc \in {"parseOrderByItems", "parseOrderByItems.Item"}        -> Layout("OrderBy")
      [] pc \in {"parseWindowFrame", "parseWindowFrame.Start",
                 "parseWindowFrame.End"}                               -> Layout("WindowFrame")
      [] pc \in {"parseCastExpression", "parseCastExpression.Expression",
                 "parseCastExpression.TargetType", "parseConvertExpression",
                 "parseConvertExpression.TargetType", "parseConvertExpression.Expression",
                 "parseConvertExpression.Style", "parseParseExpression",
                 "parseParseExpression.Expression", "parseParseExpression.TargetType",
                 "parseParseExpression.Culture"}                       -> Layout("Conversion")
      [] pc \in {"parseTrimExpression", "parseTrimExpression.First",
                 "parseTrimExpression.Expression"}                     -> Layout("Trim")
      [] OTHER                                                         -> {}

(* Points that have not looked at the current token yet; those whose node  *)
(* is not for the token at `at`, or that make none; those behind a name.   *)
Unread     == {"parseExpression", "parseCaseExpression.When", "parseCaseExpression.End"}
Unmarked   == Exprs \cup {"parseSubqueryExpression.Select"}
NamePoints == {"parseDotExpression.Arguments", "parseScopeExpression.Arguments"}
NamedKinds == {"Collate", "StaticMethodCall", "MethodCall"}

(* Of text w and nodes h: what a call has taken notice of so far, and what *)
(* is in a node or, with OVER, behind it.                                  *)
Reach(node) == IF node.kind = "Over" THEN node.hi + 1 ELSE node.hi
SpanIn(h, v) == IF v = NIL THEN {} ELSE h[v].lo..Reach(h[v])
InOperand(h, kids, t) == \E j \in DOMAIN kids : t \in SpanIn(h, kids[j])
Taken(w, h, f, t) ==
    \/ f.pc \in LoosePoints
    \/ w[t] \in Words(f.pc) \cup {"AT"}
    \/ f.pc \notin Unmarked /\ t = f.at
    \/ f.pc \in NamePoints /\ t = f.at + 1
    \/ InOperand(h, f.kids, t)
AllTaken(w, h, f, hi) == \A t \in f.lo..hi : Taken(w, h, f, t)
Stands(w, h, node, t) ==
    \/ t = node.at
    \/ w[t] \in Layout(node.kind) \cup {"AT"}
    \/ node.paren /\ w[t] \in {"LPAREN", "RPAREN"}
    \/ node.kind \in NamedKinds /\ t = node.at + 1
    \/ InOperand(h, node.kids, t)
NodeTaken(w, h, node) ==
    node.kind \in Loose \/ \A t \in node.lo..node.hi : Stands(w, h, node, t)

(* What a call knows of the token it is for, and how it begins.            *)
Openings ==
    Functions \ {"parseCallExpression.Over", "parseCaseExpression.End", "parseCaseExpression.When",
                 "parseOverClause.Close", "parseOverClause.Frame", "parseOverClause.Order"}
HeadKnown(w, f) ==
    /\ f.pc \in GroupPoints => w[f.at] = "LPAREN"
    /\ f.pc = "parseAtTimeZoneExpression" => w[f.at] = "AT"
    /\ f.pc = "parseNotInfixExpression" => w[f.at] = "NOT"
    /\ f.pc \in {"parseExpression.Left", "parseGroupedExpression.Exp"} => f.kids = <<>>
Opened(p, f) ==
    /\ f.pc \in Openings => f.at = p /\ f.lo = p /\ f.kids = <<>>
    /\ f.pc \in InfixFns => f.at = p

(* A call has taken notice of all tokens from the beginning of its         *)
(* expression to the one in front of what it calls or, at the top, to the  *)
(* cursor, but for what has just been returned to it.                      *)
CallersTaken(w, h, s) == \A i \in 1..(Len(s) - 1) : AllTaken(w, h, s[i], s[i + 1].lo - 1)
TopTaken(w, h, p, f, r) ==
    \A t \in f.lo..(IF f.pc \in Unread THEN p - 1 ELSE p) :
        Taken(w, h, f, t) \/ (f.pc \in AwaitsResult /\ t \in SpanIn(h, r))
Covers(w, h, v, lo, hi) == \A t \in lo..hi : w[t] = "AT" \/ t \in SpanIn(h, v)
StackTaken(w, h, p, s, r) ==
    /\ \A i \in DOMAIN s : HeadKnown(w, s[i])
    /\ CallersTaken(w, h, s)
    /\ s # <<>> => s[1].lo = 1 /\ Opened(p, s[Len(s)]) /\ TopTaken(w, h, p, s[Len(s)], r)

WordsInv ==
    errors = <<>> => /\ \A n \in DOMAIN heap : NodeTaken(Text, heap, heap[n])
                     /\ StackTaken(Text, heap, pos, stack, ret)
-----------------------------------------------------------------------------
(* Spans only grow.                                                        *)
Grows(h, g) ==
    \A n \in DOMAIN h : /\ n \in DOMAIN g /\ g[n].kind = h[n].kind
                        /\ g[n].lo <= h[n].lo /\ h[n].hi <= g[n].hi
Known(h, kids) == \A j \in DOMAIN kids : kids[j] # NIL => kids[j] \in DOMAIN h
AllKnown(h, s) == \A i \in DOMAIN s : Known(h, s[i].kids)

LEMMA GrowsItself == ASSUME NEW h \in Heaps PROVE Grows(h, h)
BY NodeType DEF Grows

LEMMA SpanGrows ==
    ASSUME NEW h \in Heaps, NEW g \in Heaps, Grows(h, g),
           NEW v, v # NIL => v \in DOMAIN h, NEW t \in SpanIn(h, v)
    PROVE  t \in SpanIn(g, v)
<1>1. v # NIL /\ v \in DOMAIN h /\ v \in DOMAIN g /\ t \in h[v].lo..Reach(h[v])
  BY DEF SpanIn, Grows
<1>2. /\ h[v].lo \in Nat /\ h[v].hi \in Nat /\ g[v].lo \in Nat /\ g[v].hi \in Nat
      /\ g[v].lo <= h[v].lo /\ h[v].hi <= g[v].hi /\ g[v].kind = h[v].kind
  BY <1>1, NodeType DEF Grows
<1>3. Reach(h[v]) \in Nat /\ Reach(g[v]) \in Nat /\ Reach(h[v]) <= Reach(g[v])
  BY <1>2 DEF Reach
<1> QED BY <1>1, <1>2, <1>3 DEF SpanIn

LEMMA OperandGrows ==
    ASSUME NEW h \in Heaps, NEW g \in Heaps, Grows(h, g),
           NEW kids, Known(h, kids), NEW t, InOperand(h, kids, t)
    PROVE  InOperand(g, kids, t)
BY SpanGrows DEF InOperand, Known

LEMMA TakenGrows ==
    ASSUME NEW h \in Heaps, NEW g \in Heaps, Grows(h, g), NEW w,
           NEW f, Known(h, f.kids), NEW hi, AllTaken(w, h, f, hi)
    PROVE  AllTaken(w, g, f, hi)
BY OperandGrows DEF AllTaken, Taken

LEMMA NodeGrows ==
    ASSUME NEW h \in Heaps, NEW g \in Heaps, Grows(h, g), NEW w,
           NEW node, Known(h, node.kids), NodeTaken(w, h, node)
    PROVE  NodeTaken(w, g, node)
BY OperandGrows DEF NodeTaken, Stands

(* The calls below the top.                                                *)
LEMMA CallersGrow ==
    ASSUME NEW h \in Heaps, NEW g \in Heaps, Grows(h, g), NEW w,
           NEW s \in Stacks, AllKnown(h, s), CallersTaken(w, h, s)
    PROVE  CallersTaken(w, g, s)
<1>1. \A i \in 1..(Len(s) - 1) : i \in DOMAIN s
  BY Lengths
<1> QED BY <1>1, TakenGrows DEF CallersTaken, AllKnown

LEMMA ReplaceTakes ==
    ASSUME NEW h \in Heaps, NEW g \in Heaps, Grows(h, g), NEW w, NEW p, NEW q, NEW r, NEW v,
           NEW s \in Stacks, s # <<>>, AllKnown(h, s), StackTaken(w, h, p, s, r),
           NEW f \in Frames(Labels), f.lo = s[Len(s)].lo,
           HeadKnown(w, f), Opened(q, f), TopTaken(w, g, q, f, v)
    PROVE  StackTaken(w, g, q, [s EXCEPT ![Len(s)] = f], v)
<1> DEFINE n == Len(s)
           u == [s EXCEPT ![n] = f]
<1>1. /\ n \in Nat \ {0} /\ DOMAIN s = 1..n /\ n \in DOMAIN s
      /\ \A i \in DOMAIN s : s[i] \in Frames(Labels)
  BY Lengths DEF Stacks
<1>2. /\ DOMAIN u = DOMAIN s /\ Len(u) = n /\ u # <<>> /\ u[n] = f
      /\ \A i \in DOMAIN s : i # n => u[i] = s[i]
  BY <1>1 DEF Stacks
<1> HIDE DEF u, n
<1>3. \A i \in DOMAIN u : u[i].lo = s[i].lo
  BY <1>2 DEF n
<1>4. \A i \in DOMAIN u : HeadKnown(w, u[i])
  BY <1>2 DEF StackTaken
<1>5. CallersTaken(w, g, u)
  <2>1. CallersTaken(w, g, s)
    BY CallersGrow DEF StackTaken
  <2>2. ASSUME NEW i \in 1..(n - 1)
        PROVE  u[i] = s[i] /\ u[i + 1].lo = s[i + 1].lo
    <3>1. i \in DOMAIN s /\ i # n /\ i + 1 \in DOMAIN s
      BY <1>1
    <3> QED BY <1>2, <1>3, <3>1
  <2> QED BY <1>2, <2>1, <2>2 DEF CallersTaken, n
<1>6. u[1].lo = 1
  <2>1. s[1].lo = 1 /\ 1 \in DOMAIN u
    BY <1>1, <1>2 DEF StackTaken
  <2> QED BY <1>3, <2>1
<1>7. StackTaken(w, g, q, u, v)
  BY <1>2, <1>4, <1>5, <1>6 DEF StackTaken
<1> QED BY <1>7 DEF u, n

LEMMA CallTakes ==
    ASSUME NEW h \in Heaps, NEW w, NEW p, NEW q, NEW r,
           NEW s \in Stacks, s # <<>>, StackTaken(w, h, p, s, r),
           NEW f \in Frames(Labels), f.lo = s[Len(s)].lo, HeadKnown(w, f),
           NEW g \in Frames(Labels), AllTaken(w, h, f, g.lo - 1),
           HeadKnown(w, g), Opened(q, g), TopTaken(w, h, q, g, r)
    PROVE  StackTaken(w, h, q, Append([s EXCEPT ![Len(s)] = f], g), r)
<1> DEFINE n == Len(s)
           u == Append([s EXCEPT ![n] = f], g)
<1>1. /\ n \in Nat \ {0} /\ DOMAIN s = 1..n /\ n \in DOMAIN s
  BY Lengths DEF Stacks
<1>2. /\ DOMAIN u = 1..(n + 1) /\ Len(u) = n + 1 /\ u # <<>> /\ u[n] = f /\ u[n + 1] = g
      /\ \A i \in DOMAIN s : i # n => u[i] = s[i]
  <2> DEFINE under == [s EXCEPT ![n] = f]
  <2>1. /\ under \in Seq(Frames(Labels)) /\ Len(under) = n /\ DOMAIN under = 1..n /\ under[n] = f
        /\ \A i \in DOMAIN s : i # n => under[i] = s[i]
    BY <1>1 DEF Stacks
  <2> HIDE DEF under, n
  <2>2. /\ Append(under, g) \in Seq(Frames(Labels)) /\ Len(Append(under, g)) = n + 1
        /\ Append(under, g)[n + 1] = g
        /\ \A i \in 1..n : Append(under, g)[i] = under[i]
    BY <1>1, <2>1
  <2>3. u = Append(under, g)
    BY DEF under
  <2> HIDE DEF u
  <2>4. n \in 1..n /\ u \in Seq(Frames(Labels)) /\ Len(u) = n + 1
    BY <1>1, <2>2, <2>3
  <2>5. DOMAIN u = 1..(n + 1) /\ u # <<>>
    BY <1>1, <2>4
  <2> QED BY <1>1, <2>1, <2>2, <2>3, <2>4, <2>5
<1> HIDE DEF u
<1>3. \A i \in DOMAIN u : HeadKnown(w, u[i])
  <2> SUFFICES ASSUME NEW i \in DOMAIN u PROVE HeadKnown(w, u[i])
    OBVIOUS
  <2>1. i = n + 1 \/ i \in DOMAIN s
    BY <1>1, <1>2
  <2> QED BY <1>2, <2>1 DEF StackTaken
<1>4. CallersTaken(w, h, u)
  <2>1. ASSUME NEW i \in 1..n PROVE AllTaken(w, h, u[i], u[i + 1].lo - 1)
    <3>1. CASE i = n
      BY <1>2, <3>1
    <3>2. CASE i # n
      <4>1. i \in DOMAIN s /\ i + 1 \in DOMAIN s /\ i \in 1..(n - 1) /\ i + 1 \in Nat
        <5> HIDE DEF n
        <5>1. i \in Nat /\ i < n /\ 1 <= i
          BY <1>1, <3>2
        <5> QED BY <1>1, <5>1
      <4>2. AllTaken(w, h, s[i], s[i + 1].lo - 1)
        BY <4>1 DEF StackTaken, CallersTaken
      <4>3. u[i] = s[i] /\ u[i + 1].lo = s[i + 1].lo
        BY <1>2, <3>2, <4>1
      <4> QED BY <4>2, <4>3
    <3> QED BY <3>1, <3>2
  <2>2. Len(u) - 1 = n
    BY <1>1, <1>2
  <2> QED BY <2>1, <2>2 DEF CallersTaken
<1>5. u[1].lo = 1
  <2>1. s[1].lo = 1 /\ 1 \in DOMAIN s
    BY <1>1 DEF StackTaken
  <2> QED BY <1>2, <2>1
<1> HIDE DEF n
<1>6. StackTaken(w, h, q, u, r)
  BY <1>2, <1>3, <1>4, <1>5 DEF StackTaken
<1> QED BY <1>6 DEF u, n

LEMMA ReturnTakes ==
    ASSUME NEW h \in Heaps, NEW g \in Heaps, Grows(h, g), NEW w, NEW p, NEW q \in Nat, NEW r, NEW v,
           NEW s \in Stacks, s # <<>>, AllKnown(h, s), StackTaken(w, h, p, s, r),
           \A i \in 1..(Len(s) - 1) : s[i].pc \in AwaitsResult,
           Covers(w, g, v, s[Len(s)].lo, q)
    PROVE  StackTaken(w, g, q, Popped(s), v)
<1> DEFINE n == Len(s)
           u == Popped(s)
<1>1. /\ n \in Nat \ {0} /\ DOMAIN s = 1..n /\ Len(u) = n - 1 /\ DOMAIN u = 1..(n - 1)
      /\ \A i \in DOMAIN u : u[i] = s[i]
      /\ \A i \in DOMAIN s : s[i].lo \in Nat
      /\ u \in Stacks
  BY PoppedFrames
<1> HIDE DEF u
<1>2. \A i \in DOMAIN u : HeadKnown(w, u[i])
  BY <1>1 DEF StackTaken
<1>3. CallersTaken(w, g, s)
  BY CallersGrow DEF StackTaken
<1>4. CallersTaken(w, g, u)
  <2>1. ASSUME NEW i \in 1..(Len(u) - 1) PROVE AllTaken(w, g, u[i], u[i + 1].lo - 1)
    <3>1. i \in 1..(n - 1) /\ i + 1 \in 1..(n - 1)
      BY <1>1
    <3>2. AllTaken(w, g, s[i], s[i + 1].lo - 1)
      BY <1>3, <3>1 DEF CallersTaken
    <3> QED BY <1>1, <3>1, <3>2
  <2> QED BY <2>1 DEF CallersTaken
<1>5. ASSUME u # <<>>
      PROVE  u[1].lo = 1 /\ Opened(q, u[Len(u)]) /\ TopTaken(w, g, q, u[Len(u)], v)
  <2>1. n - 1 \in DOMAIN u /\ 1 \in DOMAIN u /\ n \in DOMAIN s /\ n - 1 \in DOMAIN s
        /\ n - 1 \in 1..(n - 1)
    <3>1. n - 1 # 0
      BY <1>1, <1>5 DEF Stacks
    <3> QED BY <1>1, <3>1
  <2> DEFINE c == s[n - 1]
  <2>2. u[Len(u)] = c /\ u[1] = s[1] /\ s[1].lo = 1 /\ c.pc \in AwaitsResult
    BY <1>1, <2>1 DEF StackTaken
  <2>3. AllTaken(w, g, c, s[n].lo - 1)
    <3>1. (n - 1) + 1 = n
      BY <1>1
    <3> QED BY <1>3, <2>1, <3>1 DEF CallersTaken
  <2>4. s[n].lo \in Nat /\ c.lo \in Nat
    BY <1>1, <2>1
  <2> HIDE DEF c
  <2>5. c.pc \notin Unread /\ c.pc \notin Openings \cup InfixFns
    BY <2>2 DEF Unread, Openings, Functions, InfixFns, AwaitsResult
  <2>6. ASSUME NEW t \in c.lo..q PROVE Taken(w, g, c, t) \/ t \in SpanIn(g, v)
    <3>1. CASE t \in c.lo..(s[n].lo - 1)
      BY <2>3, <3>1 DEF AllTaken
    <3>2. CASE t \in s[n].lo..q
      BY <3>2 DEF Covers, Taken
    <3> QED BY <2>4, <2>6, <3>1, <3>2
  <2>7. TopTaken(w, g, q, c, v) /\ Opened(q, c)
    BY <2>2, <2>5, <2>6 DEF TopTaken, Opened
  <2> QED BY <2>2, <2>7
<1> HIDE DEF n
<1> QED BY <1>2, <1>4, <1>5 DEF StackTaken, u
-----------------------------------------------------------------------------
(* A step of a parse that has reported nothing and reports nothing.        *)
Quiet == IInv /\ OrderInv /\ WordsInv /\ IInv' /\ errors = <<>> /\ errors' = <<>>

LEMMA SameText == input' = input => Text' = Text
BY DEF Text, Tok

LEMMA TextAt == ASSUME NEW t \in Nat PROVE Text[t] = Tok(t)
BY DEF Text

LEMMA Speaking ==
    ASSUME Quiet, NEW e, NEW k, Fail(e, k)
    PROVE  FALSE
<1>1. errors' = Append(errors, pos + e) /\ errors = <<>> /\ errors' = <<>>
  BY DEF Quiet, Fail
<1> QED BY <1>1

LEMMA GivingUp ==
    ASSUME Quiet, NEW k, NEW words, GiveUp(k, words)
    PROVE  FALSE
BY Speaking DEF GiveUp

LEMMA Flawed ==
    ASSUME Quiet, NEW kind, NEW at, NEW kids, NEW k, NEW e, ReturnFlawed(kind, at, kids, k, e)
    PROVE  FALSE
<1>1. errors' = Append(errors, pos + e) /\ errors = <<>> /\ errors' = <<>>
  BY DEF Quiet, ReturnFlawed
<1> QED BY <1>1

(* What a quiet step finds.                                                *)
LEMMA KnownKids ==
    ASSUME NEW h, NEW kids, NEW lo, NEW hi, NEW seam, InOrder(h, kids, lo, hi, seam)
    PROVE  Known(h, kids)
BY DEF InOrder, Placed, Known

LEMMA QuietHere ==
    ASSUME Quiet, stack # <<>>
    PROVE  /\ heap \in Heaps /\ stack \in Stacks /\ pos \in Nat /\ Top = stack[Len(stack)]
           /\ Top \in Frames(Labels) /\ Top.lo \in Nat /\ Top.at \in Nat /\ Top.prec \in Nat
           /\ Top.kids \in Seq(Nat) /\ Top.lo <= pos
           /\ Known(heap, Top.kids) /\ AllKnown(heap, stack)
           /\ \A n \in DOMAIN heap : Known(heap, heap[n].kids) /\ NodeTaken(Text, heap, heap[n])
           /\ StackTaken(Text, heap, pos, stack, ret)
           /\ HeadKnown(Text, Top) /\ Opened(pos, Top)
           /\ TopTaken(Text, heap, pos, Top, ret)
<1>1. IInv /\ OrderInv /\ WordsInv /\ errors = <<>>
  BY DEF Quiet
<1>2. /\ heap \in Heaps /\ stack \in Stacks /\ pos \in Nat /\ Top = stack[Len(stack)]
      /\ Len(stack) \in DOMAIN stack
  BY <1>1, TypesHere, Lengths
<1>3. /\ Top \in Frames(Labels) /\ Top.lo \in Nat /\ Top.kids \in Seq(Nat) /\ Top.lo <= pos
      /\ Known(heap, Top.kids)
  BY <1>1, OrderHere, KnownKids
<1>4. Top.at \in Nat /\ Top.prec \in Nat
  BY <1>3 DEF Frames
<1>5. AllKnown(heap, stack)
  BY <1>1, KnownKids DEF AllKnown, OrderInv, FramesOrder, StackOrder, FrameOrder
<1>6. \A n \in DOMAIN heap : Known(heap, heap[n].kids)
  BY <1>1, KnownKids DEF OrderInv, NodesOrder, NodeOrder
<1>7. /\ \A n \in DOMAIN heap : NodeTaken(Text, heap, heap[n])
      /\ StackTaken(Text, heap, pos, stack, ret)
  BY <1>1 DEF WordsInv
<1>8. HeadKnown(Text, Top) /\ Opened(pos, Top) /\ TopTaken(Text, heap, pos, Top, ret)
  BY <1>2, <1>7 DEF StackTaken
<1> QED BY <1>2, <1>3, <1>4, <1>5, <1>6, <1>7, <1>8

LEMMA QuietResult ==
    ASSUME Quiet, stack # <<>>, Top.pc \in AwaitsResult
    PROVE  /\ ret \in DOMAIN heap /\ ret \in Nat /\ ret # NIL /\ ret = Len(heap)
           /\ Top.lo <= heap[ret].lo /\ heap[ret].hi <= pos
           /\ GotIfAny = Got /\ Got \in Seq(Nat)
<1>1. ret \in Nat /\ ret \in DOMAIN heap
  BY ResultHere DEF Quiet, IInv, MachineInv, RetOK, NoValue, Panicked
<1>2. ret # NIL
  BY <1>1, TypesHere, NodeType DEF Quiet, NIL
<1>3. /\ ret = Len(heap) /\ Top.lo <= heap[ret].lo /\ heap[ret].hi <= pos
  BY <1>2, ResultHere DEF Quiet, Placed
<1>4. Got \in Seq(Nat)
  BY <1>1, QuietHere DEF Got
<1> QED BY <1>1, <1>2, <1>3, <1>4 DEF GotIfAny

(* The tokens that stand for an operand of the call, and operands that     *)
(* stand for them all.                                                     *)
Claimed(t) == \/ InOperand(heap, Top.kids, t)
              \/ Top.pc \in AwaitsResult /\ t \in SpanIn(heap, ret)
Carries(kids) ==
    /\ kids \in Seq(Nat) /\ Known(heap, kids)
    /\ \A t \in Nat : Claimed(t) => InOperand(heap, kids, t)

LEMMA Longer ==
    ASSUME NEW kids \in Seq(Nat), NEW v \in Nat
    PROVE  /\ DOMAIN Append(kids, v) = DOMAIN kids \cup {Len(kids) + 1}
           /\ \A j \in DOMAIN kids : j \in DOMAIN Append(kids, v) /\ Append(kids, v)[j] = kids[j]
           /\ Len(kids) + 1 \in DOMAIN Append(kids, v) /\ Append(kids, v)[Len(kids) + 1] = v
OBVIOUS

LEMMA CarriesGot ==
    ASSUME Quiet, NEW from \in AwaitsResult, At(from)
    PROVE  Carries(Got) /\ Carries(GotIfAny)
<1>1. stack # <<>> /\ Top.pc \in AwaitsResult
  BY DEF At
<1>2. /\ Got \in Seq(Nat) /\ GotIfAny = Got /\ ret \in Nat /\ Top.kids \in Seq(Nat)
      /\ ret \in DOMAIN heap /\ Known(heap, Top.kids)
  BY <1>1, QuietHere, QuietResult
<1>3. /\ \A j \in DOMAIN Top.kids : j \in DOMAIN Got /\ Got[j] = Top.kids[j]
      /\ Len(Top.kids) + 1 \in DOMAIN Got /\ Got[Len(Top.kids) + 1] = ret
      /\ DOMAIN Got = DOMAIN Top.kids \cup {Len(Top.kids) + 1}
  BY <1>2, Longer DEF Got
<1>4. ASSUME NEW t \in Nat, Claimed(t) PROVE InOperand(heap, Got, t)
  BY <1>3, <1>4 DEF Claimed, InOperand
<1>5. Known(heap, Got)
  BY <1>2, <1>3 DEF Known
<1> QED BY <1>2, <1>4, <1>5 DEF Carries

LEMMA CarriesKids ==
    ASSUME Quiet, NEW from, At(from), from \notin AwaitsResult
    PROVE  Carries(Top.kids)
BY QuietHere DEF Carries, Claimed, At

LEMMA CarriesNothing ==
    ASSUME Quiet, NEW from \in Openings, At(from)
    PROVE  /\ Carries(<<>>) /\ Top.kids = <<>> /\ Top.at = pos /\ Top.lo = pos
<1>1. stack # <<>> /\ Top.pc \in Openings /\ Top.pc \notin AwaitsResult
  BY DEF At, Openings, Functions
<1>2. Top.kids = <<>> /\ Top.at = pos /\ Top.lo = pos
  BY <1>1, QuietHere DEF Opened
<1>3. <<>> \in Seq(Nat) /\ Known(heap, <<>>)
  BY DEF Known
<1> QED BY <1>1, <1>2, <1>3 DEF Carries, Claimed

(* From one point to another of a function, and the tokens read meanwhile. *)
Turn(from, pc) ==
    /\ \/ pc \in LoosePoints
       \/ /\ from \notin LoosePoints \cup NamePoints /\ pc \notin Unmarked
          /\ Words(from) \subseteq Words(pc)
    /\ pc \in GroupPoints => from \in GroupPoints
    /\ pc \notin {"parseAtTimeZoneExpression", "parseNotInfixExpression", "parseExpression.Left"}
Unseen(from) == IF from \in Unread THEN pos ELSE pos + 1
Passed(from, pc, k) ==
    \A t \in Unseen(from)..(pos + k - 1) :
        Tok(t) \in Words(pc) \/ (pc \in NamePoints /\ t = Top.at + 1)

LEMMA ReadOn ==
    ASSUME Quiet, NEW from, At(from), NEW pc, Turn(from, pc), NEW k \in Nat,
           NEW kids, Carries(kids) \/ pc \in LoosePoints,
           Passed(from, pc, k) \/ pc \in LoosePoints,
           NEW prec
    PROVE  AllTaken(Text, heap, Frame(pc, prec, Top.at, Top.lo, kids), pos + k - 1)
<1> DEFINE f == Frame(pc, prec, Top.at, Top.lo, kids)
<1>1. f.pc = pc /\ f.at = Top.at /\ f.lo = Top.lo /\ f.kids = kids
  BY DEF Frame
<1>2. stack # <<>> /\ Top.pc = from /\ pos \in Nat /\ Top.lo \in Nat /\ Top.at \in Nat
  BY QuietHere DEF At
<1> HIDE DEF f
<1> SUFFICES ASSUME NEW t \in f.lo..(pos + k - 1) PROVE Taken(Text, heap, f, t)
  BY DEF AllTaken, f
<1>3. CASE pc \in LoosePoints
  BY <1>1, <1>3 DEF Taken
<1>4. CASE pc \notin LoosePoints /\ t \in Unseen(from)..(pos + k - 1)
  <2>1. t \in Nat /\ Text[t] = Tok(t)
    BY <1>1, <1>2, TextAt
  <2>2. Tok(t) \in Words(pc) \/ (pc \in NamePoints /\ t = Top.at + 1)
    BY <1>4 DEF Passed
  <2> QED BY <1>1, <2>1, <2>2 DEF Taken
<1>5. CASE pc \notin LoosePoints /\ t \notin Unseen(from)..(pos + k - 1)
  <2>1. /\ from \notin LoosePoints \cup NamePoints /\ pc \notin Unmarked
        /\ Words(from) \subseteq Words(pc) /\ Carries(kids)
    BY <1>5 DEF Turn
  <2>2. t \in Top.lo..(IF from \in Unread THEN pos - 1 ELSE pos) /\ t \in Nat
    BY <1>1, <1>2, <1>5 DEF Unseen
  <2>3. Taken(Text, heap, Top, t) \/ (from \in AwaitsResult /\ t \in SpanIn(heap, ret))
    BY <1>2, <2>2, QuietHere DEF TopTaken
  <2>4. CASE Claimed(t)
    BY <1>1, <2>1, <2>2, <2>4 DEF Carries, Taken
  <2>5. CASE ~ Claimed(t)
    <3>1. Text[t] \in Words(from) \cup {"AT"} \/ t = Top.at
      BY <1>2, <2>1, <2>3, <2>5 DEF Claimed, Taken
    <3> QED BY <1>1, <2>1, <3>1 DEF Taken
  <2> QED BY <2>4, <2>5
<1> QED BY <1>3, <1>4, <1>5
-----------------------------------------------------------------------------
(* The moves, one after the other.                                         *)
LEMMA StillTaken ==
    ASSUME input' = input, \A n \in DOMAIN heap' : NodeTaken(Text, heap', heap'[n]),
           StackTaken(Text, heap', pos', stack', ret')
    PROVE  WordsInv'
BY SameText DEF WordsInv

LEMMA HeadMeets ==
    ASSUME Quiet, NEW from, At(from), NEW pc, Turn(from, pc), NEW prec, NEW kids,
           pc = "parseGroupedExpression.Exp" => kids = <<>>
    PROVE  HeadKnown(Text, Frame(pc, prec, Top.at, Top.lo, kids))
<1>1. HeadKnown(Text, Top) /\ Top.pc = from
  BY QuietHere DEF At
<1>2. /\ pc \in GroupPoints => from \in GroupPoints
      /\ pc \notin {"parseAtTimeZoneExpression", "parseNotInfixExpression", "parseExpression.Left"}
  BY DEF Turn
<1>3. /\ Frame(pc, prec, Top.at, Top.lo, kids).pc = pc
      /\ Frame(pc, prec, Top.at, Top.lo, kids).at = Top.at
      /\ Frame(pc, prec, Top.at, Top.lo, kids).kids = kids
  BY DEF Frame
<1> QED BY <1>1, <1>2, <1>3 DEF HeadKnown

(* A call, from a frame that has taken notice of what is before it.        *)
LEMMA CallingTaken ==
    ASSUME Quiet, stack # <<>>, NEW k \in Nat, NEW pc \in Labels, NEW kids \in Seq(Nat),
           NEW fn \in Functions, NEW prec \in Nat,
           CallFrame(k, pc, kids, Frame(fn, prec, pos + k, pos + k, <<>>)),
           fn = "parseGroupedExpression" => Tok(pos + k) = "LPAREN",
           HeadKnown(Text, Frame(pc, Top.prec, Top.at, Top.lo, kids)),
           AllTaken(Text, heap, Frame(pc, Top.prec, Top.at, Top.lo, kids), pos + k - 1)
    PROVE  WordsInv'
<1> DEFINE f == Frame(pc, Top.prec, Top.at, Top.lo, kids)
           g == Frame(fn, prec, pos + k, pos + k, <<>>)
           q == pos + k
<1>1. /\ stack' = Append([stack EXCEPT ![Len(stack)] = f], g) /\ pos' = q
      /\ input' = input /\ heap' = heap /\ ret' = ret
  BY DEF CallFrame, Resume
<1>2. /\ f.lo = Top.lo
      /\ g.pc = fn /\ g.lo = q /\ g.at = q /\ g.kids = <<>>
  BY DEF Frame
<1>3. /\ heap \in Heaps /\ stack \in Stacks /\ pos \in Nat /\ Top = stack[Len(stack)]
      /\ StackTaken(Text, heap, pos, stack, ret)
      /\ \A n \in DOMAIN heap : NodeTaken(Text, heap, heap[n])
  BY QuietHere
<1>4. f \in Frames(Labels) /\ g \in Frames(Labels) /\ q \in Nat
  BY <1>3, QuietHere DEF Frame, Frames, Functions
<1>5. HeadKnown(Text, f) /\ AllTaken(Text, heap, f, g.lo - 1)
  <2>1. g.lo - 1 = pos + k - 1
    BY <1>2, <1>3
  <2>2. HeadKnown(Text, f) /\ AllTaken(Text, heap, f, pos + k - 1)
    OBVIOUS
  <2> HIDE DEF f, g, q
  <2> QED BY <2>1, <2>2
<1>6. HeadKnown(Text, g)
  <2>1. fn \notin {"parseAtTimeZoneExpression", "parseNotInfixExpression", "parseExpression.Left",
                   "parseGroupedExpression.Exp", "parseGroupedExpression.Subquery"}
    BY DEF Functions, InfixFns, AwaitsResult
  <2>2. fn = "parseGroupedExpression" => Text[q] = "LPAREN"
    BY <1>4, TextAt
  <2> HIDE DEF g, q
  <2> QED BY <1>2, <2>1, <2>2 DEF HeadKnown, GroupPoints
<1> HIDE DEF f, g, q
<1>7. Opened(q, g)
  <2>1. fn \notin InfixFns
    BY DEF Functions
  <2> QED BY <1>2, <2>1 DEF Opened
<1>8. TopTaken(Text, heap, q, g, ret)
  <2>1. fn \notin Unmarked \/ fn \in Unread
    BY DEF Functions, AwaitsResult, Unmarked, Unread, Exprs
  <2>2. CASE fn \in Unread
    BY <1>2, <1>4, <2>2 DEF TopTaken
  <2>3. CASE fn \notin Unread
    <3>1. ASSUME NEW t \in q..q PROVE Taken(Text, heap, g, t)
      <4>1. t = q
        BY <1>4
      <4> QED BY <1>2, <2>1, <2>3, <4>1 DEF Taken
    <3> QED BY <1>2, <2>3, <3>1 DEF TopTaken
  <2> QED BY <2>2, <2>3
<1>9. StackTaken(Text, heap, q, stack', ret)
  BY <1>1, <1>2, <1>3, <1>4, <1>5, <1>6, <1>7, <1>8, CallTakes
<1> QED BY <1>1, <1>3, <1>9, StillTaken

LEMMA WordsCall ==
    ASSUME Quiet, NEW from, At(from), NEW k \in Nat, NEW pc, NEW fn, Link(from, k, pc, fn),
           Turn(from, pc), NEW kids \in Seq(Nat), Carries(kids) \/ pc \in LoosePoints,
           pc = "parseGroupedExpression.Exp" => kids = <<>>,
           Passed(from, pc, k) \/ pc \in LoosePoints, fn # "parseGroupedExpression",
           \/ Call(k, pc, kids, fn)
           \/ fn = "parseExpression" /\ CallExpression(k, pc, kids, LOWEST)
    PROVE  WordsInv'
<1>1. pc \in Labels /\ fn \in Functions /\ stack # <<>>
  BY DEF Link, Labels, At
<1>2. PICK prec \in Nat : CallFrame(k, pc, kids, Frame(fn, prec, pos + k, pos + k, <<>>))
  <2>1. 0 \in Nat /\ LOWEST \in Nat
    BY DEF LOWEST
  <2> QED BY <2>1 DEF Call, CallExpression
<1> QED BY <1>1, <1>2, HeadMeets, ReadOn, CallingTaken

LEMMA WordsCallAbove ==
    ASSUME Quiet, NEW from, At(from), NEW k \in Nat, NEW pc, Link(from, k, pc, "parseExpression"),
           Turn(from, pc), NEW kids, Carries(kids), Passed(from, pc, k), NEW prec \in Nat,
           pc # "parseGroupedExpression.Exp", CallExpression(k, pc, kids, prec)
    PROVE  WordsInv'
<1>1. pc \in Labels /\ "parseExpression" \in Functions /\ stack # <<>> /\ kids \in Seq(Nat)
  BY DEF Link, Labels, At, Carries
<1>2. CallFrame(k, pc, kids, Frame("parseExpression", prec, pos + k, pos + k, <<>>))
  BY DEF CallExpression
<1> QED BY <1>1, <1>2, HeadMeets, ReadOn, CallingTaken

(* Going on in the same function.                                          *)
LEMMA WordsGo ==
    ASSUME Quiet, NEW from, At(from), NEW k \in Nat, NEW pc, Way(from, k, pc),
           pc \notin Openings, Turn(from, pc),
           NEW kids \in Seq(Nat), Carries(kids) \/ pc \in LoosePoints,
           Passed(from, pc, IF pc \in Unread THEN k ELSE k + 1) \/ pc \in LoosePoints,
           Continue(k, pc, kids)
    PROVE  WordsInv'
<1> DEFINE f == Frame(pc, Top.prec, Top.at, Top.lo, kids)
           q == pos + k
<1>1. /\ stack' = [stack EXCEPT ![Len(stack)] = f] /\ pos' = q
      /\ input' = input /\ heap' = heap /\ ret' = ret /\ stack # <<>>
  BY DEF Continue, Resume, At
<1>2. f.lo = Top.lo /\ f.pc = pc /\ f.kids = kids
  BY DEF Frame
<1>3. /\ heap \in Heaps /\ stack \in Stacks /\ pos \in Nat /\ Top = stack[Len(stack)]
      /\ StackTaken(Text, heap, pos, stack, ret) /\ AllKnown(heap, stack)
      /\ \A n \in DOMAIN heap : NodeTaken(Text, heap, heap[n])
  BY <1>1, QuietHere
<1>4. pc \in Labels /\ pc \notin InfixFns /\ pc # "parseGroupedExpression.Exp"
  BY DEF Way, Functions, AwaitsResult
<1>5. f \in Frames(Labels) /\ q \in Nat
  BY <1>1, <1>3, <1>4, QuietHere DEF Frame, Frames
<1>6. HeadKnown(Text, f)
  BY <1>4, HeadMeets
<1>7. /\ pc \in Unread => AllTaken(Text, heap, f, q - 1)
      /\ pc \notin Unread => AllTaken(Text, heap, f, q)
  <2>1. CASE pc \in Unread
    <3>1. Passed(from, pc, k) \/ pc \in LoosePoints
      BY <2>1
    <3>2. AllTaken(Text, heap, f, pos + k - 1)
      BY <3>1, ReadOn
    <3>3. pos + k - 1 = q - 1
      BY <1>3
    <3> HIDE DEF f, q
    <3> QED BY <2>1, <3>2, <3>3
  <2>2. CASE pc \notin Unread
    <3> DEFINE l == k + 1
    <3>4. l \in Nat /\ (Passed(from, pc, l) \/ pc \in LoosePoints)
      BY <2>2
    <3> HIDE DEF l
    <3>3. AllTaken(Text, heap, f, pos + l - 1)
      BY <3>4, ReadOn
    <3> USE DEF l
    <3>1. AllTaken(Text, heap, f, pos + (k + 1) - 1)
      BY <3>3
    <3> HIDE DEF f
    <3>2. pos + (k + 1) - 1 = q
      BY <1>3
    <3> QED BY <2>2, <3>1, <3>2
  <2> QED BY <2>1, <2>2
<1> HIDE DEF f, q
<1>8. Opened(q, f) /\ TopTaken(Text, heap, q, f, ret)
  BY <1>2, <1>4, <1>7 DEF Opened, TopTaken, AllTaken
<1>9. StackTaken(Text, heap, q, stack', ret)
  BY <1>1, <1>2, <1>3, <1>5, <1>6, <1>8, GrowsItself, ReplaceTakes
<1> QED BY <1>1, <1>3, <1>9, StillTaken
-----------------------------------------------------------------------------
(* Returning.                                                              *)
LEMMA AllAwait ==
    ASSUME Quiet, stack # <<>>
    PROVE  \A i \in 1..(Len(stack) - 1) : stack[i].pc \in AwaitsResult
<1> SUFFICES ASSUME NEW i \in 1..(Len(stack) - 1) PROVE stack[i].pc \in AwaitsResult
  OBVIOUS
<1>1. i \in DOMAIN stack /\ Len(stack) \in DOMAIN stack /\ i < Len(stack)
  BY QuietHere, Lengths
<1>2. Below(heap, FramePlaces, stack[i], stack[Len(stack)])
  BY <1>1 DEF Quiet, OrderInv, FramesOrder, StackOrder
<1> QED BY <1>2 DEF Below

LEMMA NextHeap == ASSUME Quiet PROVE heap' \in Heaps
BY DEF Quiet, IInv, MachineInv, MachineTypeOK, Heaps

LEMMA ReturningTaken ==
    ASSUME Quiet, stack # <<>>, Pop, input' = input, NEW q \in Nat, pos' = q,
           Grows(heap, heap'), \A n \in DOMAIN heap' : NodeTaken(Text, heap', heap'[n]),
           Covers(Text, heap', ret', Top.lo, q)
    PROVE  WordsInv'
<1>1. stack' = Popped(stack)
  BY DEF Pop, Popped
<1>2. /\ heap \in Heaps /\ stack \in Stacks /\ Top = stack[Len(stack)] /\ heap' \in Heaps
      /\ StackTaken(Text, heap, pos, stack, ret) /\ AllKnown(heap, stack)
  BY QuietHere, NextHeap
<1>3. StackTaken(Text, heap', q, Popped(stack), ret')
  BY <1>2, AllAwait, ReturnTakes
<1> QED BY <1>1, <1>3, StillTaken

LEMMA BuildingTaken ==
    ASSUME Quiet, stack # <<>>, NEW kind, NEW at, NEW kids, NEW hi \in Nat, NEW k \in Nat,
           BuildTo(kind, at, kids, hi, k), hi = pos + k \/ (kind = "Over" /\ hi = pos + k - 1),
           \/ kind \in Loose
           \/ /\ Known(heap, kids)
              /\ \A t \in Top.lo..hi : Stands(Text, heap, Node(kind, at, kids, hi), t)
    PROVE  WordsInv'
<1> DEFINE node == Node(kind, at, kids, hi)
           q    == pos + k
           r    == Len(heap) + 1
<1>1. heap' = Append(heap, node) /\ ret' = r /\ pos' = q /\ Pop /\ input' = input
  BY DEF BuildTo
<1>2. node.lo = Top.lo /\ node.hi = hi /\ node.kids = kids /\ node.kind = kind
  BY DEF Node
<1>3. /\ heap \in Heaps /\ heap' \in Heaps /\ pos \in Nat /\ q \in Nat /\ Top.lo \in Nat
      /\ \A n \in DOMAIN heap : Known(heap, heap[n].kids) /\ NodeTaken(Text, heap, heap[n])
  BY QuietHere, NextHeap
<1>4. kind \in Loose \/ (Known(heap, kids) /\ \A t \in Top.lo..hi : Stands(Text, heap, node, t))
  OBVIOUS
<1>11. Reach(node) >= q /\ Reach(node) \in Nat
  <2>1. hi = pos + k \/ (kind = "Over" /\ hi = pos + k - 1)
    OBVIOUS
  <2> HIDE DEF node
  <2> QED BY <1>2, <1>3, <2>1 DEF Reach
<1> HIDE DEF node, q
<1>5. /\ DOMAIN heap' = DOMAIN heap \cup {r} /\ heap'[r] = node
      /\ \A n \in DOMAIN heap : n \in DOMAIN heap' /\ heap'[n] = heap[n]
  BY <1>1, <1>3 DEF Heaps
<1>6. Grows(heap, heap')
  BY <1>3, <1>5, NodeType DEF Grows
<1>7. \A n \in DOMAIN heap : NodeTaken(Text, heap', heap'[n])
  BY <1>3, <1>5, <1>6, NodeGrows
<1>8. NodeTaken(Text, heap', node)
  <2>1. NodeTaken(Text, heap, node) /\ (kind \in Loose \/ Known(heap, node.kids))
    BY <1>2, <1>4 DEF NodeTaken
  <2>2. CASE kind \in Loose
    BY <1>2, <2>2 DEF NodeTaken
  <2>3. CASE Known(heap, node.kids)
    BY <1>3, <1>6, <2>1, <2>3, NodeGrows
  <2> QED BY <2>1, <2>2, <2>3
<1>9. Covers(Text, heap', r, Top.lo, q)
  <2>1. r # NIL
    BY <1>3 DEF Heaps, NIL
  <2> QED BY <1>2, <1>3, <1>5, <1>11, <2>1 DEF Covers, SpanIn
<1> HIDE DEF r
<1>10. \A n \in DOMAIN heap' : NodeTaken(Text, heap', heap'[n])
  BY <1>5, <1>7, <1>8
<1> QED BY <1>1, <1>3, <1>6, <1>9, <1>10, ReturningTaken

LEMMA LooseReturn ==
    ASSUME Quiet, NEW from, At(from), NEW kind \in Loose, NEW at, NEW kids, NEW k \in Nat,
           ReturnNew(kind, at, kids, k)
    PROVE  WordsInv'
<1>1. pos + k \in Nat /\ BuildTo(kind, at, kids, pos + k, k) /\ stack # <<>>
  BY QuietHere DEF ReturnNew, Build, At
<1> QED BY <1>1, BuildingTaken

LEMMA OverReturn ==
    ASSUME Quiet, NEW from, At(from), NEW at, NEW kids, NEW k \in Nat \ {0},
           ReturnPassing("Over", at, kids, k)
    PROVE  WordsInv'
<1>1. stack # <<>> /\ BuildTo("Over", at, kids, pos + k - 1, k) /\ "Over" \in Loose
  BY DEF ReturnPassing, At, Loose
<1>2. pos + k - 1 \in Nat
  BY <1>1, QuietHere
<1> QED BY <1>1, <1>2, BuildingTaken

(* Nothing is asked of the calls that a panic ends.                        *)
LEMMA NoCallsTaken == ASSUME stack' = <<>>, NEW h, NEW p, NEW r PROVE StackTaken(Text, h, p, stack', r)
BY DEF StackTaken, CallersTaken

(* What stands behind the last operand.                                    *)
Ends(from, kind, at, k) ==
    \A t \in Unseen(from)..(pos + k) :
        Tok(t) \in Layout(kind) \/ t = at \/ (kind \in NamedKinds /\ t = at + 1)

LEMMA WordsReturn ==
    ASSUME Quiet, NEW from, At(from), from \notin LoosePoints,
           NEW kind, NEW at, NEW kids, Carries(kids), NEW k \in Nat,
           Words(from) \subseteq Layout(kind),
           from \in Unmarked \/ at = Top.at \/ Tok(Top.at) \in Layout(kind),
           from \in NamePoints => kind \in NamedKinds /\ at = Top.at,
           Ends(from, kind, at, k), ReturnNew(kind, at, kids, k)
    PROVE  WordsInv'
<1> DEFINE node == Node(kind, at, kids, pos + k)
<1>1. node.kind = kind /\ node.at = at /\ node.kids = kids
  BY DEF Node
<1>2. stack # <<>> /\ Top.pc = from /\ pos \in Nat /\ Top.lo \in Nat /\ Top.at \in Nat
  BY QuietHere DEF At
<1> HIDE DEF node
<1>3. ASSUME NEW t \in Top.lo..(pos + k) PROVE Stands(Text, heap, node, t)
  <2>1. t \in Nat /\ Text[t] = Tok(t) /\ Text[Top.at] = Tok(Top.at)
    BY <1>2, TextAt
  <2>2. CASE t \in Unseen(from)..(pos + k)
    BY <1>1, <2>1, <2>2 DEF Ends, Stands
  <2>3. CASE t \notin Unseen(from)..(pos + k)
    <3>1. t \in Top.lo..(IF from \in Unread THEN pos - 1 ELSE pos)
      BY <1>2, <2>1, <2>3 DEF Unseen
    <3>2. Taken(Text, heap, Top, t) \/ (from \in AwaitsResult /\ t \in SpanIn(heap, ret))
      BY <1>2, <3>1, QuietHere DEF TopTaken
    <3>3. CASE Claimed(t)
      BY <1>1, <2>1, <3>3 DEF Carries, Stands
    <3>4. CASE ~ Claimed(t)
      <4>1. \/ Text[t] \in Words(from) \cup {"AT"}
            \/ from \notin Unmarked /\ t = Top.at
            \/ from \in NamePoints /\ t = Top.at + 1
        BY <1>2, <3>2, <3>4 DEF Claimed, Taken
      <4> QED BY <1>1, <2>1, <4>1 DEF Stands
    <3> QED BY <3>3, <3>4
  <2> QED BY <2>2, <2>3
<1>4. BuildTo(kind, at, kids, pos + k, k) /\ Known(heap, kids) /\ pos + k \in Nat
  BY <1>2 DEF ReturnNew, Build, Carries
<1> QED BY <1>2, <1>3, <1>4, BuildingTaken DEF node
-----------------------------------------------------------------------------
(* The moves of their own.                                                 *)
LEMMA InfixWords ==
    \A t : /\ InfixFn(t) = "parseAtTimeZoneExpression" => t = "AT"
           /\ InfixFn(t) = "parseNotInfixExpression" => t = "NOT"
           /\ InfixFn(t) \in InfixFns \cup {"nil"}
<1>1. \A t : InfixFn(t) = "parseAtTimeZoneExpression" => t = "AT"
  BY DEF InfixFn
<1>2. \A t : InfixFn(t) = "parseNotInfixExpression" => t = "NOT"
  BY DEF InfixFn
<1>3. \A t : InfixFn(t) \in InfixFns \cup {"nil"}
  BY DEF InfixFn, InfixFns
<1> QED BY <1>1, <1>2, <1>3

LEMMA PlainLeft == Words("parseExpression.Left") = {} /\ Words("parseAtTimeZoneExpression") = {}
                   /\ Words("parseGroupedExpression.Exp") = {} /\ Words("parseNotInfixExpression") = {}
BY DEF Words

(* All an expression has read so far is in what has been returned to it.   *)
LEMMA LeftTaken ==
    ASSUME Quiet, At("parseExpression.Left"), NEW t \in Top.lo..pos
    PROVE  Text[t] = "AT" \/ t \in SpanIn(heap, ret)
<1>1. Top.kids = <<>> /\ Top.pc = "parseExpression.Left" /\ stack # <<>>
  BY QuietHere DEF At, HeadKnown
<1>2. Taken(Text, heap, Top, t) \/ t \in SpanIn(heap, ret)
  <2>1. Top.pc \notin Unread
    BY <1>1 DEF Unread
  <2> QED BY <1>1, <2>1, QuietHere DEF TopTaken
<1>3. ~ InOperand(heap, Top.kids, t)
  BY <1>1 DEF InOperand
<1> QED BY <1>1, <1>2, <1>3, PlainLeft DEF Taken, LoosePoints, Unmarked, Exprs, NamePoints

LEMMA LeftReturns == ASSUME Quiet, LeftMove PROVE WordsInv'
<1>1. At("parseExpression.Left") /\ stack # <<>> /\ Top.pc \in AwaitsResult
  BY DEF LeftMove, At, AwaitsResult
<1>2. Pop /\ ret' = ret /\ UNCHANGED <<input, pos, heap>>
  BY DEF LeftMove, Return
<1>3. Covers(Text, heap, ret, Top.lo, pos)
  BY <1>1, LeftTaken DEF Covers
<1>4. /\ Grows(heap, heap) /\ pos \in Nat
      /\ \A n \in DOMAIN heap : NodeTaken(Text, heap, heap[n])
  BY <1>1, QuietHere, GrowsItself
<1> QED BY <1>1, <1>2, <1>3, <1>4, ReturningTaken

LEMMA InfixTakes == ASSUME Quiet, InfixMove PROVE WordsInv'
<1> DEFINE fn == InfixFn(Peek)
           f  == Frame("parseExpression.Left", Top.prec, Top.at, Top.lo, <<>>)
           g  == Frame(fn, 0, pos + 1, Top.lo, <<ret>>)
           q  == pos + 1
<1>1. At("parseExpression.Left") /\ stack # <<>> /\ Top.pc \in AwaitsResult
  BY DEF InfixMove, At, AwaitsResult
<1>2. /\ stack' = Append([stack EXCEPT ![Len(stack)] = f], g) /\ pos' = q
      /\ input' = input /\ heap' = heap /\ ret' = ret /\ fn # "nil"
  BY DEF InfixMove, CallFrame, Resume
<1>3. /\ f.lo = Top.lo /\ f.pc = "parseExpression.Left" /\ f.kids = <<>>
      /\ g.pc = fn /\ g.lo = Top.lo /\ g.at = q /\ g.kids = <<ret>>
  BY DEF Frame
<1>4. /\ heap \in Heaps /\ stack \in Stacks /\ pos \in Nat /\ Top = stack[Len(stack)] /\ q \in Nat
      /\ StackTaken(Text, heap, pos, stack, ret) /\ ret \in Nat /\ Top.lo \in Nat
      /\ \A n \in DOMAIN heap : NodeTaken(Text, heap, heap[n])
  BY <1>1, QuietHere, QuietResult
<1>5. fn \in InfixFns /\ (fn = "parseAtTimeZoneExpression" => Text[q] = "AT")
      /\ (fn = "parseNotInfixExpression" => Text[q] = "NOT")
  BY <1>2, <1>4, InfixWords, TextAt DEF Peek
<1>6. f \in Frames(Labels) /\ g \in Frames(Labels)
  <2>1. fn \in Labels /\ "parseExpression.Left" \in Labels /\ <<ret>> \in Seq(Nat)
    BY <1>4, <1>5 DEF InfixFns, Labels, AwaitsResult
  <2> QED BY <1>1, <1>4, <2>1, QuietHere DEF Frame, Frames
<1> HIDE DEF fn, f, g, q
<1>7. HeadKnown(Text, f)
  BY <1>3 DEF HeadKnown, GroupPoints
<1>8. HeadKnown(Text, g)
  BY <1>3, <1>5 DEF HeadKnown, GroupPoints, InfixFns
<1>9. AllTaken(Text, heap, f, g.lo - 1)
  BY <1>3, <1>4 DEF AllTaken
<1>10. Opened(q, g)
  BY <1>3, <1>5 DEF Opened, Openings, Functions
<1>11. TopTaken(Text, heap, q, g, ret)
  <2>1. fn \notin Unread /\ fn \notin Unmarked
    BY <1>5 DEF InfixFns, Unread, Unmarked, Exprs
  <2>2. ASSUME NEW t \in Top.lo..q PROVE Taken(Text, heap, g, t)
    <3>1. CASE t = q
      BY <1>3, <2>1, <3>1 DEF Taken
    <3>2. CASE t # q
      <4>1. t \in Top.lo..pos
        BY <1>4, <3>2 DEF q
      <4>2. Text[t] = "AT" \/ t \in SpanIn(heap, ret)
        BY <1>1, <4>1, LeftTaken
      <4>3. 1 \in DOMAIN <<ret>> /\ <<ret>>[1] = ret
        OBVIOUS
      <4> QED BY <1>3, <4>2, <4>3 DEF Taken, InOperand
    <3> QED BY <3>1, <3>2
  <2> QED BY <1>3, <2>1, <2>2 DEF TopTaken
<1>12. StackTaken(Text, heap, q, stack', ret)
  BY <1>1, <1>2, <1>3, <1>4, <1>6, <1>7, <1>8, <1>9, <1>10, <1>11, CallTakes
<1> QED BY <1>2, <1>4, <1>12, StillTaken

(* Without TIME the operand of AT is what is returned.                     *)
LEMMA AtReturns == ASSUME Quiet, AtMove PROVE WordsInv'
<1> DEFINE v == Top.kids[1]
<1>1. At("parseAtTimeZoneExpression") /\ stack # <<>> /\ Top.pc = "parseAtTimeZoneExpression"
  BY DEF AtMove, At
<1>2. Pop /\ ret' = v /\ UNCHANGED <<input, pos, heap>>
  BY DEF AtMove, Return
<1>3. Len(Top.kids) = 1 /\ Top.kids \in Seq(Nat) /\ pos \in Nat /\ Top.lo \in Nat /\ heap \in Heaps
  BY <1>1, QuietHere DEF Quiet, OrderInv, LeftOrder
<1>4. DOMAIN Top.kids = {1}
  BY <1>3
<1>5. Text[Top.at] = "AT" /\ Top.at = pos
  BY <1>1, QuietHere DEF HeadKnown, Opened, InfixFns
<1>6. v # NIL /\ v \in DOMAIN heap /\ heap[v].hi <= pos
  <2>1. FramesOK /\ errors = <<>> /\ Len(stack) \in DOMAIN stack
    BY <1>1, QuietHere, Lengths DEF Quiet, IInv, MachineInv
  <2>2. v \in DOMAIN heap
    BY <1>4, <2>1, QuietHere DEF FramesOK, Operands
  <2>3. v # NIL
    BY <1>3, <2>2, NodeType DEF NIL
  <2>4. Placed(heap, v, Top.lo, pos)
    BY <1>1, <1>4, OrderHere DEF Quiet, InOrder
  <2> QED BY <2>2, <2>3, <2>4 DEF Placed
<1> HIDE DEF v
<1>7. Covers(Text, heap, v, Top.lo, pos)
  <2>1. SUFFICES ASSUME NEW t \in Top.lo..pos PROVE Text[t] = "AT" \/ t \in SpanIn(heap, v)
    BY DEF Covers
  <2>2. Taken(Text, heap, Top, t)
    <3>1. Top.pc \notin Unread /\ Top.pc \notin AwaitsResult
      BY <1>1 DEF Unread, AwaitsResult
    <3> QED BY <1>1, <2>1, <3>1, QuietHere DEF TopTaken
  <2>3. CASE InOperand(heap, Top.kids, t)
    BY <1>4, <2>3 DEF InOperand, v
  <2>4. CASE ~ InOperand(heap, Top.kids, t)
    <3>1. Top.pc \notin LoosePoints \cup NamePoints
      BY <1>1 DEF LoosePoints, NamePoints
    <3> QED BY <1>1, <1>5, <2>2, <2>4, <3>1, PlainLeft DEF Taken
  <2> QED BY <2>3, <2>4
<1>8. /\ Grows(heap, heap)
      /\ \A n \in DOMAIN heap : NodeTaken(Text, heap, heap[n])
  BY <1>1, QuietHere, GrowsItself
<1> QED BY <1>1, <1>2, <1>3, <1>6, <1>7, <1>8, ReturningTaken
(* The node between the parentheses now has them in its text.              *)
LEMMA ParenReturns == ASSUME Quiet, ParenMove, Peek = "RPAREN" PROVE WordsInv'
<1> DEFINE node == InParentheses(heap[ret])
           q    == pos + 1
<1>1. /\ At("parseGroupedExpression.Exp") /\ stack # <<>> /\ Top.pc = "parseGroupedExpression.Exp"
      /\ Top.pc \in AwaitsResult
  BY DEF ParenMove, At, AwaitsResult
<1>2. /\ heap \in Heaps /\ heap' \in Heaps /\ pos \in Nat /\ q \in Nat /\ Top.lo \in Nat
      /\ \A n \in DOMAIN heap : Known(heap, heap[n].kids) /\ NodeTaken(Text, heap, heap[n])
  BY <1>1, QuietHere, NextHeap
<1>3. /\ ret \in DOMAIN heap /\ ret # NIL
      /\ Top.lo <= heap[ret].lo /\ heap[ret].hi <= pos
  BY <1>1, QuietResult
<1>4. /\ heap' = [heap EXCEPT ![ret] = node] /\ pos' = q /\ Pop /\ input' = input /\ ret' = ret
  BY <1>3 DEF ParenMove, DropParentheses
<1>5. /\ node.kind = heap[ret].kind /\ node.at = heap[ret].at /\ node.kids = heap[ret].kids
      /\ node.lo = Top.lo /\ node.hi = q /\ node.paren = TRUE
  BY DEF InParentheses
<1> HIDE DEF node
<1>6. /\ DOMAIN heap' = DOMAIN heap /\ heap'[ret] = node
      /\ \A n \in DOMAIN heap : n # ret => heap'[n] = heap[n]
  BY <1>2, <1>3, <1>4 DEF Heaps
<1>7. /\ heap[ret].lo \in Nat /\ heap[ret].hi \in Nat /\ heap[ret].hi <= q
      /\ \A n \in DOMAIN heap : heap[n].lo <= heap[n].lo /\ heap[n].hi <= heap[n].hi
  BY <1>2, <1>3, NodeType
<1>8. Grows(heap, heap')
  BY <1>3, <1>5, <1>6, <1>7 DEF Grows
<1>9. \A n \in DOMAIN heap : n # ret => NodeTaken(Text, heap', heap'[n])
  BY <1>2, <1>6, <1>8, NodeGrows
<1>10. NodeTaken(Text, heap', node)
  <2>1. CASE node.kind \in Loose
    BY <2>1 DEF NodeTaken
  <2>2. CASE node.kind \notin Loose
    <3>1. NodeTaken(Text, heap', heap[ret])
      BY <1>2, <1>3, <1>8, NodeGrows
    <3>2. ASSUME NEW t \in heap[ret].lo..heap[ret].hi PROVE Stands(Text, heap', node, t)
      <4>1. Stands(Text, heap', heap[ret], t)
        BY <1>5, <2>2, <3>1 DEF NodeTaken
      <4> QED BY <1>5, <4>1 DEF Stands
    <3>3. ASSUME NEW t \in Top.lo..q PROVE Stands(Text, heap', node, t)
      <4>1. CASE t = q
        <5>1. Text[t] = "RPAREN"
          BY <1>2, <4>1, TextAt DEF Peek
        <5> QED BY <1>5, <5>1 DEF Stands
      <4>2. CASE t # q /\ t \notin SpanIn(heap, ret)
        <5>1. t \in Top.lo..pos
          BY <1>2, <4>2
        <5>2. Taken(Text, heap, Top, t) /\ Top.kids = <<>> /\ Text[Top.at] = "LPAREN"
          BY <1>1, <4>2, <5>1, QuietHere DEF TopTaken, Unread, HeadKnown, GroupPoints
        <5>3. ~ InOperand(heap, Top.kids, t) /\ Top.pc \notin LoosePoints \cup NamePoints
          BY <1>1, <5>2 DEF InOperand, LoosePoints, NamePoints
        <5>4. Text[t] \in {"AT", "LPAREN"}
          BY <1>1, <5>2, <5>3, PlainLeft DEF Taken
        <5> QED BY <1>5, <5>4 DEF Stands
      <4>3. CASE t \in SpanIn(heap, ret)
        <5>1. Reach(heap[ret]) = heap[ret].hi
          BY <1>5, <2>2 DEF Reach, Loose
        <5> QED BY <1>3, <3>2, <4>3, <5>1 DEF SpanIn
      <4> QED BY <4>1, <4>2, <4>3
    <3> QED BY <1>5, <3>3 DEF NodeTaken
  <2> QED BY <2>1, <2>2
<1>11. Covers(Text, heap', ret, Top.lo, q)
  <2>1. Reach(node) >= q /\ Reach(node) \in Nat
    BY <1>2, <1>5 DEF Reach
  <2> QED BY <1>2, <1>3, <1>5, <1>6, <2>1 DEF Covers, SpanIn
<1>12. \A n \in DOMAIN heap' : NodeTaken(Text, heap', heap'[n])
  BY <1>6, <1>9, <1>10
<1> QED BY <1>1, <1>2, <1>4, <1>8, <1>11, <1>12, ReturningTaken

(* NOT is a word of what goes on.                                          *)
LEMMA NotTakes == ASSUME Quiet, NotMove PROVE WordsInv'
<1> DEFINE fn == InfixFn(Peek)
           f  == Frame(fn, Top.prec, pos + 1, Top.lo, Top.kids)
           q  == pos + 1
<1>1. /\ stack # <<>> /\ Top.pc = "parseNotInfixExpression"
      /\ stack' = [stack EXCEPT ![Len(stack)] = f] /\ pos' = q
      /\ input' = input /\ heap' = heap /\ ret' = ret
  BY DEF NotMove, TailCall, At
<1>2. f.pc = fn /\ f.at = q /\ f.lo = Top.lo /\ f.kids = Top.kids
  BY DEF Frame
<1>3. /\ heap \in Heaps /\ stack \in Stacks /\ pos \in Nat /\ Top = stack[Len(stack)] /\ q \in Nat
      /\ StackTaken(Text, heap, pos, stack, ret) /\ Top.lo \in Nat /\ AllKnown(heap, stack)
      /\ \A n \in DOMAIN heap : NodeTaken(Text, heap, heap[n])
  BY <1>1, QuietHere
<1>4. fn \in {"parseInExpression", "parseLikeExpression", "parseBetweenExpression"}
  BY DEF NotMove, InfixFn
<1>5. f \in Frames(Labels)
  <2>1. fn \in Labels
    BY <1>4 DEF Labels
  <2> QED BY <1>1, <1>3, <2>1, QuietHere DEF Frame, Frames
<1> HIDE DEF fn, f, q
<1>6. HeadKnown(Text, f) /\ Opened(q, f)
  BY <1>2, <1>4 DEF HeadKnown, GroupPoints, Opened, Openings, Functions, InfixFns
<1>7. TopTaken(Text, heap, q, f, ret)
  <2>1. fn \notin Unread /\ fn \notin Unmarked /\ "NOT" \in Words(fn)
    <3>1. fn \notin Unread /\ fn \notin Unmarked
      BY <1>4 DEF Unread, Unmarked, Exprs
    <3>2. CASE fn = "parseInExpression"
      BY <3>1, <3>2 DEF Words, Layout
    <3>3. CASE fn = "parseLikeExpression"
      BY <3>1, <3>3 DEF Words, Layout
    <3>4. CASE fn = "parseBetweenExpression"
      BY <3>1, <3>4 DEF Words, Layout
    <3> QED BY <1>4, <3>1, <3>2, <3>3, <3>4
  <2>2. Text[Top.at] = "NOT" /\ Top.pc \notin Unread /\ Top.pc \notin AwaitsResult
        /\ Top.pc \notin LoosePoints \cup NamePoints
    BY <1>1, QuietHere DEF HeadKnown, Unread, AwaitsResult, LoosePoints, NamePoints
  <2>3. ASSUME NEW t \in Top.lo..q PROVE Taken(Text, heap, f, t)
    <3>1. CASE t = q
      BY <1>2, <2>1, <3>1 DEF Taken
    <3>2. CASE t # q
      <4>1. t \in Top.lo..pos
        BY <1>3, <3>2 DEF q
      <4>2. Taken(Text, heap, Top, t)
        BY <1>1, <2>2, <4>1, QuietHere DEF TopTaken
      <4> QED BY <1>1, <1>2, <2>1, <2>2, <4>2, PlainLeft DEF Taken
    <3> QED BY <3>1, <3>2
  <2> QED BY <1>2, <2>1, <2>3 DEF TopTaken
<1>8. StackTaken(Text, heap, q, stack', ret)
  BY <1>1, <1>2, <1>3, <1>5, <1>6, <1>7, GrowsItself, ReplaceTakes
<1> QED BY <1>1, <1>3, <1>8, StillTaken

(* The name of a function is a node of its own.                            *)
LEMMA NameTakes == ASSUME Quiet, NameMove PROVE WordsInv'
<1> DEFINE node == Node("Identifier", pos, <<>>, pos)
           r    == Len(heap) + 1
           q    == pos + 1
           f    == Frame("parseCallExpression", Top.prec, q, Top.lo, <<r>>)
<1>1. /\ stack # <<>> /\ Top.pc = "parseFunctionLiteral" /\ At("parseFunctionLiteral")
      /\ heap' = Append(heap, node) /\ stack' = [stack EXCEPT ![Len(stack)] = f]
      /\ pos' = q /\ input' = input /\ ret' = ret
  BY DEF NameMove, At
<1>2. /\ node.lo = Top.lo /\ node.hi = pos /\ node.kids = <<>> /\ node.at = pos
      /\ node.kind = "Identifier"
      /\ f.lo = Top.lo /\ f.pc = "parseCallExpression" /\ f.kids = <<r>> /\ f.at = q
  BY DEF Node, Frame
<1>3. /\ heap \in Heaps /\ heap' \in Heaps /\ stack \in Stacks /\ pos \in Nat /\ q \in Nat
      /\ Top = stack[Len(stack)] /\ Top.lo \in Nat
      /\ StackTaken(Text, heap, pos, stack, ret) /\ AllKnown(heap, stack)
      /\ \A n \in DOMAIN heap : Known(heap, heap[n].kids) /\ NodeTaken(Text, heap, heap[n])
  BY <1>1, QuietHere, NextHeap
<1>4. Top.lo = pos
  BY <1>1, CarriesNothing DEF Openings, Functions, Labels, AwaitsResult, InfixFns
<1>5. f \in Frames(Labels) /\ r \in Nat /\ r # NIL
  <2>1. "parseCallExpression" \in Labels
    BY DEF Labels
  <2> QED BY <1>1, <1>3, <2>1, QuietHere DEF Frame, Frames, Heaps, NIL
<1> HIDE DEF node, f, q
<1>6. /\ DOMAIN heap' = DOMAIN heap \cup {r} /\ heap'[r] = node
      /\ \A n \in DOMAIN heap : n \in DOMAIN heap' /\ heap'[n] = heap[n]
  BY <1>1, <1>3 DEF Heaps
<1> HIDE DEF r
<1>7. Grows(heap, heap')
  BY <1>3, <1>6, NodeType DEF Grows
<1>8. \A n \in DOMAIN heap : NodeTaken(Text, heap', heap'[n])
  BY <1>3, <1>6, <1>7, NodeGrows
<1>9. NodeTaken(Text, heap', node)
  <2>1. \A t \in node.lo..node.hi : t = node.at
    BY <1>2, <1>3, <1>4
  <2> QED BY <2>1 DEF NodeTaken, Stands
<1>10. HeadKnown(Text, f) /\ Opened(q, f)
  BY <1>2 DEF HeadKnown, GroupPoints, Opened, Openings, Functions, InfixFns
<1>11. TopTaken(Text, heap', q, f, ret)
  <2>1. f.pc \notin Unread /\ f.pc \notin Unmarked
    BY <1>2 DEF Unread, Unmarked, Exprs
  <2>2. ASSUME NEW t \in f.lo..q PROVE Taken(Text, heap', f, t)
    <3>1. CASE t = q
      BY <1>2, <2>1, <3>1 DEF Taken
    <3>2. CASE t # q
      <4>1. t \in pos..pos
        BY <1>2, <1>3, <1>4, <3>2 DEF q
      <4>2. t \in SpanIn(heap', r)
        <5>1. Reach(node) = node.hi
          BY <1>2 DEF Reach
        <5> QED BY <1>2, <1>4, <1>5, <1>6, <4>1, <5>1 DEF SpanIn
      <4>3. 1 \in DOMAIN <<r>> /\ <<r>>[1] = r
        OBVIOUS
      <4> QED BY <1>2, <4>2, <4>3 DEF Taken, InOperand
    <3> QED BY <3>1, <3>2
  <2> QED BY <2>1, <2>2 DEF TopTaken
<1>12. StackTaken(Text, heap', q, stack', ret)
  BY <1>1, <1>2, <1>3, <1>5, <1>7, <1>10, <1>11, ReplaceTakes
<1>13. \A n \in DOMAIN heap' : NodeTaken(Text, heap', heap'[n])
  BY <1>6, <1>8, <1>9
<1> QED BY <1>1, <1>12, <1>13, StillTaken
-----------------------------------------------------------------------------
(* The words of the points, and how the functions go through them.         *)
LEMMA Layouts ==
    /\ Layout("Like") = {"LIKE", "NOT", "ESCAPE"}
    /\ Layout("Between") = {"BETWEEN", "NOT", "AND"}
    /\ Layout("In") = {"IN", "NOT", "LPAREN", "COMMA", "RPAREN"}
    /\ Layout("IsNull") = {"IS", "NOT", "NULL"}
    /\ Layout("AtTimeZone") = {"AT", "TIME", "ZONE"}
    /\ Layout("Case") = {"CASE", "WHEN", "THEN", "ELSE", "END"}
    /\ Layout("Exists") = {"EXISTS", "LPAREN", "RPAREN"}
    /\ Layout("Subquery") = {"EXISTS", "LPAREN", "RPAREN"}
    /\ Layout("Tuple") = {"EXISTS", "LPAREN", "RPAREN"}
    /\ Layout("List") = {"LPAREN", "COMMA", "COLON", "DISTINCT", "RPAREN"}
    /\ Layout("FunctionCall") = {"ALL", "LPAREN", "RPAREN", "DISTINCT", "WITHIN", "GROUP", "ORDER", "BY"}
    /\ Layout("OrderBy") = {"COMMA", "ASC", "DESC"}
    /\ Layout("WindowFrame") = {"ROWS", "RANGE", "BETWEEN", "AND"}
    /\ Layout("Conversion") = {"LPAREN", "AS", "COMMA", "USING", "RPAREN"}
    /\ Layout("Trim") = {"LPAREN", "IDENT", "STRING", "NSTRING", "FROM", "RPAREN"}
BY DEF Layout

LEMMA OperatorWords ==
    /\ Words("parsePrefixExpression") = {} /\ Words("parsePrefixExpression.Right") = {}
    /\ Words("parseInfixExpression") = {} /\ Words("parseInfixExpression.Right") = {}
    /\ Words("parseDistinctFromExpression") = {} /\ Words("parseDistinctFromExpression.Right") = {}
    /\ Words("parseCollateExpression") = {} /\ Words("parseAtTimeZoneExpression") = {}
    /\ Words("parseAtTimeZoneExpression.TimeZone") = Layout("AtTimeZone")
    /\ Words("parseLikeExpression") = Layout("Like")
    /\ Words("parseLikeExpression.Pattern") = Layout("Like")
    /\ Words("parseLikeExpression.Escape") = Layout("Like")
    /\ Words("parseBetweenExpression") = Layout("Between")
    /\ Words("parseBetweenExpression.Low") = Layout("Between")
    /\ Words("parseBetweenExpression.High") = Layout("Between")
    /\ Words("parseInExpression") = Layout("In") /\ Words("parseInExpression.Value") = Layout("In")
    /\ Words("parseInExpression.Subquery") = Layout("In")
    /\ Words("parseIsNullExpression") = Layout("IsNull")
BY DEF Words

LEMMA CallingWords ==
    /\ Words("parseGroupedExpression") = {} /\ Words("parseGroupedExpression.Exp") = {}
    /\ Words("parseGroupedExpression.Subquery") = {}
    /\ Words("parseDotExpression") = {} /\ Words("parseDotExpression.Arguments") = {}
    /\ Words("parseScopeExpression") = {} /\ Words("parseScopeExpression.Arguments") = {}
    /\ Words("parseSubqueryExpression.Select") = {} /\ Words("parseFunctionLiteral") = {}
    /\ Words("parseExistsExpression") = Layout("Exists")
    /\ Words("parseExistsExpression.Subquery") = Layout("Exists")
    /\ Words("parseAllExpression") = Layout("FunctionCall")
    /\ Words("parseAllExpression.Subquery") = Layout("FunctionCall")
    /\ Words("parseCallExpression") = Layout("FunctionCall")
    /\ Words("parseCallExpression.Arguments") = Layout("FunctionCall")
    /\ Words("parseCallExpression.WithinGroup") = Layout("FunctionCall")
    /\ Words("parseCallExpression.Over") = Layout("FunctionCall")
    /\ Words("parseCallExpression.Clause") = Layout("FunctionCall")
BY DEF Words

LEMMA ListWords ==
    /\ Words("parseExpressionList") = Layout("List") /\ Words("parseExpressionList.Key") = Layout("List")
    /\ Words("parseExpressionList.Value") = Layout("List")
    /\ Words("parseOrderByItems") = Layout("OrderBy")
    /\ Words("parseOrderByItems.Item") = Layout("OrderBy")
    /\ Words("parseWindowFrame") = Layout("WindowFrame")
    /\ Words("parseWindowFrame.Start") = Layout("WindowFrame")
    /\ Words("parseWindowFrame.End") = Layout("WindowFrame")
    /\ Words("parseCaseExpression") = Layout("Case") /\ Words("parseCaseExpression.When") = Layout("Case")
    /\ Words("parseCaseExpression.Operand") = Layout("Case")
    /\ Words("parseCaseExpression.Condition") = Layout("Case")
    /\ Words("parseCaseExpression.Result") = Layout("Case")
    /\ Words("parseCaseExpression.Else") = Layout("Case") /\ Words("parseCaseExpression.End") = Layout("Case")
BY DEF Words

LEMMA ConversionWords ==
    /\ Words("parseCastExpression") = Layout("Conversion")
    /\ Words("parseCastExpression.Expression") = Layout("Conversion")
    /\ Words("parseCastExpression.TargetType") = Layout("Conversion")
    /\ Words("parseConvertExpression") = Layout("Conversion")
    /\ Words("parseConvertExpression.TargetType") = Layout("Conversion")
    /\ Words("parseConvertExpression.Expression") = Layout("Conversion")
    /\ Words("parseConvertExpression.Style") = Layout("Conversion")
    /\ Words("parseParseExpression") = Layout("Conversion")
    /\ Words("parseParseExpression.Expression") = Layout("Conversion")
    /\ Words("parseParseExpression.TargetType") = Layout("Conversion")
    /\ Words("parseParseExpression.Culture") = Layout("Conversion")
    /\ Words("parseTrimExpression") = Layout("Trim") /\ Words("parseTrimExpression.First") = Layout("Trim")
    /\ Words("parseTrimExpression.Expression") = Layout("Trim")
BY DEF Words

(* Onward, the current token being taken notice of, or to the end.         *)
Onward(from, pc) ==
    Turn(from, pc) /\ pc \notin LoosePoints /\ from \notin Unread /\ pc # "parseGroupedExpression.Exp"
Spoken(from, kind) ==
    from \notin LoosePoints \cup Unread \cup NamePoints /\ Words(from) \subseteq Layout(kind)

LEMMA OperatorTurns ==
    /\ Onward("parsePrefixExpression", "parsePrefixExpression.Right")
    /\ Onward("parseInfixExpression", "parseInfixExpression.Right")
    /\ Onward("parseLikeExpression", "parseLikeExpression.Pattern")
    /\ Onward("parseLikeExpression.Pattern", "parseLikeExpression.Escape")
    /\ Onward("parseAtTimeZoneExpression", "parseAtTimeZoneExpression.TimeZone")
    /\ Onward("parseBetweenExpression", "parseBetweenExpression.Low")
    /\ Onward("parseBetweenExpression.Low", "parseBetweenExpression.High")
    /\ Onward("parseInExpression", "parseInExpression.Subquery")
    /\ Onward("parseInExpression", "parseInExpression.Value")
    /\ Onward("parseInExpression.Value", "parseInExpression.Value")
    /\ Onward("parseDistinctFromExpression", "parseDistinctFromExpression.Right")
BY OperatorWords DEF Onward, Turn, LoosePoints, NamePoints, Unmarked, Exprs, Unread, GroupPoints

LEMMA OperatorSpoken ==
    /\ Spoken("parsePrefixExpression.Right", "Prefix") /\ Spoken("parseInfixExpression.Right", "Infix")
    /\ Spoken("parseLikeExpression.Pattern", "Like") /\ Spoken("parseLikeExpression.Escape", "Like")
    /\ Spoken("parseAtTimeZoneExpression.TimeZone", "AtTimeZone")
    /\ Spoken("parseBetweenExpression.High", "Between")
    /\ Spoken("parseInExpression.Value", "In") /\ Spoken("parseInExpression.Subquery", "In")
    /\ Spoken("parseIsNullExpression", "IsNull") /\ Spoken("parseCollateExpression", "Collate")
    /\ Spoken("parseDistinctFromExpression.Right", "IsDistinctFrom")
BY OperatorWords DEF Spoken, LoosePoints, NamePoints, Unread

LEMMA CallingTurns ==
    /\ Onward("parseGroupedExpression", "parseGroupedExpression.Subquery")
    /\ Onward("parseDotExpression", "parseDotExpression.Arguments")
    /\ Onward("parseScopeExpression", "parseScopeExpression.Arguments")
    /\ Onward("parseExistsExpression", "parseExistsExpression.Subquery")
    /\ Onward("parseAllExpression", "parseAllExpression.Subquery")
    /\ Onward("parseCallExpression", "parseCallExpression.Arguments")
    /\ Onward("parseCallExpression.Arguments", "parseCallExpression.Over")
    /\ Onward("parseCallExpression.Arguments", "parseCallExpression.WithinGroup")
    /\ Onward("parseCallExpression.WithinGroup", "parseCallExpression.Over")
    /\ Onward("parseCallExpression.Over", "parseCallExpression.Clause")
BY CallingWords DEF Onward, Turn, LoosePoints, NamePoints, Unmarked, Exprs, Unread, GroupPoints

LEMMA CallingSpoken ==
    /\ Spoken("parseGroupedExpression", "Tuple") /\ Spoken("parseGroupedExpression.Subquery", "Subquery")
    /\ Spoken("parseSubqueryExpression.Select", "Subquery") /\ Spoken("parseFunctionLiteral", "Identifier")
    /\ Spoken("parseExistsExpression.Subquery", "Exists")
    /\ Spoken("parseAllExpression.Subquery", "FunctionCall")
    /\ Spoken("parseCallExpression.Over", "FunctionCall")
    /\ Spoken("parseCallExpression.Clause", "FunctionCall")
    /\ Spoken("parseScopeExpression", "StaticMethodCall")
BY CallingWords DEF Spoken, LoosePoints, NamePoints, Unread

LEMMA ListTurns ==
    /\ Onward("parseExpressionList", "parseExpressionList.Key")
    /\ Onward("parseExpressionList.Key", "parseExpressionList.Value")
    /\ Onward("parseExpressionList.Key", "parseExpressionList.Key")
    /\ Onward("parseExpressionList.Value", "parseExpressionList.Key")
    /\ Onward("parseOrderByItems", "parseOrderByItems.Item")
    /\ Onward("parseOrderByItems.Item", "parseOrderByItems.Item")
    /\ Onward("parseWindowFrame", "parseWindowFrame.Start")
    /\ Onward("parseWindowFrame", "parseWindowFrame.End")
    /\ Onward("parseWindowFrame.Start", "parseWindowFrame.End")
    /\ Onward("parseCaseExpression", "parseCaseExpression.When")
    /\ Onward("parseCaseExpression", "parseCaseExpression.Operand")
    /\ Onward("parseCaseExpression.Operand", "parseCaseExpression.When")
    /\ Turn("parseCaseExpression.When", "parseCaseExpression.Condition")
    /\ Turn("parseCaseExpression.When", "parseCaseExpression.Else")
    /\ Onward("parseCaseExpression.Condition", "parseCaseExpression.Result")
    /\ Onward("parseCaseExpression.Result", "parseCaseExpression.When")
    /\ Onward("parseCaseExpression.Else", "parseCaseExpression.End")
BY ListWords DEF Onward, Turn, LoosePoints, NamePoints, Unmarked, Exprs, Unread, GroupPoints

LEMMA ListSpoken ==
    /\ Spoken("parseExpressionList", "List") /\ Spoken("parseExpressionList.Key", "List")
    /\ Spoken("parseExpressionList.Value", "List") /\ Spoken("parseOrderByItems.Item", "OrderBy")
    /\ Spoken("parseWindowFrame.End", "WindowFrame")
BY ListWords DEF Spoken, LoosePoints, NamePoints, Unread

LEMMA ConversionTurns ==
    /\ Onward("parseCastExpression", "parseCastExpression.Expression")
    /\ Onward("parseCastExpression.Expression", "parseCastExpression.TargetType")
    /\ Onward("parseConvertExpression", "parseConvertExpression.TargetType")
    /\ Onward("parseConvertExpression.TargetType", "parseConvertExpression.Expression")
    /\ Onward("parseConvertExpression.Expression", "parseConvertExpression.Style")
    /\ Onward("parseParseExpression", "parseParseExpression.Expression")
    /\ Onward("parseParseExpression.Expression", "parseParseExpression.TargetType")
    /\ Onward("parseParseExpression.TargetType", "parseParseExpression.Culture")
    /\ Onward("parseTrimExpression", "parseTrimExpression.First")
    /\ Onward("parseTrimExpression.First", "parseTrimExpression.Expression")
BY ConversionWords DEF Onward, Turn, LoosePoints, NamePoints, Unmarked, Exprs, Unread, GroupPoints

LEMMA ConversionSpoken ==
    /\ Spoken("parseCastExpression.TargetType", "Conversion")
    /\ Spoken("parseConvertExpression.Expression", "Conversion")
    /\ Spoken("parseConvertExpression.Style", "Conversion")
    /\ Spoken("parseParseExpression.TargetType", "Conversion")
    /\ Spoken("parseParseExpression.Culture", "Conversion")
    /\ Spoken("parseTrimExpression.First", "Trim") /\ Spoken("parseTrimExpression.Expression", "Trim")
BY ConversionWords DEF Spoken, LoosePoints, NamePoints, Unread

(* Calls and returns one or two tokens on.                                 *)
LEMMA NextCall ==
    ASSUME Quiet, NEW from, At(from), NEW k \in 0..1, NEW pc, NEW fn, Link(from, k, pc, fn),
           Onward(from, pc), NEW kids, Carries(kids), fn # "parseGroupedExpression",
           \/ Call(k, pc, kids, fn)
           \/ fn = "parseExpression" /\ CallExpression(k, pc, kids, LOWEST)
    PROVE  WordsInv'
<1>1. pos \in Nat /\ k \in Nat /\ kids \in Seq(Nat)
  BY QuietHere DEF At, Carries
<1>2. Passed(from, pc, k)
  BY <1>1 DEF Passed, Unseen, Onward
<1> QED BY <1>1, <1>2, WordsCall DEF Onward

LEMMA NextCallAbove ==
    ASSUME Quiet, NEW from, At(from), NEW pc, Link(from, 1, pc, "parseExpression"),
           Onward(from, pc), NEW kids, Carries(kids), NEW prec \in Nat,
           CallExpression(1, pc, kids, prec)
    PROVE  WordsInv'
<1>1. pos \in Nat
  BY QuietHere DEF At
<1>2. Passed(from, pc, 1)
  BY <1>1 DEF Passed, Unseen, Onward
<1> QED BY <1>2, WordsCallAbove DEF Onward

LEMMA BehindPassed ==
    ASSUME Quiet, stack # <<>>, NEW from, NEW pc, Onward(from, pc), Peek \in Words(pc)
    PROVE  Passed(from, pc, 2)
<1>1. pos \in Nat
  BY QuietHere
<1>2. \A t \in (pos + 1)..(pos + 2 - 1) : t = pos + 1
  BY <1>1
<1>3. Unseen(from) = pos + 1
  BY DEF Unseen, Onward
<1> QED BY <1>2, <1>3 DEF Passed, Peek

LEMMA BehindCall ==
    ASSUME Quiet, NEW from, At(from), NEW pc, NEW fn, Link(from, 2, pc, fn),
           Onward(from, pc), NEW kids, Carries(kids), fn # "parseGroupedExpression",
           Peek \in Words(pc),
           \/ Call(2, pc, kids, fn)
           \/ fn = "parseExpression" /\ CallExpression(2, pc, kids, LOWEST)
    PROVE  WordsInv'
<1>1. kids \in Seq(Nat) /\ stack # <<>> /\ 2 \in Nat
  BY DEF At, Carries
<1>2. Passed(from, pc, 2)
  BY <1>1, BehindPassed
<1> QED BY <1>1, <1>2, WordsCall DEF Onward

LEMMA LooseCall ==
    ASSUME Quiet, NEW from, At(from), NEW k \in Nat, NEW pc \in LoosePoints, NEW fn,
           Link(from, k, pc, fn), NEW kids \in Seq(Nat), fn # "parseGroupedExpression",
           \/ Call(k, pc, kids, fn)
           \/ fn = "parseExpression" /\ CallExpression(k, pc, kids, LOWEST)
    PROVE  WordsInv'
<1>1. Turn(from, pc) /\ pc # "parseGroupedExpression.Exp"
  BY DEF Turn, LoosePoints, GroupPoints
<1> QED BY <1>1, WordsCall

LEMMA LooseGo ==
    ASSUME Quiet, NEW from, At(from), NEW k \in Nat, NEW pc \in LoosePoints, Way(from, k, pc),
           pc \notin Openings, NEW kids \in Seq(Nat), Continue(k, pc, kids)
    PROVE  WordsInv'
<1>1. Turn(from, pc)
  BY DEF Turn, LoosePoints, GroupPoints
<1> QED BY <1>1, WordsGo

LEMMA HereReturn ==
    ASSUME Quiet, NEW from, At(from), NEW kind, Spoken(from, kind), NEW kids, Carries(kids),
           ReturnNew(kind, Top.at, kids, 0)
    PROVE  WordsInv'
<1>1. pos \in Nat /\ Top.at \in Nat
  BY QuietHere DEF At
<1>2. Ends(from, kind, Top.at, 0)
  BY <1>1 DEF Ends, Unseen, Spoken
<1> QED BY <1>2, WordsReturn DEF Spoken

LEMMA BehindReturn ==
    ASSUME Quiet, NEW from, At(from), NEW kind, Spoken(from, kind), NEW kids, Carries(kids),
           Peek \in Layout(kind), ReturnNew(kind, Top.at, kids, 1)
    PROVE  WordsInv'
<1>1. pos \in Nat /\ Top.at \in Nat
  BY QuietHere DEF At
<1>2. Unseen(from) = pos + 1 /\ \A t \in (pos + 1)..(pos + 1) : t = pos + 1
  BY <1>1 DEF Unseen, Spoken
<1>3. Ends(from, kind, Top.at, 1)
  BY <1>2 DEF Ends, Peek
<1> QED BY <1>3, WordsReturn DEF Spoken
-----------------------------------------------------------------------------
(* The functions, one after the other; first the operators.                *)

(* The one token a function insists on is the next one.                    *)
LEMMA OneWord ==
    ASSUME Quiet, NEW t, t # "any", Mismatches(0, <<t>>) = {}
    PROVE  Peek = t
<1>1. 1 \in DOMAIN <<t>> /\ <<t>>[1] = t
  OBVIOUS
<1>2. pos + 0 + 1 = pos + 1
  BY DEF Quiet, IInv, MachineInv, MachineTypeOK
<1> QED BY <1>1, <1>2 DEF Mismatches, Peek

LEMMA BehindCallAbove ==
    ASSUME Quiet, NEW from, At(from), NEW pc, Link(from, 2, pc, "parseExpression"),
           Onward(from, pc), NEW kids, Carries(kids), Peek \in Words(pc), NEW prec \in Nat,
           CallExpression(2, pc, kids, prec)
    PROVE  WordsInv'
<1>1. stack # <<>> /\ 2 \in Nat
  BY DEF At
<1>2. Passed(from, pc, 2)
  BY <1>1, BehindPassed
<1> QED BY <1>1, <1>2, WordsCallAbove DEF Onward

LEMMA parsePrefixExpressionTakes == Quiet /\ parsePrefixExpression => WordsInv'
<1> SUFFICES ASSUME Quiet, parsePrefixExpression PROVE WordsInv'
  OBVIOUS
<1>1. CASE At("parsePrefixExpression")
  <2>1. CallExpression(1, "parsePrefixExpression.Right", <<>>, PREFIX)
    BY <1>1 DEF parsePrefixExpression, At
  <2>2. Carries(<<>>)
    BY <1>1, CarriesNothing DEF Openings, Functions, Labels, AwaitsResult, InfixFns
  <2>3. Link("parsePrefixExpression", 1, "parsePrefixExpression.Right", "parseExpression")
    BY OperatorLinks
  <2> QED BY <1>1, <2>2, OperatorTurns, NextCallAbove, <2>3, <2>1 DEF PREFIX
<1>2. CASE At("parsePrefixExpression.Right")
  <2>1. ReturnNew("Prefix", Top.at, Got, 0)
    BY <1>2 DEF parsePrefixExpression, At
  <2>2. Carries(Got)
    BY <1>2, CarriesGot DEF AwaitsResult
  <2> QED BY <1>2, <2>2, OperatorSpoken, HereReturn, <2>1
<1> QED BY <1>1, <1>2 DEF parsePrefixExpression

LEMMA parseInfixExpressionTakes == Quiet /\ parseInfixExpression => WordsInv'
<1> SUFFICES ASSUME Quiet, parseInfixExpression PROVE WordsInv'
  OBVIOUS
<1>1. CASE At("parseInfixExpression")
  <2>1. CallExpression(1, "parseInfixExpression.Right", Top.kids, Precedence(Cur))
    BY <1>1 DEF parseInfixExpression, At
  <2>2. Carries(Top.kids)
    BY <1>1, CarriesKids DEF AwaitsResult
  <2>3. Link("parseInfixExpression", 1, "parseInfixExpression.Right", "parseExpression")
    BY OperatorLinks
  <2> QED BY <1>1, <2>2, OperatorTurns, NextCallAbove, PrecedenceType, <2>3, <2>1
<1>2. CASE At("parseInfixExpression.Right")
  <2>1. ReturnNew("Infix", Top.at, Got, 0)
    BY <1>2 DEF parseInfixExpression, At
  <2>2. Carries(Got)
    BY <1>2, CarriesGot DEF AwaitsResult
  <2> QED BY <1>2, <2>2, OperatorSpoken, HereReturn, <2>1
<1> QED BY <1>1, <1>2 DEF parseInfixExpression

LEMMA parseLikeExpressionTakes == Quiet /\ parseLikeExpression => WordsInv'
<1> SUFFICES ASSUME Quiet, parseLikeExpression PROVE WordsInv'
  OBVIOUS
<1>1. CASE At("parseLikeExpression")
  <2>1. CallExpression(1, "parseLikeExpression.Pattern", Top.kids, COMPARE)
    BY <1>1 DEF parseLikeExpression, At
  <2>2. Carries(Top.kids)
    BY <1>1, CarriesKids DEF AwaitsResult
  <2>3. Link("parseLikeExpression", 1, "parseLikeExpression.Pattern", "parseExpression")
    BY OperatorLinks
  <2> QED BY <1>1, <2>2, OperatorTurns, NextCallAbove, <2>3, <2>1 DEF COMPARE
<1>2. CASE At("parseLikeExpression.Pattern")
  <2>1. \/ Peek = "ESCAPE" /\ CallExpression(2, "parseLikeExpression.Escape", Got, LOWEST)
        \/ ReturnNew("Like", Top.at, Got, 0)
    BY <1>2 DEF parseLikeExpression, At
  <2>2. Carries(Got)
    BY <1>2, CarriesGot DEF AwaitsResult
  <2>3. CASE Peek = "ESCAPE" /\ CallExpression(2, "parseLikeExpression.Escape", Got, LOWEST)
    <3>1. Link("parseLikeExpression.Pattern", 2, "parseLikeExpression.Escape", "parseExpression")
      BY OperatorLinks
    <3> QED BY <1>2, <2>2, OperatorTurns, OperatorWords, Layouts, BehindCall, <3>1, <2>3
  <2>4. CASE ReturnNew("Like", Top.at, Got, 0)
    BY <1>2, <2>2, OperatorSpoken, HereReturn, <2>4
  <2> QED BY <2>1, <2>3, <2>4
<1>3. CASE At("parseLikeExpression.Escape")
  <2>1. ReturnNew("Like", Top.at, GotIfAny, 0)
    BY <1>3 DEF parseLikeExpression, At
  <2>2. Carries(GotIfAny)
    BY <1>3, CarriesGot DEF AwaitsResult
  <2> QED BY <1>3, <2>2, OperatorSpoken, HereReturn, <2>1
<1> QED BY <1>1, <1>2, <1>3 DEF parseLikeExpression

LEMMA parseBetweenExpressionTakes == Quiet /\ parseBetweenExpression => WordsInv'
<1> SUFFICES ASSUME Quiet, parseBetweenExpression PROVE WordsInv'
  OBVIOUS
<1>1. CASE At("parseBetweenExpression")
  <2>1. CallExpression(1, "parseBetweenExpression.Low", Top.kids, AND_PREC)
    BY <1>1 DEF parseBetweenExpression, At
  <2>2. Carries(Top.kids)
    BY <1>1, CarriesKids DEF AwaitsResult
  <2>3. Link("parseBetweenExpression", 1, "parseBetweenExpression.Low", "parseExpression")
    BY OperatorLinks
  <2> QED BY <1>1, <2>2, OperatorTurns, NextCallAbove, <2>3, <2>1 DEF AND_PREC
<1>2. CASE At("parseBetweenExpression.Low")
  <2>1. \/ Peek = "AND" /\ CallExpression(2, "parseBetweenExpression.High", Got, BETWEEN_PREC)
        \/ Fail(1, 0)
    BY <1>2 DEF parseBetweenExpression, At
  <2>2. Carries(Got)
    BY <1>2, CarriesGot DEF AwaitsResult
  <2>3. CASE Peek = "AND" /\ CallExpression(2, "parseBetweenExpression.High", Got, BETWEEN_PREC)
    <3>1. Link("parseBetweenExpression.Low", 2, "parseBetweenExpression.High", "parseExpression")
      BY OperatorLinks
    <3> QED BY <1>2, <2>2, OperatorTurns, OperatorWords, Layouts, BehindCallAbove, <3>1, <2>3
               DEF BETWEEN_PREC
  <2> QED BY <2>1, <2>3, Speaking
<1>3. CASE At("parseBetweenExpression.High")
  <2>1. ReturnNew("Between", Top.at, Got, 0)
    BY <1>3 DEF parseBetweenExpression, At
  <2>2. Carries(Got)
    BY <1>3, CarriesGot DEF AwaitsResult
  <2> QED BY <1>3, <2>2, OperatorSpoken, HereReturn, <2>1
<1> QED BY <1>1, <1>2, <1>3 DEF parseBetweenExpression

LEMMA parseInExpressionTakes == Quiet /\ parseInExpression => WordsInv'
<1> SUFFICES ASSUME Quiet, parseInExpression PROVE WordsInv'
  OBVIOUS
<1>1. CASE At("parseInExpression")
  <2>1. \/ Peek = "LPAREN" /\ Call(2, "parseInExpression.Subquery", Top.kids,
                                 "parseSelectStatement")
        \/ Peek = "LPAREN" /\ CallExpression(2, "parseInExpression.Value", Top.kids, LOWEST)
        \/ Fail(1, 0)
    BY <1>1 DEF parseInExpression, At
  <2>2. Carries(Top.kids)
    BY <1>1, CarriesKids DEF AwaitsResult
  <2>3. CASE Peek = "LPAREN" /\ Call(2, "parseInExpression.Subquery", Top.kids,
                                   "parseSelectStatement")
    <3>1. Link("parseInExpression", 2, "parseInExpression.Subquery", "parseSelectStatement")
      BY OperatorLinks
    <3> QED BY <1>1, <2>2, OperatorTurns, OperatorWords, Layouts, BehindCall, <3>1, <2>3
  <2>4. CASE Peek = "LPAREN" /\ CallExpression(2, "parseInExpression.Value", Top.kids, LOWEST)
    <3>1. Link("parseInExpression", 2, "parseInExpression.Value", "parseExpression")
      BY OperatorLinks
    <3> QED BY <1>1, <2>2, OperatorTurns, OperatorWords, Layouts, BehindCall, <3>1, <2>4
  <2> QED BY <2>1, <2>3, <2>4, Speaking
<1>2. CASE At("parseInExpression.Value")
  <2>1. \/ Peek = "COMMA" /\ CallExpression(2, "parseInExpression.Value", Got, LOWEST)
        \/ Peek = "RPAREN" /\ ReturnNew("In", Top.at, Got, 1)
        \/ Fail(1, 0)
    BY <1>2 DEF parseInExpression, At
  <2>2. Carries(Got)
    BY <1>2, CarriesGot DEF AwaitsResult
  <2>3. CASE Peek = "COMMA" /\ CallExpression(2, "parseInExpression.Value", Got, LOWEST)
    <3>1. Link("parseInExpression.Value", 2, "parseInExpression.Value", "parseExpression")
      BY OperatorLinks
    <3> QED BY <1>2, <2>2, OperatorTurns, OperatorWords, Layouts, BehindCall, <3>1, <2>3
  <2>4. CASE Peek = "RPAREN" /\ ReturnNew("In", Top.at, Got, 1)
    BY <1>2, <2>2, OperatorSpoken, Layouts, BehindReturn, <2>4
  <2> QED BY <2>1, <2>3, <2>4, Speaking
<1>3. CASE At("parseInExpression.Subquery")
  <2>1. \/ Peek = "RPAREN" /\ ReturnNew("In", Top.at, GotIfAny, 1)
        \/ Fail(1, 0)
    BY <1>3 DEF parseInExpression, At
  <2>2. Carries(GotIfAny)
    BY <1>3, CarriesGot DEF AwaitsResult
  <2>3. CASE Peek = "RPAREN" /\ ReturnNew("In", Top.at, GotIfAny, 1)
    BY <1>3, <2>2, OperatorSpoken, Layouts, BehindReturn, <2>3
  <2> QED BY <2>1, <2>3, Speaking
<1> QED BY <1>1, <1>2, <1>3 DEF parseInExpression

LEMMA parseDistinctFromExpressionTakes == Quiet /\ parseDistinctFromExpression => WordsInv'
<1> SUFFICES ASSUME Quiet, parseDistinctFromExpression PROVE WordsInv'
  OBVIOUS
<1>1. CASE At("parseDistinctFromExpression")
  <2>1. CallExpression(1, "parseDistinctFromExpression.Right", Top.kids, COMPARE)
    BY <1>1 DEF parseDistinctFromExpression, At
  <2>2. Carries(Top.kids)
    BY <1>1, CarriesKids DEF AwaitsResult
  <2>3. Link("parseDistinctFromExpression", 1, "parseDistinctFromExpression.Right",
     "parseExpression")
    BY OperatorLinks
  <2> QED BY <1>1, <2>2, OperatorTurns, NextCallAbove, <2>3, <2>1 DEF COMPARE
<1>2. CASE At("parseDistinctFromExpression.Right")
  <2>1. ReturnNew("IsDistinctFrom", Top.at, Got, 0)
    BY <1>2 DEF parseDistinctFromExpression, At
  <2>2. Carries(Got)
    BY <1>2, CarriesGot DEF AwaitsResult
  <2> QED BY <1>2, <2>2, OperatorSpoken, HereReturn, <2>1
<1> QED BY <1>1, <1>2 DEF parseDistinctFromExpression

-----------------------------------------------------------------------------
(* Lists, windows, conversions and what stands in parentheses.             *)
LEMMA parseExpressionListTakes == Quiet /\ parseExpressionList => WordsInv'
<1> SUFFICES ASSUME Quiet, parseExpressionList PROVE WordsInv'
  OBVIOUS
<1>1. CASE At("parseExpressionList")
  <2>1. \/ Peek = "RPAREN" /\ ReturnNew("List", Top.at, <<>>, 1)
        \/ Peek = "DISTINCT" /\ CallExpression(2, "parseExpressionList.Key", <<>>, LOWEST)
        \/ CallExpression(1, "parseExpressionList.Key", <<>>, LOWEST)
    BY <1>1 DEF parseExpressionList, At
  <2>2. Carries(<<>>)
    BY <1>1, CarriesNothing DEF Openings, Functions, Labels, AwaitsResult, InfixFns
  <2>3. CASE Peek = "RPAREN" /\ ReturnNew("List", Top.at, <<>>, 1)
    BY <1>1, <2>2, ListSpoken, Layouts, BehindReturn, <2>3
  <2>4. CASE Peek = "DISTINCT" /\ CallExpression(2, "parseExpressionList.Key", <<>>, LOWEST)
    <3>1. Link("parseExpressionList", 2, "parseExpressionList.Key", "parseExpression")
      BY CallingLinks
    <3> QED BY <1>1, <2>2, ListTurns, ListWords, Layouts, BehindCall, <3>1, <2>4
  <2>5. CASE CallExpression(1, "parseExpressionList.Key", <<>>, LOWEST)
    <3>1. Link("parseExpressionList", 1, "parseExpressionList.Key", "parseExpression")
      BY CallingLinks
    <3> QED BY <1>1, <2>2, ListTurns, NextCall, <3>1, <2>5
  <2> QED BY <2>1, <2>3, <2>4, <2>5
<1>2. CASE At("parseExpressionList.Key")
  <2>1. \/ Peek = "COLON" /\ CallExpression(2, "parseExpressionList.Value", Got, LOWEST)
        \/ Peek = "COMMA" /\ CallExpression(2, "parseExpressionList.Key", Got, LOWEST)
        \/ Peek = "RPAREN" /\ ReturnNew("List", Top.at, Got, 1)
        \/ Fail(1, 0)
    BY <1>2 DEF parseExpressionList, At
  <2>2. Carries(Got)
    BY <1>2, CarriesGot DEF AwaitsResult
  <2>3. CASE Peek = "COLON" /\ CallExpression(2, "parseExpressionList.Value", Got, LOWEST)
    <3>1. Link("parseExpressionList.Key", 2, "parseExpressionList.Value", "parseExpression")
      BY CallingLinks
    <3> QED BY <1>2, <2>2, ListTurns, ListWords, Layouts, BehindCall, <3>1, <2>3
  <2>4. CASE Peek = "COMMA" /\ CallExpression(2, "parseExpressionList.Key", Got, LOWEST)
    <3>1. Link("parseExpressionList.Key", 2, "parseExpressionList.Key", "parseExpression")
      BY CallingLinks
    <3> QED BY <1>2, <2>2, ListTurns, ListWords, Layouts, BehindCall, <3>1, <2>4
  <2>5. CASE Peek = "RPAREN" /\ ReturnNew("List", Top.at, Got, 1)
    BY <1>2, <2>2, ListSpoken, Layouts, BehindReturn, <2>5
  <2> QED BY <2>1, <2>3, <2>4, <2>5, Speaking
<1>3. CASE At("parseExpressionList.Value")
  <2>1. \/ Peek = "COMMA" /\ CallExpression(2, "parseExpressionList.Key", Got, LOWEST)
        \/ Peek = "RPAREN" /\ ReturnNew("List", Top.at, Got, 1)
        \/ Fail(1, 0)
    BY <1>3 DEF parseExpressionList, At
  <2>2. Carries(Got)
    BY <1>3, CarriesGot DEF AwaitsResult
  <2>3. CASE Peek = "COMMA" /\ CallExpression(2, "parseExpressionList.Key", Got, LOWEST)
    <3>1. Link("parseExpressionList.Value", 2, "parseExpressionList.Key", "parseExpression")
      BY CallingLinks
    <3> QED BY <1>3, <2>2, ListTurns, ListWords, Layouts, BehindCall, <3>1, <2>3
  <2>4. CASE Peek = "RPAREN" /\ ReturnNew("List", Top.at, Got, 1)
    BY <1>3, <2>2, ListSpoken, Layouts, BehindReturn, <2>4
  <2> QED BY <2>1, <2>3, <2>4, Speaking
<1> QED BY <1>1, <1>2, <1>3 DEF parseExpressionList

LEMMA parseWindowFrameTakes == Quiet /\ parseWindowFrame => WordsInv'
<1> SUFFICES ASSUME Quiet, parseWindowFrame PROVE WordsInv'
  OBVIOUS
<1>1. CASE At("parseWindowFrame")
  <2>1. \/ Peek = "BETWEEN" /\ Call(2, "parseWindowFrame.Start", <<>>, "parseFrameBound")
        \/ Call(1, "parseWindowFrame.End", <<>>, "parseFrameBound")
    BY <1>1 DEF parseWindowFrame, At
  <2>2. Carries(<<>>)
    BY <1>1, CarriesNothing DEF Openings, Functions, Labels, AwaitsResult, InfixFns
  <2>3. CASE Peek = "BETWEEN" /\ Call(2, "parseWindowFrame.Start", <<>>, "parseFrameBound")
    <3>1. Link("parseWindowFrame", 2, "parseWindowFrame.Start", "parseFrameBound")
      BY WindowLinks
    <3> QED BY <1>1, <2>2, ListTurns, ListWords, Layouts, BehindCall, <3>1, <2>3
  <2>4. CASE Call(1, "parseWindowFrame.End", <<>>, "parseFrameBound")
    <3>1. Link("parseWindowFrame", 1, "parseWindowFrame.End", "parseFrameBound")
      BY WindowLinks
    <3> QED BY <1>1, <2>2, ListTurns, NextCall, <3>1, <2>4
  <2> QED BY <2>1, <2>3, <2>4
<1>2. CASE At("parseWindowFrame.Start")
  <2>1. \/ Peek = "AND" /\ Call(2, "parseWindowFrame.End", Got, "parseFrameBound")
        \/ ReturnFlawed("WindowFrame", Top.at, Got, 0, 1)
    BY <1>2 DEF parseWindowFrame, At
  <2>2. Carries(Got)
    BY <1>2, CarriesGot DEF AwaitsResult
  <2>3. CASE Peek = "AND" /\ Call(2, "parseWindowFrame.End", Got, "parseFrameBound")
    <3>1. Link("parseWindowFrame.Start", 2, "parseWindowFrame.End", "parseFrameBound")
      BY WindowLinks
    <3> QED BY <1>2, <2>2, ListTurns, ListWords, Layouts, BehindCall, <3>1, <2>3
  <2> QED BY <2>1, <2>3, Flawed
<1>3. CASE At("parseWindowFrame.End")
  <2>1. ReturnNew("WindowFrame", Top.at, Got, 0)
    BY <1>3 DEF parseWindowFrame, At
  <2>2. Carries(Got)
    BY <1>3, CarriesGot DEF AwaitsResult
  <2> QED BY <1>3, <2>2, ListSpoken, HereReturn, <2>1
<1> QED BY <1>1, <1>2, <1>3 DEF parseWindowFrame

LEMMA parseExistsExpressionTakes == Quiet /\ parseExistsExpression => WordsInv'
<1> SUFFICES ASSUME Quiet, parseExistsExpression PROVE WordsInv'
  OBVIOUS
<1>1. CASE At("parseExistsExpression")
  <2>1. \/ Peek = "LPAREN" /\ Call(2, "parseExistsExpression.Subquery", <<>>,
                                 "parseSelectStatement")
        \/ Fail(1, 0)
    BY <1>1 DEF parseExistsExpression, At
  <2>2. Carries(<<>>)
    BY <1>1, CarriesNothing DEF Openings, Functions, Labels, AwaitsResult, InfixFns
  <2>3. CASE Peek = "LPAREN" /\ Call(2, "parseExistsExpression.Subquery", <<>>,
                                   "parseSelectStatement")
    <3>1. Link("parseExistsExpression", 2, "parseExistsExpression.Subquery", "parseSelectStatement")
      BY CallingLinks
    <3> QED BY <1>1, <2>2, CallingTurns, CallingWords, Layouts, BehindCall, <3>1, <2>3
  <2> QED BY <2>1, <2>3, Speaking
<1>2. CASE At("parseExistsExpression.Subquery")
  <2>1. \/ Peek = "RPAREN" /\ ReturnNew("Exists", Top.at, Got, 1)
        \/ Fail(1, 0)
    BY <1>2 DEF parseExistsExpression, At
  <2>2. Carries(Got)
    BY <1>2, CarriesGot DEF AwaitsResult
  <2>3. CASE Peek = "RPAREN" /\ ReturnNew("Exists", Top.at, Got, 1)
    BY <1>2, <2>2, CallingSpoken, Layouts, BehindReturn, <2>3
  <2> QED BY <2>1, <2>3, Speaking
<1> QED BY <1>1, <1>2 DEF parseExistsExpression

LEMMA parseAllExpressionTakes == Quiet /\ parseAllExpression => WordsInv'
<1> SUFFICES ASSUME Quiet, parseAllExpression PROVE WordsInv'
  OBVIOUS
<1>1. CASE At("parseAllExpression")
  <2>1. \/ Peek = "LPAREN" /\ Call(2, "parseAllExpression.Subquery", <<>>, "parseSelectStatement")
        \/ Fail(1, 0)
    BY <1>1 DEF parseAllExpression, At
  <2>2. Carries(<<>>)
    BY <1>1, CarriesNothing DEF Openings, Functions, Labels, AwaitsResult, InfixFns
  <2>3. CASE Peek = "LPAREN" /\ Call(2, "parseAllExpression.Subquery", <<>>, "parseSelectStatement")
    <3>1. Link("parseAllExpression", 2, "parseAllExpression.Subquery", "parseSelectStatement")
      BY CallingLinks
    <3> QED BY <1>1, <2>2, CallingTurns, CallingWords, Layouts, BehindCall, <3>1, <2>3
  <2> QED BY <2>1, <2>3, Speaking
<1>2. CASE At("parseAllExpression.Subquery")
  <2>1. \/ Peek = "RPAREN" /\ ReturnNew("FunctionCall", Top.at, Got, 1)
        \/ Fail(1, 0)
    BY <1>2 DEF parseAllExpression, At
  <2>2. Carries(Got)
    BY <1>2, CarriesGot DEF AwaitsResult
  <2>3. CASE Peek = "RPAREN" /\ ReturnNew("FunctionCall", Top.at, Got, 1)
    BY <1>2, <2>2, CallingSpoken, Layouts, BehindReturn, <2>3
  <2> QED BY <2>1, <2>3, Speaking
<1> QED BY <1>1, <1>2 DEF parseAllExpression

LEMMA parseCastExpressionTakes == Quiet /\ parseCastExpression => WordsInv'
<1> SUFFICES ASSUME Quiet, parseCastExpression PROVE WordsInv'
  OBVIOUS
<1>1. CASE At("parseCastExpression")
  <2>1. \/ Mismatches(0, <<"LPAREN">>) = {} /\ CallExpression(2, "parseCastExpression.Expression",
                                                  <<>>, LOWEST)
        \/ GiveUp(0, <<"LPAREN">>)
    BY <1>1 DEF parseCastExpression, At, Require
  <2>2. Carries(<<>>)
    BY <1>1, CarriesNothing DEF Openings, Functions, Labels, AwaitsResult, InfixFns
  <2>3. Mismatches(0, <<"LPAREN">>) = {} => Peek = "LPAREN"
    BY OneWord
  <2>4. CASE Mismatches(0, <<"LPAREN">>) = {} /\ CallExpression(2,
                                                    "parseCastExpression.Expression", <<>>,
                                                    LOWEST)
    <3>1. Link("parseCastExpression", 2, "parseCastExpression.Expression", "parseExpression")
      BY ConversionLinks
    <3> QED BY <1>1, <2>2, <2>3, ConversionTurns, ConversionWords, Layouts, BehindCall, <3>1, <2>4
  <2> QED BY <2>1, <2>4, GivingUp
<1>2. CASE At("parseCastExpression.Expression")
  <2>1. \/ Mismatches(0, <<"AS">>) = {} /\ Call(2, "parseCastExpression.TargetType", Got,
                                              "parseDataType")
        \/ GiveUp(0, <<"AS">>)
    BY <1>2 DEF parseCastExpression, At, Require
  <2>2. Carries(Got)
    BY <1>2, CarriesGot DEF AwaitsResult
  <2>3. Mismatches(0, <<"AS">>) = {} => Peek = "AS"
    BY OneWord
  <2>4. CASE Mismatches(0, <<"AS">>) = {} /\ Call(2, "parseCastExpression.TargetType", Got,
                                                "parseDataType")
    <3>1. Link("parseCastExpression.Expression", 2, "parseCastExpression.TargetType",
       "parseDataType")
      BY ConversionLinks
    <3> QED BY <1>2, <2>2, <2>3, ConversionTurns, ConversionWords, Layouts, BehindCall, <3>1, <2>4
  <2> QED BY <2>1, <2>4, GivingUp
<1>3. CASE At("parseCastExpression.TargetType")
  <2>1. \/ Mismatches(0, <<"RPAREN">>) = {} /\ ReturnNew("Conversion", Top.at, Got, 1)
        \/ GiveUp(0, <<"RPAREN">>)
    BY <1>3 DEF parseCastExpression, At, Require
  <2>2. Carries(Got)
    BY <1>3, CarriesGot DEF AwaitsResult
  <2>3. Mismatches(0, <<"RPAREN">>) = {} => Peek = "RPAREN"
    BY OneWord
  <2>4. CASE Mismatches(0, <<"RPAREN">>) = {} /\ ReturnNew("Conversion", Top.at, Got, 1)
    BY <1>3, <2>2, <2>3, ConversionSpoken, Layouts, BehindReturn, <2>4
  <2> QED BY <2>1, <2>4, GivingUp
<1> QED BY <1>1, <1>2, <1>3 DEF parseCastExpression

LEMMA parseConvertExpressionTakes == Quiet /\ parseConvertExpression => WordsInv'
<1> SUFFICES ASSUME Quiet, parseConvertExpression PROVE WordsInv'
  OBVIOUS
<1>1. CASE At("parseConvertExpression")
  <2>1. \/ Mismatches(0, <<"LPAREN">>) = {} /\ Call(2, "parseConvertExpression.TargetType", <<>>,
                                                  "parseDataType")
        \/ GiveUp(0, <<"LPAREN">>)
    BY <1>1 DEF parseConvertExpression, At, Require
  <2>2. Carries(<<>>)
    BY <1>1, CarriesNothing DEF Openings, Functions, Labels, AwaitsResult, InfixFns
  <2>3. Mismatches(0, <<"LPAREN">>) = {} => Peek = "LPAREN"
    BY OneWord
  <2>4. CASE Mismatches(0, <<"LPAREN">>) = {} /\ Call(2, "parseConvertExpression.TargetType",
                                                    <<>>, "parseDataType")
    <3>1. Link("parseConvertExpression", 2, "parseConvertExpression.TargetType", "parseDataType")
      BY ConversionLinks
    <3> QED BY <1>1, <2>2, <2>3, ConversionTurns, ConversionWords, Layouts, BehindCall, <3>1, <2>4
  <2> QED BY <2>1, <2>4, GivingUp
<1>2. CASE At("parseConvertExpression.TargetType")
  <2>1. \/ Mismatches(0, <<"COMMA">>) = {} /\ CallExpression(2,
                                                 "parseConvertExpression.Expression", Got, LOWEST)
        \/ GiveUp(0, <<"COMMA">>)
    BY <1>2 DEF parseConvertExpression, At, Require
  <2>2. Carries(Got)
    BY <1>2, CarriesGot DEF AwaitsResult
  <2>3. Mismatches(0, <<"COMMA">>) = {} => Peek = "COMMA"
    BY OneWord
  <2>4. CASE Mismatches(0, <<"COMMA">>) = {} /\ CallExpression(2,
                                                   "parseConvertExpression.Expression", Got,
                                                   LOWEST)
    <3>1. Link("parseConvertExpression.TargetType", 2, "parseConvertExpression.Expression",
       "parseExpression")
      BY ConversionLinks
    <3> QED BY <1>2, <2>2, <2>3, ConversionTurns, ConversionWords, Layouts, BehindCall, <3>1, <2>4
  <2> QED BY <2>1, <2>4, GivingUp
<1>3. CASE At("parseConvertExpression.Expression")
  <2>1. \/ Peek = "COMMA" /\ CallExpression(2, "parseConvertExpression.Style", Got, LOWEST)
        \/ Mismatches(0, <<"RPAREN">>) = {} /\ ReturnNew("Conversion", Top.at, Got, 1)
        \/ GiveUp(0, <<"RPAREN">>)
    BY <1>3 DEF parseConvertExpression, At, Require
  <2>2. Carries(Got)
    BY <1>3, CarriesGot DEF AwaitsResult
  <2>3. Mismatches(0, <<"RPAREN">>) = {} => Peek = "RPAREN"
    BY OneWord
  <2>4. CASE Peek = "COMMA" /\ CallExpression(2, "parseConvertExpression.Style", Got, LOWEST)
    <3>1. Link("parseConvertExpression.Expression", 2, "parseConvertExpression.Style",
       "parseExpression")
      BY ConversionLinks
    <3> QED BY <1>3, <2>2, <2>3, ConversionTurns, ConversionWords, Layouts, BehindCall, <3>1, <2>4
  <2>5. CASE Mismatches(0, <<"RPAREN">>) = {} /\ ReturnNew("Conversion", Top.at, Got, 1)
    BY <1>3, <2>2, <2>3, ConversionSpoken, Layouts, BehindReturn, <2>5
  <2> QED BY <2>1, <2>4, <2>5, GivingUp
<1>4. CASE At("parseConvertExpression.Style")
  <2>1. \/ Mismatches(0, <<"RPAREN">>) = {} /\ ReturnNew("Conversion", Top.at, GotIfAny, 1)
        \/ GiveUp(0, <<"RPAREN">>)
    BY <1>4 DEF parseConvertExpression, At, Require
  <2>2. Carries(GotIfAny)
    BY <1>4, CarriesGot DEF AwaitsResult
  <2>3. Mismatches(0, <<"RPAREN">>) = {} => Peek = "RPAREN"
    BY OneWord
  <2>4. CASE Mismatches(0, <<"RPAREN">>) = {} /\ ReturnNew("Conversion", Top.at, GotIfAny, 1)
    BY <1>4, <2>2, <2>3, ConversionSpoken, Layouts, BehindReturn, <2>4
  <2> QED BY <2>1, <2>4, GivingUp
<1> QED BY <1>1, <1>2, <1>3, <1>4 DEF parseConvertExpression

LEMMA parseParseExpressionTakes == Quiet /\ parseParseExpression => WordsInv'
<1> SUFFICES ASSUME Quiet, parseParseExpression PROVE WordsInv'
  OBVIOUS
<1>1. CASE At("parseParseExpression")
  <2>1. \/ Mismatches(0, <<"LPAREN">>) = {} /\ CallExpression(2,
                                                  "parseParseExpression.Expression", <<>>, LOWEST)
        \/ GiveUp(0, <<"LPAREN">>)
    BY <1>1 DEF parseParseExpression, At, Require
  <2>2. Carries(<<>>)
    BY <1>1, CarriesNothing DEF Openings, Functions, Labels, AwaitsResult, InfixFns
  <2>3. Mismatches(0, <<"LPAREN">>) = {} => Peek = "LPAREN"
    BY OneWord
  <2>4. CASE Mismatches(0, <<"LPAREN">>) = {} /\ CallExpression(2,
                                                    "parseParseExpression.Expression", <<>>,
                                                    LOWEST)
    <3>1. Link("parseParseExpression", 2, "parseParseExpression.Expression", "parseExpression")
      BY ConversionLinks
    <3> QED BY <1>1, <2>2, <2>3, ConversionTurns, ConversionWords, Layouts, BehindCall, <3>1, <2>4
  <2> QED BY <2>1, <2>4, GivingUp
<1>2. CASE At("parseParseExpression.Expression")
  <2>1. \/ Mismatches(0, <<"AS">>) = {} /\ Call(2, "parseParseExpression.TargetType", Got,
                                              "parseDataType")
        \/ GiveUp(0, <<"AS">>)
    BY <1>2 DEF parseParseExpression, At, Require
  <2>2. Carries(Got)
    BY <1>2, CarriesGot DEF AwaitsResult
  <2>3. Mismatches(0, <<"AS">>) = {} => Peek = "AS"
    BY OneWord
  <2>4. CASE Mismatches(0, <<"AS">>) = {} /\ Call(2, "parseParseExpression.TargetType", Got,
                                                "parseDataType")
    <3>1. Link("parseParseExpression.Expression", 2, "parseParseExpression.TargetType",
       "parseDataType")
      BY ConversionLinks
    <3> QED BY <1>2, <2>2, <2>3, ConversionTurns, ConversionWords, Layouts, BehindCall, <3>1, <2>4
  <2> QED BY <2>1, <2>4, GivingUp
<1>3. CASE At("parseParseExpression.TargetType")
  <2>1. \/ Peek = "USING" /\ CallExpression(2, "parseParseExpression.Culture", Got, LOWEST)
        \/ Mismatches(0, <<"RPAREN">>) = {} /\ ReturnNew("Conversion", Top.at, Got, 1)
        \/ GiveUp(0, <<"RPAREN">>)
    BY <1>3 DEF parseParseExpression, At, Require
  <2>2. Carries(Got)
    BY <1>3, CarriesGot DEF AwaitsResult
  <2>3. Mismatches(0, <<"RPAREN">>) = {} => Peek = "RPAREN"
    BY OneWord
  <2>4. CASE Peek = "USING" /\ CallExpression(2, "parseParseExpression.Culture", Got, LOWEST)
    <3>1. Link("parseParseExpression.TargetType", 2, "parseParseExpression.Culture",
       "parseExpression")
      BY ConversionLinks
    <3> QED BY <1>3, <2>2, <2>3, ConversionTurns, ConversionWords, Layouts, BehindCall, <3>1, <2>4
  <2>5. CASE Mismatches(0, <<"RPAREN">>) = {} /\ ReturnNew("Conversion", Top.at, Got, 1)
    BY <1>3, <2>2, <2>3, ConversionSpoken, Layouts, BehindReturn, <2>5
  <2> QED BY <2>1, <2>4, <2>5, GivingUp
<1>4. CASE At("parseParseExpression.Culture")
  <2>1. \/ Mismatches(0, <<"RPAREN">>) = {} /\ ReturnNew("Conversion", Top.at, GotIfAny, 1)
        \/ GiveUp(0, <<"RPAREN">>)
    BY <1>4 DEF parseParseExpression, At, Require
  <2>2. Carries(GotIfAny)
    BY <1>4, CarriesGot DEF AwaitsResult
  <2>3. Mismatches(0, <<"RPAREN">>) = {} => Peek = "RPAREN"
    BY OneWord
  <2>4. CASE Mismatches(0, <<"RPAREN">>) = {} /\ ReturnNew("Conversion", Top.at, GotIfAny, 1)
    BY <1>4, <2>2, <2>3, ConversionSpoken, Layouts, BehindReturn, <2>4
  <2> QED BY <2>1, <2>4, GivingUp
<1> QED BY <1>1, <1>2, <1>3, <1>4 DEF parseParseExpression

-----------------------------------------------------------------------------
(* Those that pass over more than a word, or that end elsewhere.           *)
LEMMA PrefixWords ==
    \A t : PrefixFn(t) = "parseGroupedExpression" => t = "LPAREN"
BY DEF PrefixFn

LEMMA parseExpressionTakes == Quiet /\ parseExpression => WordsInv'
<1> SUFFICES ASSUME Quiet, parseExpression PROVE WordsInv'
  OBVIOUS
<1>1. CASE At("parseExpression")
  <2> DEFINE fn == PrefixFn(Cur)
             f  == Frame("parseExpression.Left", Top.prec, Top.at, Top.lo, <<>>)
  <2>1. \/ fn # "nil" /\ Call(0, "parseExpression.Left", <<>>, fn)
        \/ Fail(0, 0)
    BY <1>1 DEF parseExpression, At
  <2>2. CASE fn # "nil" /\ Call(0, "parseExpression.Left", <<>>, fn)
    <3>1. Link("parseExpression", 0, "parseExpression.Left", fn)
      BY <2>2, PrefixLinks
    <3>2. fn \in Functions /\ "parseExpression.Left" \in Labels /\ <<>> \in Seq(Nat)
      BY <3>1 DEF Link, Labels
    <3>3. fn = "parseGroupedExpression" => Tok(pos + 0) = "LPAREN"
      <4>1. pos + 0 = pos
        BY DEF Quiet, IInv, MachineInv, MachineTypeOK
      <4> QED BY <4>1, PrefixWords DEF Cur
    <3> HIDE DEF fn
    <3>4. stack # <<>> /\ Top.lo = pos /\ pos \in Nat
      BY <1>1, CarriesNothing, QuietHere DEF Openings, Functions, Labels, AwaitsResult, InfixFns, At
    <3>5. f.pc = "parseExpression.Left" /\ f.kids = <<>> /\ f.lo = pos
      BY <3>4 DEF Frame
    <3>6. HeadKnown(Text, f) /\ AllTaken(Text, heap, f, pos + 0 - 1)
      BY <3>4, <3>5 DEF HeadKnown, AllTaken, GroupPoints
    <3>7. CallFrame(0, "parseExpression.Left", <<>>, Frame(fn, 0, pos + 0, pos + 0, <<>>))
      BY <2>2 DEF Call
    <3> QED BY <3>2, <3>3, <3>4, <3>6, <3>7, CallingTaken
  <2> QED BY <2>1, <2>2, Speaking
<1>2. CASE At("parseExpression.Left")
  <2>1. CASE Peek # "SEMICOLON" /\ Top.prec < Precedence(Peek) /\ InfixFn(Peek) # "nil"
    BY <1>2, <2>1, InfixTakes DEF parseExpression, At, InfixMove
  <2>2. CASE ~ (Peek # "SEMICOLON" /\ Top.prec < Precedence(Peek) /\ InfixFn(Peek) # "nil")
    <3>1. stack # <<>> /\ Top.prec \in Nat /\ Precedence(Peek) \in Nat
      BY <1>2, QuietHere, PrecedenceType DEF At
    <3>2. Top.prec >= Precedence(Peek) \/ Precedence(Peek) = LOWEST
      BY <2>2, <3>1, Unknown
    <3>3. Return(ret)
      BY <1>2, <2>2 DEF parseExpression, At
    <3> QED BY <1>2, <3>2, <3>3, LeftReturns DEF LeftMove
  <2> QED BY <2>1, <2>2
<1> QED BY <1>1, <1>2 DEF parseExpression

LEMMA LeafTurns ==
    \A fn \in DOMAIN LeafKind :
        fn \in Openings /\ Spoken(fn, LeafKind[fn]) /\ LeafKind[fn] \in {"Identifier", "Variable", "Literal"}
<1> SUFFICES ASSUME NEW fn \in DOMAIN LeafKind
             PROVE  fn \in Openings /\ Spoken(fn, LeafKind[fn])
                    /\ LeafKind[fn] \in {"Identifier", "Variable", "Literal"}
  OBVIOUS
<1>1. fn \in {"parseIdentifier", "parseVariable", "parseSysVar", "parseKeywordAsIdentifier",
              "parseAsterisk", "parseIntegerLiteral", "parseFloatLiteral", "parseMoneyLiteral",
              "parseStringLiteral", "parseNStringLiteral", "parseNullLiteral", "parseBinaryLiteral"}
  BY DEF LeafKind
<1>2. fn \in Openings
  BY <1>1 DEF Openings, Functions, Labels, AwaitsResult, InfixFns
<1>3. Words(fn) = {} /\ fn \notin LoosePoints \cup Unread \cup NamePoints
  BY <1>1 DEF Words, LoosePoints, Unread, NamePoints
<1>4. LeafKind[fn] \in {"Identifier", "Variable", "Literal"}
  BY <1>1 DEF LeafKind
<1> QED BY <1>2, <1>3, <1>4 DEF Spoken

LEMMA parseLeafTakes == Quiet /\ parseLeaf => WordsInv'
<1> SUFFICES ASSUME Quiet, NEW fn \in DOMAIN LeafKind, At(fn), ReturnNew(LeafKind[fn], pos, <<>>, 0)
             PROVE  WordsInv'
  BY DEF parseLeaf
<1>1. fn \in Openings /\ Spoken(fn, LeafKind[fn])
  BY LeafTurns
<1>2. Carries(<<>>) /\ Top.at = pos
  BY <1>1, CarriesNothing
<1> QED BY <1>1, <1>2, HereReturn

LEMMA parseFloatLiteralTakes == Quiet /\ parseFloatLiteral => WordsInv'
BY Speaking DEF parseFloatLiteral

LEMMA parseCollateExpressionTakes == Quiet /\ parseCollateExpression => WordsInv'
<1> SUFFICES ASSUME Quiet, At("parseCollateExpression"), ReturnNew("Collate", Top.at, Top.kids, 1)
             PROVE  WordsInv'
  BY DEF parseCollateExpression
<1>1. Carries(Top.kids) /\ stack # <<>> /\ Top.pc = "parseCollateExpression"
  BY CarriesKids DEF AwaitsResult, At
<1>2. Top.at = pos /\ pos \in Nat
  BY <1>1, QuietHere DEF Opened, InfixFns
<1>3. Unseen("parseCollateExpression") = pos + 1 /\ "Collate" \in NamedKinds
  BY DEF Unseen, Unread, NamedKinds
<1>4. Ends("parseCollateExpression", "Collate", Top.at, 1)
  BY <1>2, <1>3 DEF Ends
<1> QED BY <1>1, <1>4, OperatorSpoken, WordsReturn DEF Spoken

LEMMA parseAtTimeZoneExpressionTakes == Quiet /\ parseAtTimeZoneExpression => WordsInv'
<1> SUFFICES ASSUME Quiet, parseAtTimeZoneExpression PROVE WordsInv'
  OBVIOUS
<1>1. CASE At("parseAtTimeZoneExpression")
  <2>1. \/ Return(Top.kids[1])
        \/ /\ Peek = "TIME" /\ Tok(pos + 2) = "ZONE"
           /\ CallExpression(3, "parseAtTimeZoneExpression.TimeZone", Top.kids, CALL)
        \/ Fail(2, 1)
    BY <1>1 DEF parseAtTimeZoneExpression, At
  <2>2. CASE Return(Top.kids[1])
    BY <1>1, <2>2, AtReturns DEF AtMove
  <2>3. CASE /\ Peek = "TIME" /\ Tok(pos + 2) = "ZONE"
             /\ CallExpression(3, "parseAtTimeZoneExpression.TimeZone", Top.kids, CALL)
    <3> DEFINE from == "parseAtTimeZoneExpression"
               pc   == "parseAtTimeZoneExpression.TimeZone"
    <3>1. Carries(Top.kids) /\ pos \in Nat
      BY <1>1, CarriesKids, QuietHere DEF AwaitsResult, At
    <3>2. Link(from, 3, pc, "parseExpression") /\ Turn(from, pc) /\ Unseen(from) = pos + 1
      BY OperatorLinks, OperatorTurns DEF Onward, Unseen
    <3>3. Passed(from, pc, 3)
      <4>1. \A t \in (pos + 1)..(pos + 3 - 1) : t = pos + 1 \/ t = pos + 2
        BY <3>1
      <4> QED BY <2>3, <3>2, <4>1, OperatorWords, Layouts DEF Passed, Peek
    <3> QED BY <1>1, <2>3, <3>1, <3>2, <3>3, WordsCallAbove DEF CALL
  <2> QED BY <2>1, <2>2, <2>3, Speaking
<1>2. CASE At("parseAtTimeZoneExpression.TimeZone")
  <2>1. ReturnNew("AtTimeZone", Top.at, Got, 0)
    BY <1>2 DEF parseAtTimeZoneExpression, At
  <2>2. Carries(Got)
    BY <1>2, CarriesGot DEF AwaitsResult
  <2> QED BY <1>2, <2>2, OperatorSpoken, HereReturn, <2>1
<1> QED BY <1>1, <1>2 DEF parseAtTimeZoneExpression

LEMMA parseNotInfixExpressionTakes == Quiet /\ parseNotInfixExpression => WordsInv'
BY NotTakes, Speaking DEF parseNotInfixExpression, NotMove

LEMMA parseIsNullExpressionTakes == Quiet /\ parseIsNullExpression => WordsInv'
<1> SUFFICES ASSUME Quiet, parseIsNullExpression PROVE WordsInv'
  OBVIOUS
<1>1. At("parseIsNullExpression")
  BY DEF parseIsNullExpression
<1>2. PICK k \in 1..2 :
         \/ /\ k = 2 => Peek = "NOT"
            /\ Tok(pos + k) = "NULL" /\ ReturnNew("IsNull", Top.at, Top.kids, k)
         \/ Fail(k, k)
  BY DEF parseIsNullExpression
<1>3. Carries(Top.kids) /\ pos \in Nat /\ k \in Nat
  BY <1>1, CarriesKids, QuietHere DEF AwaitsResult, At
<1>4. ASSUME k = 2 => Peek = "NOT", Tok(pos + k) = "NULL", ReturnNew("IsNull", Top.at, Top.kids, k)
      PROVE  WordsInv'
  <2>1. \A t \in (pos + 1)..(pos + k) : t = pos + k \/ (k = 2 /\ t = pos + 1)
    BY <1>3
  <2>2. Unseen("parseIsNullExpression") = pos + 1
    BY DEF Unseen, Unread
  <2>3. Ends("parseIsNullExpression", "IsNull", Top.at, k)
    BY <1>4, <2>1, <2>2, Layouts DEF Ends, Peek
  <2> QED BY <1>1, <1>3, <1>4, <2>3, OperatorSpoken, WordsReturn DEF Spoken
<1> QED BY <1>2, <1>4, Speaking

LEMMA parseGroupedExpressionTakes == Quiet /\ parseGroupedExpression => WordsInv'
<1> SUFFICES ASSUME Quiet, parseGroupedExpression PROVE WordsInv'
  OBVIOUS
<1>1. CASE At("parseGroupedExpression")
  <2>1. \/ Peek = "RPAREN" /\ ReturnNew("Tuple", pos, <<>>, 1)
        \/ Call(1, "parseGroupedExpression.Subquery", <<>>, "parseSelectStatement")
        \/ CallExpression(1, "parseGroupedExpression.Exp", <<>>, LOWEST)
    BY <1>1 DEF parseGroupedExpression, At
  <2>2. Carries(<<>>) /\ Top.at = pos /\ pos \in Nat /\ <<>> \in Seq(Nat)
    BY <1>1, CarriesNothing, QuietHere DEF Openings, Functions, Labels, AwaitsResult, InfixFns, At
  <2>3. CASE Peek = "RPAREN" /\ ReturnNew("Tuple", pos, <<>>, 1)
    BY <1>1, <2>2, <2>3, CallingSpoken, Layouts, BehindReturn
  <2>4. CASE Call(1, "parseGroupedExpression.Subquery", <<>>, "parseSelectStatement")
    <3>1. Link("parseGroupedExpression", 1, "parseGroupedExpression.Subquery", "parseSelectStatement")
      BY CallingLinks
    <3> QED BY <1>1, <2>2, <2>4, <3>1, CallingTurns, NextCall
  <2>5. CASE CallExpression(1, "parseGroupedExpression.Exp", <<>>, LOWEST)
    <3> DEFINE from == "parseGroupedExpression"
               pc   == "parseGroupedExpression.Exp"
    <3>1. Link(from, 1, pc, "parseExpression")
      BY CallingLinks
    <3>2. Turn(from, pc)
      BY CallingWords DEF Turn, LoosePoints, NamePoints, Unmarked, Exprs, GroupPoints
    <3>3. Passed(from, pc, 1)
      BY <2>2 DEF Passed, Unseen, Unread
    <3> QED BY <1>1, <2>2, <2>5, <3>1, <3>2, <3>3, WordsCall
  <2> QED BY <2>1, <2>3, <2>4, <2>5
<1>2. CASE At("parseGroupedExpression.Subquery")
  <2> DEFINE from == "parseGroupedExpression.Subquery"
  <2>1. \/ Peek = "RPAREN" /\ ReturnNew("Subquery", pos + 1, Got, 1)
        \/ Fail(1, 0)
    BY <1>2 DEF parseGroupedExpression, At
  <2>2. CASE Peek = "RPAREN" /\ ReturnNew("Subquery", pos + 1, Got, 1)
    <3>1. Carries(Got) /\ stack # <<>> /\ Top.pc = from
      BY <1>2, CarriesGot DEF AwaitsResult, At
    <3>2. Tok(Top.at) = "LPAREN" /\ pos \in Nat
      BY <3>1, QuietHere, TextAt DEF HeadKnown, GroupPoints
    <3>3. Ends(from, "Subquery", pos + 1, 1)
      BY <3>2 DEF Ends, Unseen, Unread
    <3>4. Tok(Top.at) \in Layout("Subquery")
      BY <3>2, Layouts
    <3> QED BY <1>2, <2>2, <3>1, <3>3, <3>4, CallingSpoken, WordsReturn DEF Spoken
  <2> QED BY <2>1, <2>2, Speaking
<1>3. CASE At("parseGroupedExpression.Exp")
  <2>1. \/ Peek = "RPAREN" /\ ParenMove
        \/ Fail(1, 0)
    BY <1>3 DEF parseGroupedExpression, At, ParenMove
  <2> QED BY <2>1, ParenReturns, Speaking
<1> QED BY <1>1, <1>2, <1>3 DEF parseGroupedExpression

(* A name behind the operator, and the arguments behind that.              *)
LEMMA NamedCall ==
    ASSUME Quiet, NEW from, At(from), from \in {"parseDotExpression", "parseScopeExpression"},
           NEW pc \in NamePoints, Link(from, 2, pc, "parseExpressionList"), Onward(from, pc),
           Call(2, pc, Top.kids, "parseExpressionList")
    PROVE  WordsInv'
<1>1. Carries(Top.kids) /\ stack # <<>> /\ Top.pc = from
  BY CarriesKids DEF AwaitsResult, At
<1>2. Top.at = pos /\ pos \in Nat /\ Top.kids \in Seq(Nat)
  BY <1>1, QuietHere DEF Opened, InfixFns
<1>3. Unseen(from) = pos + 1 /\ \A t \in (pos + 1)..(pos + 2 - 1) : t = Top.at + 1
  BY <1>2 DEF Unseen, Onward
<1>4. Passed(from, pc, 2)
  BY <1>3 DEF Passed
<1> QED BY <1>1, <1>2, <1>4, WordsCall DEF Onward

LEMMA NamedReturn ==
    ASSUME Quiet, NEW from \in NamePoints, At(from), NEW kind \in NamedKinds,
           ReturnNew(kind, Top.at, GotIfAny, 0)
    PROVE  WordsInv'
<1>1. Carries(GotIfAny) /\ pos \in Nat
  BY CarriesGot, QuietHere DEF AwaitsResult, NamePoints, At
<1>2. Words(from) = {} /\ from \notin LoosePoints /\ Unseen(from) = pos + 1
  BY CallingWords DEF NamePoints, LoosePoints, Unseen, Unread
<1>3. Ends(from, kind, Top.at, 0)
  BY <1>1, <1>2 DEF Ends
<1> QED BY <1>1, <1>2, <1>3, WordsReturn

LEMMA parseDotExpressionTakes == Quiet /\ parseDotExpression => WordsInv'
<1> SUFFICES ASSUME Quiet, parseDotExpression PROVE WordsInv'
  OBVIOUS
<1>1. CASE At("parseDotExpression")
  <2>1. \/ Call(2, "parseDotExpression.Arguments", Top.kids, "parseExpressionList")
        \/ \E kids \in {Top.kids, <<>>} : ReturnNew("QualifiedIdentifier", pos + 1, kids, 1)
    BY <1>1 DEF parseDotExpression, At
  <2>2. CASE Call(2, "parseDotExpression.Arguments", Top.kids, "parseExpressionList")
    BY <1>1, <2>2, CallingLinks, CallingTurns, NamedCall DEF NamePoints
  <2>3. ASSUME NEW kids, ReturnNew("QualifiedIdentifier", pos + 1, kids, 1) PROVE WordsInv'
    BY <1>1, <2>3, LooseReturn DEF Loose
  <2> QED BY <2>1, <2>2, <2>3
<1>2. CASE At("parseDotExpression.Arguments")
  BY <1>2, NamedReturn DEF parseDotExpression, At, NamePoints, NamedKinds
<1> QED BY <1>1, <1>2 DEF parseDotExpression

LEMMA parseScopeExpressionTakes == Quiet /\ parseScopeExpression => WordsInv'
<1> SUFFICES ASSUME Quiet, parseScopeExpression PROVE WordsInv'
  OBVIOUS
<1>1. CASE At("parseScopeExpression")
  <2>1. \/ Call(2, "parseScopeExpression.Arguments", Top.kids, "parseExpressionList")
        \/ ReturnNew("StaticMethodCall", Top.at, Top.kids, 1)
        \/ Panic
    BY <1>1 DEF parseScopeExpression, At
  <2>2. CASE Call(2, "parseScopeExpression.Arguments", Top.kids, "parseExpressionList")
    BY <1>1, <2>2, CallingLinks, CallingTurns, NamedCall DEF NamePoints
  <2>3. CASE ReturnNew("StaticMethodCall", Top.at, Top.kids, 1)
    <3>1. Carries(Top.kids) /\ stack # <<>> /\ Top.pc = "parseScopeExpression"
      BY <1>1, CarriesKids DEF AwaitsResult, At
    <3>2. Top.at = pos /\ pos \in Nat
      BY <3>1, QuietHere DEF Opened, InfixFns
    <3>3. Unseen("parseScopeExpression") = pos + 1 /\ "StaticMethodCall" \in NamedKinds
      BY DEF Unseen, Unread, NamedKinds
    <3>4. Ends("parseScopeExpression", "StaticMethodCall", Top.at, 1)
      BY <3>2, <3>3 DEF Ends
    <3> QED BY <1>1, <2>3, <3>1, <3>4, CallingSpoken, WordsReturn DEF Spoken
  <2>4. CASE Panic
    <3>1. stack' = <<>> /\ input' = input /\ heap' = heap
      BY <2>4 DEF Panic
    <3>2. \A n \in DOMAIN heap : NodeTaken(Text, heap, heap[n])
      BY <1>1, QuietHere DEF At
    <3> QED BY <3>1, <3>2, NoCallsTaken, StillTaken
  <2> QED BY <2>1, <2>2, <2>3, <2>4
<1>2. CASE At("parseScopeExpression.Arguments")
  BY <1>2, NamedReturn DEF parseScopeExpression, At, NamePoints, NamedKinds
<1> QED BY <1>1, <1>2 DEF parseScopeExpression

LEMMA parseFunctionLiteralTakes == Quiet /\ parseFunctionLiteral => WordsInv'
<1> SUFFICES ASSUME Quiet, parseFunctionLiteral PROVE WordsInv'
  OBVIOUS
<1>1. CASE ReturnNew("Identifier", pos, <<>>, 0)
  <2>1. At("parseFunctionLiteral")
    BY DEF parseFunctionLiteral
  <2>2. Carries(<<>>) /\ Top.at = pos
    BY <2>1, CarriesNothing DEF Openings, Functions, Labels, AwaitsResult, InfixFns
  <2> QED BY <1>1, <2>1, <2>2, CallingSpoken, HereReturn
<1> QED BY <1>1, NameTakes DEF parseFunctionLiteral, NameMove

LEMMA parseSubqueryExpressionTakes == Quiet /\ parseSubqueryExpression => WordsInv'
<1> SUFFICES ASSUME Quiet, parseSubqueryExpression PROVE WordsInv'
  OBVIOUS
<1>1. CASE At("parseSubqueryExpression")
  <2> DEFINE pc == "parseSubqueryExpression.Select"
             f  == Frame(pc, Top.prec, Top.at, Top.lo, <<>>)
  <2>1. CallFrame(0, pc, <<>>, Frame("parseSelectStatement", 0, pos + 0, pos + 0, <<>>))
    BY <1>1 DEF parseSubqueryExpression, Call, At
  <2>2. stack # <<>> /\ Top.lo = pos /\ pos \in Nat
    BY <1>1, CarriesNothing, QuietHere DEF Openings, Functions, Labels, AwaitsResult, InfixFns, At
  <2>3. f.pc = pc /\ f.lo = pos
    BY <2>2 DEF Frame
  <2>4. HeadKnown(Text, f) /\ AllTaken(Text, heap, f, pos + 0 - 1)
    BY <2>2, <2>3 DEF HeadKnown, AllTaken, GroupPoints
  <2>5. pc \in Labels /\ "parseSelectStatement" \in Functions /\ <<>> \in Seq(Nat)
    BY DEF Functions, Labels, AwaitsResult, InfixFns
  <2> QED BY <2>1, <2>2, <2>4, <2>5, CallingTaken
<1>2. CASE At("parseSubqueryExpression.Select")
  <2> DEFINE from == "parseSubqueryExpression.Select"
  <2>1. ReturnNew("Subquery", pos, Got, 0)
    BY <1>2 DEF parseSubqueryExpression, At
  <2>2. Carries(Got) /\ pos \in Nat
    BY <1>2, CarriesGot, QuietHere DEF AwaitsResult, At
  <2>3. Ends(from, "Subquery", pos, 0)
    BY <2>2 DEF Ends, Unseen, Unread
  <2> QED BY <1>2, <2>1, <2>2, <2>3, CallingSpoken, WordsReturn DEF Spoken, Unmarked
<1> QED BY <1>1, <1>2 DEF parseSubqueryExpression

LEMMA parseCallExpressionTakes == Quiet /\ parseCallExpression => WordsInv'
<1> SUFFICES ASSUME Quiet, parseCallExpression PROVE WordsInv'
  OBVIOUS
<1>1. CASE At("parseCallExpression")
  <2>1. PICK k \in 0..1 : Call(k, "parseCallExpression.Arguments", Top.kids, "parseExpressionList")
    BY <1>1 DEF parseCallExpression, At
  <2>2. Link("parseCallExpression", k, "parseCallExpression.Arguments", "parseExpressionList")
    BY CallingLinks
  <2>3. Carries(Top.kids)
    BY <1>1, CarriesKids DEF AwaitsResult
  <2> QED BY <1>1, <2>1, <2>2, <2>3, CallingTurns, NextCall
<1>2. CASE At("parseCallExpression.Arguments")
  <2> DEFINE from == "parseCallExpression.Arguments"
  <2>1. \/ Continue(0, "parseCallExpression.Over", GotIfAny)
        \/ /\ Peek = "WITHIN" /\ \A j \in 2..5 : Tok(pos + j) = WithinGroup[j]
           /\ Call(6, "parseCallExpression.WithinGroup", GotIfAny, "parseOrderByItems")
        \/ Fail(FirstMissing, FirstMissing - 1)
    BY <1>2 DEF parseCallExpression, At
  <2>2. Carries(GotIfAny) /\ GotIfAny \in Seq(Nat) /\ pos \in Nat
    BY <1>2, CarriesGot, QuietHere DEF AwaitsResult, At, Carries
  <2>3. CASE Continue(0, "parseCallExpression.Over", GotIfAny)
    <3> DEFINE pc == "parseCallExpression.Over"
    <3>1. pc \notin Openings /\ pc \notin Unread
      BY DEF Openings, Unread
    <3>2. Passed(from, pc, IF pc \in Unread THEN 0 ELSE 0 + 1)
      BY <2>2, <3>1 DEF Passed, Unseen, Unread
    <3>3. Way(from, 0, pc) /\ Turn(from, pc)
      BY Ways, CallingTurns DEF Onward
    <3> QED BY <1>2, <2>2, <2>3, <3>1, <3>2, <3>3, WordsGo
  <2>4. CASE /\ Peek = "WITHIN" /\ \A j \in 2..5 : Tok(pos + j) = WithinGroup[j]
             /\ Call(6, "parseCallExpression.WithinGroup", GotIfAny, "parseOrderByItems")
    <3> DEFINE pc == "parseCallExpression.WithinGroup"
    <3>1. Link(from, 6, pc, "parseOrderByItems") /\ Turn(from, pc) /\ Unseen(from) = pos + 1
      BY CallingLinks, CallingTurns DEF Onward, Unseen
    <3>2. \A t \in (pos + 1)..(pos + 6 - 1) :
             t = pos + 1 \/ t = pos + 2 \/ t = pos + 3 \/ t = pos + 4 \/ t = pos + 5
      BY <2>2
    <3>3. /\ Tok(pos + 2) = "GROUP" /\ Tok(pos + 3) = "LPAREN"
          /\ Tok(pos + 4) = "ORDER" /\ Tok(pos + 5) = "BY"
      BY <2>4 DEF WithinGroup
    <3>4. \A t \in (pos + 1)..(pos + 6 - 1) : Tok(t) \in Words(pc)
      BY <2>4, <3>2, <3>3, CallingWords, Layouts DEF Peek
    <3>5. Passed(from, pc, 6)
      BY <3>1, <3>4 DEF Passed
    <3>6. Call(6, pc, GotIfAny, "parseOrderByItems") /\ 6 \in Nat
      BY <2>4
    <3> QED BY <1>2, <2>2, <3>1, <3>5, <3>6, WordsCall
  <2> QED BY <2>1, <2>3, <2>4, Speaking
<1>3. CASE At("parseCallExpression.WithinGroup")
  <2> DEFINE from == "parseCallExpression.WithinGroup"
             pc   == "parseCallExpression.Over"
  <2>1. \/ Peek = "RPAREN" /\ Continue(1, pc, Got)
        \/ Fail(1, 0)
    BY <1>3 DEF parseCallExpression, At
  <2>2. CASE Peek = "RPAREN" /\ Continue(1, pc, Got)
    <3>1. Carries(Got) /\ Got \in Seq(Nat) /\ stack # <<>>
      BY <1>3, CarriesGot DEF AwaitsResult, At, Carries
    <3>2. Way(from, 1, pc) /\ Onward(from, pc) /\ pc \notin Openings /\ pc \notin Unread
      BY Ways, CallingTurns DEF Openings, Unread
    <3>3. Passed(from, pc, 1 + 1)
      BY <2>2, <3>1, <3>2, CallingWords, Layouts, BehindPassed
    <3> QED BY <1>3, <2>2, <3>1, <3>2, <3>3, WordsGo DEF Onward
  <2> QED BY <2>1, <2>2, Speaking
<1>4. CASE At("parseCallExpression.Over")
  <2>1. \/ Call(1, "parseCallExpression.Clause", Top.kids, "parseOverClause")
        \/ ReturnNew("FunctionCall", Top.at, Top.kids, 0)
    BY <1>4 DEF parseCallExpression, At
  <2>2. Carries(Top.kids)
    BY <1>4, CarriesKids DEF AwaitsResult
  <2>3. CASE Call(1, "parseCallExpression.Clause", Top.kids, "parseOverClause")
    <3>1. Link("parseCallExpression.Over", 1, "parseCallExpression.Clause", "parseOverClause")
      BY CallingLinks
    <3> QED BY <1>4, <2>2, <2>3, <3>1, CallingTurns, NextCall
  <2>4. CASE ReturnNew("FunctionCall", Top.at, Top.kids, 0)
    BY <1>4, <2>2, <2>4, CallingSpoken, HereReturn
  <2> QED BY <2>1, <2>3, <2>4
<1>5. CASE At("parseCallExpression.Clause")
  <2>1. Carries(GotIfAny)
    BY <1>5, CarriesGot DEF AwaitsResult
  <2> QED BY <1>5, <2>1, CallingSpoken, HereReturn DEF parseCallExpression, At
<1> QED BY <1>1, <1>2, <1>3, <1>4, <1>5 DEF parseCallExpression

(* From one WHEN to the next, whose word has not been looked at.           *)
LEMMA NextWhen ==
    ASSUME Quiet, NEW from, At(from), NEW pc \in {"parseCaseExpression.When", "parseCaseExpression.End"},
           Way(from, 1, pc), from \notin Unread, Turn(from, pc), NEW kids, Carries(kids),
           Continue(1, pc, kids)
    PROVE  WordsInv'
<1>1. pc \in Unread /\ pc \notin Openings /\ kids \in Seq(Nat) /\ pos \in Nat
  BY QuietHere DEF Unread, Openings, Carries, At
<1>2. Passed(from, pc, 1)
  BY <1>1 DEF Passed, Unseen
<1> QED BY <1>1, <1>2, WordsGo

(* From a WHEN or an ELSE to what follows it.                              *)
LEMMA AfterWhen ==
    ASSUME Quiet, At("parseCaseExpression.When"), Cur \in {"WHEN", "ELSE"},
           NEW pc \in {"parseCaseExpression.Condition", "parseCaseExpression.Else"},
           Link("parseCaseExpression.When", 1, pc, "parseExpression"),
           CallExpression(1, pc, Top.kids, LOWEST)
    PROVE  WordsInv'
<1>1. Carries(Top.kids) /\ pos \in Nat /\ Top.kids \in Seq(Nat)
  BY CarriesKids, QuietHere DEF AwaitsResult, At
<1>2. Words(pc) = Layout("Case") /\ Turn("parseCaseExpression.When", pc)
  BY ListWords, ListTurns
<1>3. Unseen("parseCaseExpression.When") = pos /\ \A t \in pos..(pos + 1 - 1) : t = pos
  BY <1>1 DEF Unseen, Unread
<1>4. Passed("parseCaseExpression.When", pc, 1)
  BY <1>2, <1>3, Layouts DEF Passed, Cur
<1> QED BY <1>1, <1>2, <1>4, WordsCall

LEMMA CaseEndTakes == Quiet /\ CaseEnd => WordsInv'
<1> SUFFICES ASSUME Quiet, CaseEnd PROVE WordsInv'
  OBVIOUS
<1>1. PICK from \in {"parseCaseExpression.End", "parseCaseExpression.When"} : At(from)
  BY DEF CaseEnd
<1>2. \/ Cur = "END" /\ ReturnNew("Case", Top.at, Top.kids, 0)
      \/ Fail(0, 0)
  BY DEF CaseEnd
<1>3. CASE Cur = "END" /\ ReturnNew("Case", Top.at, Top.kids, 0)
  <2>1. Carries(Top.kids) /\ pos \in Nat
    BY <1>1, CarriesKids, QuietHere DEF AwaitsResult, At
  <2>2. Words(from) = Layout("Case") /\ from \notin LoosePoints \cup NamePoints
    BY ListWords DEF LoosePoints, NamePoints
  <2>3. Unseen(from) = pos /\ \A t \in pos..(pos + 0) : t = pos
    BY <2>1 DEF Unseen, Unread
  <2>4. Ends(from, "Case", Top.at, 0)
    BY <1>3, <2>3, Layouts DEF Ends, Cur
  <2> QED BY <1>1, <1>3, <2>1, <2>2, <2>4, WordsReturn
<1> QED BY <1>2, <1>3, Speaking

LEMMA parseCaseExpressionTakes == Quiet /\ parseCaseExpression => WordsInv'
<1> SUFFICES ASSUME Quiet, parseCaseExpression PROVE WordsInv'
  OBVIOUS
<1>1. CASE At("parseCaseExpression")
  <2>1. \/ Continue(1, "parseCaseExpression.When", <<>>)
        \/ CallExpression(1, "parseCaseExpression.Operand", <<>>, LOWEST)
    BY <1>1 DEF parseCaseExpression, At, CaseEnd
  <2>2. Carries(<<>>)
    BY <1>1, CarriesNothing DEF Openings, Functions, Labels, AwaitsResult, InfixFns
  <2>3. CASE Continue(1, "parseCaseExpression.When", <<>>)
    BY <1>1, <2>2, <2>3, Ways, ListTurns, NextWhen DEF Onward
  <2>4. CASE CallExpression(1, "parseCaseExpression.Operand", <<>>, LOWEST)
    <3>1. Link("parseCaseExpression", 1, "parseCaseExpression.Operand", "parseExpression")
      BY CallingLinks
    <3> QED BY <1>1, <2>2, <2>4, <3>1, ListTurns, NextCall
  <2> QED BY <2>1, <2>3, <2>4
<1>2. CASE At("parseCaseExpression.Operand")
  <2>1. Carries(GotIfAny)
    BY <1>2, CarriesGot DEF AwaitsResult
  <2> QED BY <1>2, <2>1, Ways, ListTurns, NextWhen DEF parseCaseExpression, At, CaseEnd, Onward
<1>3. CASE At("parseCaseExpression.When") /\ ~ CaseEnd
  <2>1. /\ Cur \in {"WHEN", "ELSE"}
        /\ \/ CallExpression(1, "parseCaseExpression.Condition", Top.kids, LOWEST)
           \/ CallExpression(1, "parseCaseExpression.Else", Top.kids, LOWEST)
    BY <1>3 DEF parseCaseExpression, At
  <2> QED BY <1>3, <2>1, CallingLinks, AfterWhen
<1>4. CASE At("parseCaseExpression.Condition")
  <2>1. \/ Peek = "THEN" /\ CallExpression(2, "parseCaseExpression.Result", Got, LOWEST)
        \/ Fail(1, 0)
    BY <1>4 DEF parseCaseExpression, At, CaseEnd
  <2>2. CASE Peek = "THEN" /\ CallExpression(2, "parseCaseExpression.Result", Got, LOWEST)
    <3>1. Carries(Got)
      BY <1>4, CarriesGot DEF AwaitsResult
    <3>2. Link("parseCaseExpression.Condition", 2, "parseCaseExpression.Result", "parseExpression")
      BY CallingLinks
    <3> QED BY <1>4, <2>2, <3>1, <3>2, ListTurns, ListWords, Layouts, BehindCall
  <2> QED BY <2>1, <2>2, Speaking
<1>5. CASE At("parseCaseExpression.Result")
  <2>1. Carries(Got)
    BY <1>5, CarriesGot DEF AwaitsResult
  <2> QED BY <1>5, <2>1, Ways, ListTurns, NextWhen DEF parseCaseExpression, At, CaseEnd, Onward
<1>6. CASE At("parseCaseExpression.Else")
  <2>1. Carries(GotIfAny)
    BY <1>6, CarriesGot DEF AwaitsResult
  <2> QED BY <1>6, <2>1, Ways, ListTurns, NextWhen DEF parseCaseExpression, At, CaseEnd, Onward
<1>7. CASE CaseEnd
  BY <1>7, CaseEndTakes
<1> QED BY <1>1, <1>2, <1>3, <1>4, <1>5, <1>6, <1>7 DEF parseCaseExpression

LEMMA parseOrderByItemsTakes == Quiet /\ parseOrderByItems => WordsInv'
<1> SUFFICES ASSUME Quiet, parseOrderByItems PROVE WordsInv'
  OBVIOUS
<1>1. CASE At("parseOrderByItems")
  <2>1. CallExpression(0, "parseOrderByItems.Item", <<>>, LOWEST)
    BY <1>1 DEF parseOrderByItems, At
  <2>2. Carries(<<>>)
    BY <1>1, CarriesNothing DEF Openings, Functions, Labels, AwaitsResult, InfixFns
  <2> QED BY <1>1, <2>1, <2>2, WindowLinks, ListTurns, NextCall
<1>2. CASE At("parseOrderByItems.Item")
  <2> DEFINE pc == "parseOrderByItems.Item"
  <2>1. PICK k \in 0..1 :
           /\ k = 1 => Peek \in {"ASC", "DESC"}
           /\ \/ /\ Tok(pos + k + 1) = "COMMA"
                 /\ CallExpression(k + 2, pc, Got, LOWEST)
              \/ ReturnNew("OrderBy", Top.at, Got, k)
    <3> DEFINE j == IF Peek \in {"ASC", "DESC"} THEN 1 ELSE 0
    <3>1. j \in 0..1 /\ (j = 1 => Peek \in {"ASC", "DESC"})
      OBVIOUS
    <3>2. \/ /\ Tok(pos + j + 1) = "COMMA"
             /\ CallExpression(j + 2, pc, Got, LOWEST)
          \/ ReturnNew("OrderBy", Top.at, Got, j)
      BY <1>2 DEF parseOrderByItems, At
    <3> QED BY <3>1, <3>2
  <2>2. Carries(Got) /\ Got \in Seq(Nat) /\ pos \in Nat /\ k + 2 \in Nat /\ k \in Nat /\ k + 2 \in 2..3
    BY <1>2, CarriesGot, QuietHere DEF AwaitsResult, At, Carries
  <2>3. CASE Tok(pos + k + 1) = "COMMA" /\ CallExpression(k + 2, pc, Got, LOWEST)
    <3>1. Link(pc, k + 2, pc, "parseExpression") /\ Turn(pc, pc) /\ Unseen(pc) = pos + 1
      BY <2>2, WindowLinks, ListTurns DEF Onward, Unseen
    <3>2. \A t \in (pos + 1)..(pos + (k + 2) - 1) : t = pos + k + 1 \/ (k = 1 /\ t = pos + 1)
      BY <2>2
    <3>3. \A t \in (pos + 1)..(pos + (k + 2) - 1) : Tok(t) \in Words(pc)
      BY <2>1, <2>3, <3>2, ListWords, Layouts DEF Peek
    <3>4. Passed(pc, pc, k + 2)
      BY <3>1, <3>3 DEF Passed
    <3> QED BY <1>2, <2>2, <2>3, <3>1, <3>4, WordsCall
  <2>4. CASE ReturnNew("OrderBy", Top.at, Got, k)
    <3>1. CASE k = 0
      BY <1>2, <2>2, <2>4, <3>1, ListSpoken, HereReturn
    <3>2. CASE k = 1
      BY <1>2, <2>1, <2>2, <2>4, <3>2, ListSpoken, Layouts, BehindReturn
    <3> QED BY <3>1, <3>2
  <2> QED BY <2>1, <2>3, <2>4
<1> QED BY <1>1, <1>2 DEF parseOrderByItems

LEMMA parseTrimExpressionTakes == Quiet /\ parseTrimExpression => WordsInv'
<1> SUFFICES ASSUME Quiet, parseTrimExpression PROVE WordsInv'
  OBVIOUS
<1>1. CASE At("parseTrimExpression")
  <2> DEFINE from == "parseTrimExpression"
             pc   == "parseTrimExpression.First"
  <2>1. PICK k \in {2, 3} :
           /\ k = 3 => Tok(pos + 2) \in {"IDENT", "STRING", "NSTRING"}
           /\ \/ Mismatches(0, <<"LPAREN">>) = {} /\ CallExpression(k, pc, <<>>, LOWEST)
              \/ GiveUp(0, <<"LPAREN">>)
    BY <1>1 DEF parseTrimExpression, At, Require
  <2>2. CASE Mismatches(0, <<"LPAREN">>) = {} /\ CallExpression(k, pc, <<>>, LOWEST)
    <3>1. Carries(<<>>) /\ pos \in Nat /\ k \in Nat /\ <<>> \in Seq(Nat)
      BY <1>1, CarriesNothing, QuietHere
         DEF Openings, Functions, Labels, AwaitsResult, InfixFns, At
    <3>2. Tok(pos + 1) = "LPAREN"
      BY <2>2, OneWord DEF Peek
    <3>3. Link(from, k, pc, "parseExpression") /\ Turn(from, pc) /\ Unseen(from) = pos + 1
      BY ConversionLinks, ConversionTurns DEF Onward, Unseen
    <3>4. \A t \in (pos + 1)..(pos + k - 1) : t = pos + 1 \/ (k = 3 /\ t = pos + 2)
      BY <3>1
    <3>5. \A t \in (pos + 1)..(pos + k - 1) : Tok(t) \in Words(pc)
      BY <2>1, <3>2, <3>4, ConversionWords, Layouts
    <3>6. Passed(from, pc, k)
      BY <3>3, <3>5 DEF Passed
    <3> QED BY <1>1, <2>2, <3>1, <3>3, <3>6, WordsCall
  <2> QED BY <2>1, <2>2, GivingUp
<1>2. CASE At("parseTrimExpression.First")
  <2>1. \/ Peek = "FROM" /\ CallExpression(2, "parseTrimExpression.Expression", GotIfAny, LOWEST)
        \/ Mismatches(0, <<"RPAREN">>) = {} /\ ReturnNew("Trim", Top.at, Got, 1)
        \/ GiveUp(0, <<"RPAREN">>)
    BY <1>2 DEF parseTrimExpression, At, Require
  <2>2. Carries(Got) /\ Carries(GotIfAny)
    BY <1>2, CarriesGot DEF AwaitsResult
  <2>3. CASE Peek = "FROM" /\ CallExpression(2, "parseTrimExpression.Expression", GotIfAny, LOWEST)
    <3>1. Link("parseTrimExpression.First", 2, "parseTrimExpression.Expression", "parseExpression")
      BY ConversionLinks
    <3> QED BY <1>2, <2>2, <2>3, <3>1, ConversionTurns, ConversionWords, Layouts, BehindCall
  <2>4. CASE Mismatches(0, <<"RPAREN">>) = {} /\ ReturnNew("Trim", Top.at, Got, 1)
    <3>1. Peek = "RPAREN"
      BY <2>4, OneWord
    <3> QED BY <1>2, <2>2, <2>4, <3>1, ConversionSpoken, Layouts, BehindReturn
  <2> QED BY <2>1, <2>3, <2>4, GivingUp
<1>3. CASE At("parseTrimExpression.Expression")
  <2>1. \/ Mismatches(0, <<"RPAREN">>) = {} /\ ReturnNew("Trim", Top.at, Got, 1)
        \/ GiveUp(0, <<"RPAREN">>)
    BY <1>3 DEF parseTrimExpression, At, Require
  <2>2. CASE Mismatches(0, <<"RPAREN">>) = {} /\ ReturnNew("Trim", Top.at, Got, 1)
    <3>1. Carries(Got) /\ Peek = "RPAREN"
      BY <1>3, <2>2, CarriesGot, OneWord DEF AwaitsResult
    <3> QED BY <1>3, <2>2, <3>1, ConversionSpoken, Layouts, BehindReturn
  <2> QED BY <2>1, <2>2, GivingUp
<1> QED BY <1>1, <1>2, <1>3 DEF parseTrimExpression
-----------------------------------------------------------------------------
(* The functions that may swallow words.                                   *)
LEMMA NoKids == \E none \in Seq(Nat) : none = <<>>
BY <<>> \in Seq(Nat)

LEMMA LooseKids ==
    ASSUME Quiet, stack # <<>>
    PROVE  /\ pos \in Nat /\ Top.kids \in Seq(Nat) /\ <<>> \in Seq(Nat)
           /\ Top.pc \in AwaitsResult => Got \in Seq(Nat) /\ GotIfAny \in Seq(Nat)
BY QuietHere, QuietResult

LEMMA parseFrameBoundTakes == Quiet /\ parseFrameBound => WordsInv'
<1> SUFFICES ASSUME Quiet, parseFrameBound PROVE WordsInv'
  OBVIOUS
<1>1. CASE At("parseFrameBound")
  <2>1. \/ ReturnNew("FrameBound", pos, <<>>, 1)
        \/ CallExpression(0, "parseFrameBound.Offset", <<>>, LOWEST)
    BY <1>1 DEF parseFrameBound, At
  <2>2. CASE CallExpression(0, "parseFrameBound.Offset", <<>>, LOWEST)
    <3>1. Link("parseFrameBound", 0, "parseFrameBound.Offset", "parseExpression")
      BY WindowLinks
    <3>2. PICK none \in Seq(Nat) : none = <<>>
      BY NoKids
    <3>3. CallExpression(0, "parseFrameBound.Offset", none, LOWEST)
      BY <2>2, <3>2
    <3> QED BY <1>1, <3>1, <3>3, LooseCall DEF LoosePoints
  <2> QED BY <1>1, <2>1, <2>2, LooseReturn DEF Loose
<1>2. CASE At("parseFrameBound.Offset")
  BY <1>2, LooseReturn DEF Loose, parseFrameBound, At
<1> QED BY <1>1, <1>2 DEF parseFrameBound

LEMMA parseOverClauseTakes == Quiet /\ parseOverClause => WordsInv'
<1> SUFFICES ASSUME Quiet, parseOverClause PROVE WordsInv'
  OBVIOUS
<1>1. CASE At("parseOverClause")
  <2>1. \/ ReturnNew("Over", Top.at, <<>>, 1)
        \/ CallExpression(4, "parseOverClause.Partition", <<>>, LOWEST)
        \/ Continue(2, "parseOverClause.Order", <<>>)
        \/ Fail(3, 2) \/ Fail(1, 0)
    BY <1>1 DEF parseOverClause, At, OverClose
  <2>2. PICK none \in Seq(Nat) : none = <<>>
    BY NoKids
  <2>3. CASE CallExpression(4, "parseOverClause.Partition", <<>>, LOWEST)
    <3>1. Link("parseOverClause", 4, "parseOverClause.Partition", "parseExpression")
      BY WindowLinks
    <3>2. CallExpression(4, "parseOverClause.Partition", none, LOWEST)
      BY <2>3, <2>2
    <3> QED BY <1>1, <3>1, <3>2, LooseCall DEF LoosePoints
  <2>4. CASE Continue(2, "parseOverClause.Order", <<>>)
    <3>1. Continue(2, "parseOverClause.Order", none)
      BY <2>4, <2>2
    <3> QED BY <1>1, <3>1, Ways, LooseGo DEF LoosePoints, Openings
  <2> QED BY <1>1, <2>1, <2>3, <2>4, Speaking, LooseReturn DEF Loose
<1>2. CASE At("parseOverClause.Partition")
  <2>1. \/ CallExpression(2, "parseOverClause.Partition", Got, LOWEST)
        \/ Continue(1, "parseOverClause.Order", Got)
    BY <1>2 DEF parseOverClause, At, OverClose
  <2>2. Got \in Seq(Nat)
    BY <1>2, LooseKids DEF At, AwaitsResult
  <2>3. CASE CallExpression(2, "parseOverClause.Partition", Got, LOWEST)
    <3>1. Link("parseOverClause.Partition", 2, "parseOverClause.Partition", "parseExpression")
      BY WindowLinks
    <3> QED BY <1>2, <2>2, <2>3, <3>1, LooseCall DEF LoosePoints
  <2>4. CASE Continue(1, "parseOverClause.Order", Got)
    BY <1>2, <2>2, <2>4, Ways, LooseGo DEF LoosePoints, Openings
  <2> QED BY <2>1, <2>3, <2>4
<1>3. CASE At("parseOverClause.Order")
  <2>1. \/ Continue(0, "parseOverClause.Frame", Top.kids)
        \/ Call(2, "parseOverClause.Ordered", Top.kids, "parseOrderByItems")
        \/ Fail(1, 0)
    BY <1>3 DEF parseOverClause, At, OverClose
  <2>2. Top.kids \in Seq(Nat)
    BY <1>3, LooseKids DEF At
  <2>3. CASE Continue(0, "parseOverClause.Frame", Top.kids)
    BY <1>3, <2>2, <2>3, Ways, LooseGo DEF LoosePoints, Openings
  <2>4. CASE Call(2, "parseOverClause.Ordered", Top.kids, "parseOrderByItems")
    <3>1. Link("parseOverClause.Order", 2, "parseOverClause.Ordered", "parseOrderByItems")
      BY WindowLinks
    <3> QED BY <1>3, <2>2, <2>4, <3>1, LooseCall DEF LoosePoints
  <2> QED BY <2>1, <2>3, <2>4, Speaking
<1>4. CASE At("parseOverClause.Ordered")
  <2>1. PICK k \in 0..1 : Continue(k, "parseOverClause.Frame", Got)
    BY <1>4 DEF parseOverClause, OverClose, At
  <2>2. Got \in Seq(Nat) /\ k \in Nat /\ Way("parseOverClause.Ordered", k, "parseOverClause.Frame")
    BY <1>4, LooseKids, Ways DEF At, AwaitsResult
  <2> QED BY <1>4, <2>1, <2>2, LooseGo DEF LoosePoints, Openings
<1>5. CASE At("parseOverClause.Frame")
  <2>1. \/ Call(0, "parseOverClause.Framed", Top.kids, "parseWindowFrame")
        \/ Continue(0, "parseOverClause.Close", Top.kids)
    BY <1>5 DEF parseOverClause, OverClose, At
  <2>2. Top.kids \in Seq(Nat)
    BY <1>5, LooseKids DEF At
  <2>3. CASE Call(0, "parseOverClause.Framed", Top.kids, "parseWindowFrame")
    <3>1. Link("parseOverClause.Frame", 0, "parseOverClause.Framed", "parseWindowFrame")
      BY WindowLinks
    <3> QED BY <1>5, <2>2, <2>3, <3>1, LooseCall DEF LoosePoints
  <2>4. CASE Continue(0, "parseOverClause.Close", Top.kids)
    BY <1>5, <2>2, <2>4, Ways, LooseGo DEF LoosePoints, Openings
  <2> QED BY <2>1, <2>3, <2>4
<1>6. CASE At("parseOverClause.Framed")
  <2>1. Got \in Seq(Nat) /\ Continue(0, "parseOverClause.Close", Got)
    BY <1>6, LooseKids DEF At, AwaitsResult, parseOverClause, OverClose
  <2> QED BY <1>6, <2>1, Ways, LooseGo DEF LoosePoints, Openings
<1>7. CASE OverClose
  <2>1. At("parseOverClause.Close") /\ 1 \in Nat \ {0} /\ 2 \in Nat \ {0}
    BY <1>7 DEF OverClose
  <2>2. \/ ReturnPassing("Over", Top.at, Top.kids, 1)
        \/ ReturnPassing("Over", Top.at, Top.kids, 2)
        \/ Fail(1, 0)
    BY <1>7 DEF OverClose
  <2> QED BY <2>1, <2>2, OverReturn, Speaking
<1> QED BY <1>1, <1>2, <1>3, <1>4, <1>5, <1>6, <1>7 DEF parseOverClause

LEMMA parseDataTypeTakes == Quiet /\ parseDataType => WordsInv'
<1> SUFFICES ASSUME Quiet, parseDataType PROVE WordsInv'
  OBVIOUS
<1> DEFINE name == ListEnd(pos, "DOT")
           size == name + 2
           last == CASE Cur = "XML" /\ name = pos                      -> ListEnd(size, "DOT")
                     [] Tok(size) # "MAX" /\ Tok(size + 1) = "COMMA" -> size + 2
                     [] OTHER                                          -> size
<1>1. pos \in Nat /\ input \in Seq(Tokens)
  BY DEF Quiet, IInv, MachineInv, MachineTypeOK
<1>2. name \in Nat /\ pos <= name
  BY <1>1, ListEndOK
<1>3. \/ ReturnExpecting("RPAREN", "DataType", <<>>, last - pos)
      \/ ReturnNew("DataType", pos, <<>>, name - pos)
  BY DEF parseDataType
<1>4. At("parseDataType")
  BY DEF parseDataType
<1> HIDE DEF name
<1>5. ListEnd(size, "DOT") \in Nat /\ size <= ListEnd(size, "DOT")
  BY <1>1, <1>2, ListEndOK
<1>6. last \in {ListEnd(size, "DOT"), size + 2, size}
  OBVIOUS
<1>7. last - pos + 1 \in Nat /\ name - pos \in Nat
  BY <1>1, <1>2, <1>5, <1>6
<1> HIDE DEF last
<1>8. CASE ReturnExpecting("RPAREN", "DataType", <<>>, last - pos)
  BY <1>4, <1>7, <1>8, LooseReturn, Flawed DEF ReturnExpecting, Loose
<1>9. CASE ReturnNew("DataType", pos, <<>>, name - pos)
  BY <1>4, <1>7, <1>9, LooseReturn DEF Loose
<1> QED BY <1>3, <1>8, <1>9

LEMMA parseCursorExpressionTakes == Quiet /\ parseCursorExpression => WordsInv'
<1> SUFFICES ASSUME Quiet, parseCursorExpression PROVE WordsInv'
  OBVIOUS
<1>1. CASE At("parseCursorExpression")
  <2> DEFINE k == parseCursorOptions(pos + 1)
  <2>1. k \in Nat
    BY parseCursorOptionsOK DEF Quiet, IInv, MachineInv, MachineTypeOK
  <2>2. \/ Call(k + 1, "parseCursorExpression.ForSelect", <<>>, "parseSelectStatement")
        \/ ReturnNew("CursorExpression", Top.at, <<>>, k)
    BY <1>1 DEF parseCursorExpression, At
  <2> HIDE DEF k
  <2>3. CASE Call(k + 1, "parseCursorExpression.ForSelect", <<>>, "parseSelectStatement")
    <3>1. /\ k + 1 \in Nat
          /\ Link("parseCursorExpression", k + 1, "parseCursorExpression.ForSelect", "parseSelectStatement")
      BY <2>1, DistantLinks
    <3>2. PICK none \in Seq(Nat) : none = <<>>
      BY NoKids
    <3>3. Call(k + 1, "parseCursorExpression.ForSelect", none, "parseSelectStatement")
      BY <2>3, <3>2
    <3> QED BY <1>1, <3>1, <3>3, LooseCall DEF LoosePoints
  <2>4. CASE ReturnNew("CursorExpression", Top.at, <<>>, k)
    BY <1>1, <2>1, <2>4, LooseReturn DEF Loose
  <2> QED BY <2>2, <2>3, <2>4
<1>2. CASE At("parseCursorExpression.ForSelect")
  BY <1>2, LooseReturn DEF Loose, parseCursorExpression, At
<1> QED BY <1>1, <1>2 DEF parseCursorExpression

LEMMA parseNextValueForTakes == Quiet /\ parseNextValueFor => WordsInv'
<1> SUFFICES ASSUME Quiet, parseNextValueFor PROVE WordsInv'
  OBVIOUS
<1> DEFINE k == ListEnd(pos + 3, "DOT") - pos
<1>1. k \in Nat
  <2>1. pos \in Nat
    BY DEF Quiet, IInv, MachineInv, MachineTypeOK
  <2>2. ListEnd(pos + 3, "DOT") \in Nat /\ pos + 3 <= ListEnd(pos + 3, "DOT")
    BY ListFromCursor DEF Quiet, IInv
  <2> QED BY <2>1, <2>2
<1>2. /\ At("parseNextValueFor")
      /\ ReturnNew("NextValueFor", Top.at, <<>>, k) \/ GiveUp(0, <<"VALUE", "FOR">>)
  BY DEF parseNextValueFor, Require
<1> HIDE DEF k
<1> QED BY <1>1, <1>2, GivingUp, LooseReturn DEF Loose

LEMMA parseNextValueForCompoundTakes == Quiet /\ parseNextValueForCompound => WordsInv'
<1> SUFFICES ASSUME Quiet, parseNextValueForCompound PROVE WordsInv'
  OBVIOUS
<1>1. CASE At("parseNextValueForCompound")
  <2> DEFINE k == ListEnd(pos + 1, "DOT") - pos
  <2>1. k \in Nat /\ k >= 1
    <3>1. pos \in Nat
      BY DEF Quiet, IInv, MachineInv, MachineTypeOK
    <3>2. ListEnd(pos + 1, "DOT") \in Nat /\ pos + 1 <= ListEnd(pos + 1, "DOT")
      BY ListFromCursor DEF Quiet, IInv
    <3> QED BY <3>1, <3>2
  <2>2. \/ Call(k + 1, "parseNextValueForCompound.Over", <<>>, "parseOverClause")
        \/ ReturnNew("NextValueFor", Top.at, <<>>, k)
    BY <1>1 DEF parseNextValueForCompound, At
  <2> HIDE DEF k
  <2>3. CASE Call(k + 1, "parseNextValueForCompound.Over", <<>>, "parseOverClause")
    <3>1. /\ k + 1 \in Nat
          /\ Link("parseNextValueForCompound", k + 1, "parseNextValueForCompound.Over", "parseOverClause")
      BY <2>1, DistantLinks
    <3>2. PICK none \in Seq(Nat) : none = <<>>
      BY NoKids
    <3>3. Call(k + 1, "parseNextValueForCompound.Over", none, "parseOverClause")
      BY <2>3, <3>2
    <3> QED BY <1>1, <3>1, <3>3, LooseCall DEF LoosePoints
  <2>4. CASE ReturnNew("NextValueFor", Top.at, <<>>, k)
    BY <1>1, <2>1, <2>4, LooseReturn DEF Loose
  <2> QED BY <2>2, <2>3, <2>4
<1>2. CASE At("parseNextValueForCompound.Over")
  BY <1>2, LooseReturn DEF Loose, parseNextValueForCompound, At
<1> QED BY <1>1, <1>2 DEF parseNextValueForCompound

LEMMA FullTextTakes ==
    ASSUME Quiet, NEW fn, NEW term \in LoosePoints, NEW table \in BOOLEAN,
           \A k \in Nat : k >= 1 => Link(fn, k, term, "parseExpression"),
           FullText(fn, term, table)
    PROVE  WordsInv'
<1> DEFINE k == SearchTermAt(table) - pos
<1>1. k \in Nat /\ k >= 1
  BY SearchTermAhead DEF Quiet
<1>2. CASE At(fn) /\ Require(0, <<"LPAREN">>, CallExpression(k, term, <<>>, LOWEST))
  <2>1. CallExpression(k, term, <<>>, LOWEST) \/ GiveUp(0, <<"LPAREN">>)
    BY <1>2 DEF Require
  <2> HIDE DEF k
  <2>2. CASE CallExpression(k, term, <<>>, LOWEST)
    <3>1. PICK none \in Seq(Nat) : none = <<>>
      BY NoKids
    <3>2. CallExpression(k, term, none, LOWEST) /\ Link(fn, k, term, "parseExpression")
      BY <1>1, <2>2, <3>1
    <3> QED BY <1>1, <1>2, <3>2, LooseCall
  <2> QED BY <2>1, <2>2, GivingUp
<1>3. CASE At(term) /\ \E n \in Nat : ReturnNew("FullText", Top.at, GotIfAny, n)
  BY <1>3, LooseReturn DEF Loose
<1> QED BY <1>2, <1>3 DEF FullText

LEMMA PanicTaken ==
    ASSUME Quiet, At("parseSelectStatement"), NEW k \in Nat, SelectPanics(k)
    PROVE  WordsInv'
<1> DEFINE node == Node("Select", Top.at, <<NIL>>, pos + k)
           r    == Len(heap) + 1
<1>1. heap' = Append(heap, node) /\ input' = input /\ stack' = <<>>
  BY DEF SelectPanics
<1>2. node.kind \in Loose
  BY DEF Node, Loose
<1>3. /\ heap \in Heaps /\ heap' \in Heaps
      /\ \A n \in DOMAIN heap : Known(heap, heap[n].kids) /\ NodeTaken(Text, heap, heap[n])
  BY QuietHere, NextHeap DEF At
<1> HIDE DEF node
<1>4. /\ DOMAIN heap' = DOMAIN heap \cup {r} /\ heap'[r] = node
      /\ \A n \in DOMAIN heap : n \in DOMAIN heap' /\ heap'[n] = heap[n]
  BY <1>1, <1>3 DEF Heaps
<1>5. Grows(heap, heap')
  BY <1>3, <1>4, NodeType DEF Grows
<1>6. \A n \in DOMAIN heap : NodeTaken(Text, heap', heap'[n])
  BY <1>3, <1>4, <1>5, NodeGrows
<1>7. NodeTaken(Text, heap', node)
  BY <1>2 DEF NodeTaken
<1> HIDE DEF r
<1> QED BY <1>1, <1>4, <1>6, <1>7, NoCallsTaken, StillTaken

LEMMA NestedSelectTakes == Quiet /\ NestedSelect => WordsInv'
<1> SUFFICES ASSUME Quiet, NestedSelect PROVE WordsInv'
  OBVIOUS
<1>1. At("parseSelectStatement")
  BY DEF NestedSelect
<1>2. PICK k \in 1..MaxSelect :
         \/ \E kids \in {<<>>, <<NIL>>} : ReturnNew("Select", Top.at, kids, k)
         \/ ReturnFlawed("Select", Top.at, <<NIL>>, k, k)
         \/ Fail(k + 1, k)
         \/ SelectPanics(k)
  BY DEF NestedSelect
<1>3. k \in Nat
  BY SelectAssumption
<1>4. CASE SelectPanics(k)
  BY <1>1, <1>3, <1>4, PanicTaken
<1> QED BY <1>1, <1>2, <1>3, <1>4, LooseReturn, Flawed, Speaking DEF Loose
-----------------------------------------------------------------------------
LEMMA WindowTakes == Quiet /\ WindowStep => WordsInv'
BY parseOrderByItemsTakes, parseFrameBoundTakes, parseWindowFrameTakes, parseOverClauseTakes
   DEF WindowStep

LEMMA ConversionTakes == Quiet /\ ConversionStep => WordsInv'
<1> SUFFICES ASSUME Quiet, ConversionStep PROVE WordsInv'
  OBVIOUS
<1>1. CASE parseContainsExpression
  <2>1. "parseContainsExpression.SearchTerm" \in LoosePoints
    BY DEF LoosePoints
  <2> QED BY <1>1, <2>1, DistantLinks, FullTextTakes DEF parseContainsExpression
<1>2. CASE parseFreetextExpression
  <2>1. "parseFreetextExpression.SearchTerm" \in LoosePoints
    BY DEF LoosePoints
  <2> QED BY <1>2, <2>1, DistantLinks, FullTextTakes DEF parseFreetextExpression
<1>3. CASE parseContainsTableExpression
  <2>1. "parseContainsTableExpression.SearchTerm" \in LoosePoints
    BY DEF LoosePoints
  <2> QED BY <1>3, <2>1, DistantLinks, FullTextTakes DEF parseContainsTableExpression
<1>4. CASE parseFreetextTableExpression
  <2>1. "parseFreetextTableExpression.SearchTerm" \in LoosePoints
    BY DEF LoosePoints
  <2> QED BY <1>4, <2>1, DistantLinks, FullTextTakes DEF parseFreetextTableExpression
<1> QED BY <1>1, <1>2, <1>3, <1>4, parseDataTypeTakes, parseCastExpressionTakes,
           parseConvertExpressionTakes, parseParseExpressionTakes, parseTrimExpressionTakes,
           parseCursorExpressionTakes, parseNextValueForTakes, parseNextValueForCompoundTakes
        DEF ConversionStep

LEMMA StepTakes == Quiet /\ ExpressionStep => WordsInv'
<1> SUFFICES ASSUME Quiet, ExpressionStep PROVE WordsInv'
  OBVIOUS
<1> QED BY parseExpressionTakes, parseLeafTakes, parseFloatLiteralTakes,
           parsePrefixExpressionTakes, parseInfixExpressionTakes, parseGroupedExpressionTakes,
           parseDotExpressionTakes, parseScopeExpressionTakes, parseCallExpressionTakes,
           parseExpressionListTakes, parseFunctionLiteralTakes, parseCaseExpressionTakes,
           parseExistsExpressionTakes, parseAllExpressionTakes, parseSubqueryExpressionTakes,
           parseLikeExpressionTakes, parseCollateExpressionTakes, parseAtTimeZoneExpressionTakes,
           parseBetweenExpressionTakes, parseInExpressionTakes, parseIsNullExpressionTakes,
           parseDistinctFromExpressionTakes, parseNotInfixExpressionTakes,
           WindowTakes, ConversionTakes
        DEF ExpressionStep

LEMMA InitWords == Init => WordsInv
<1> SUFFICES ASSUME Init PROVE WordsInv
  OBVIOUS
<1> DEFINE f == Frame("parseExpression", LOWEST, 1, 1, <<>>)
<1>1. /\ pos = 1 /\ stack = <<f>> /\ heap = <<>>
      /\ f.pc = "parseExpression" /\ f.lo = 1 /\ f.at = 1 /\ f.kids = <<>>
  BY DEF Init, InitMachine, Frame
<1> HIDE DEF f
<1>2. Len(stack) = 1 /\ DOMAIN stack = {1} /\ stack[1] = f /\ stack # <<>> /\ DOMAIN heap = {}
  BY <1>1
<1>3. HeadKnown(Text, f) /\ Opened(pos, f)
  BY <1>1 DEF HeadKnown, Opened, GroupPoints
<1>4. TopTaken(Text, heap, pos, f, ret)
  BY <1>1 DEF TopTaken, Unread
<1>5. CallersTaken(Text, heap, stack)
  BY <1>2 DEF CallersTaken
<1> QED BY <1>1, <1>2, <1>3, <1>4, <1>5 DEF WordsInv, StackTaken

LEMMA NextWords == IInv /\ IInv' /\ OrderInv /\ WordsInv /\ [Next]_vars => WordsInv'
<1> SUFFICES ASSUME IInv, IInv', OrderInv, WordsInv, [Next]_vars PROVE WordsInv'
  OBVIOUS
<1>1. CASE UNCHANGED vars
  BY <1>1 DEF WordsInv, vars, Text, Tok
<1>2. CASE errors' # <<>>
  BY <1>2 DEF WordsInv
<1>3. CASE Move /\ errors' = <<>> /\ ~ UNCHANGED vars
  <2>1. Quiet
    BY <1>3, MoveForwards DEF Quiet
  <2>2. ExpressionStep \/ NestedSelect
    BY <1>3 DEF Next
  <2> QED BY <2>1, <2>2, StepTakes, NestedSelectTakes
<1> QED BY <1>1, <1>2, <1>3, NextMoves

LEMMA WordsAreKept == IInv /\ OrderInv /\ WordsInv => NoTokenLost
<1> SUFFICES ASSUME IInv, OrderInv, WordsInv, errors = <<>>, NEW n \in DOMAIN heap, heap[n].kind \notin Loose,
                    NEW t \in (heap[n].lo..heap[n].hi)
                              \ UNION {Span(heap[n].kids[i]) : i \in DOMAIN heap[n].kids}
             PROVE  \/ t = heap[n].at
                    \/ Tok(t) \in Layout(heap[n].kind) \cup {"AT"}
                    \/ heap[n].paren /\ Tok(t) \in {"LPAREN", "RPAREN"}
                    \/ heap[n].kind \in {"Collate", "StaticMethodCall"} /\ t = heap[n].at + 1
                    \/ heap[n].kind = "MethodCall" /\ t = heap[n].at + 1
                    \/ BehindOver(heap[n], t)
  BY DEF NoTokenLost
<1>1. Stands(Text, heap, heap[n], t)
  BY DEF WordsInv, NodeTaken
<1>5. Known(heap, heap[n].kids)
  BY KnownKids DEF OrderInv, NodesOrder, NodeOrder
<1>4. heap[n].lo \in Nat /\ heap[n].hi \in Nat /\ heap[n].kids \in Seq(Nat) /\ t \in Nat
  BY TypesHere, NodeType
<1>2. InOperand(heap, heap[n].kids, t) => BehindOver(heap[n], t)
  <2> SUFFICES ASSUME NEW i \in DOMAIN heap[n].kids, t \in SpanIn(heap, heap[n].kids[i])
               PROVE  BehindOver(heap[n], t)
    BY DEF InOperand
  <2> DEFINE v == heap[n].kids[i]
  <2>1. v # NIL /\ t \in heap[v].lo..Reach(heap[v]) /\ t \notin heap[v].lo..heap[v].hi
    BY DEF SpanIn, Span
  <2>2. heap[v].kind = "Over" /\ t \in heap[v].lo..(heap[v].hi + 1)
    BY <2>1 DEF Reach
  <2>3. t = heap[v].hi + 1
    <3>1. v \in DOMAIN heap
      BY <1>5, <2>1 DEF Known
    <3>2. heap[v].lo \in Nat /\ heap[v].hi \in Nat
      BY <3>1, TypesHere, NodeType
    <3> HIDE DEF v
    <3> QED BY <1>4, <2>1, <2>2, <3>2
  <2> QED BY <2>1, <2>2, <2>3 DEF BehindOver
<1>3. Text[t] = Tok(t)
  <2>1. heap[n].lo \in Nat /\ heap[n].hi \in Nat
    BY TypesHere, NodeType
  <2> QED BY <2>1, TextAt
<1> QED BY <1>1, <1>2, <1>3 DEF Stands, NamedKinds

(* What has been parsed without an error is in the tree: outside its       *)
(* operands a node of the expression parser that is none of the Loose      *)
(* kinds (names with dots, OVER clauses and their frames, SELECTs, types,  *)
(* cursors, NEXT VALUE FOR, full-text searches) stands on its own words,   *)
(* its operator or its name only, but for an AT without TIME and for the   *)
(* token behind an OVER clause, which are dropped.                         *)
THEOREM EveryTokenIsKept == Spec => []NoTokenLost
BY InitIInv, NextIInv, InitOrder, NextOrder, InitWords, NextWords, WordsAreKept, PTL DEF Spec
=============================================================================
