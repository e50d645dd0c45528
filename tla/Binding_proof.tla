----------------------------- MODULE Binding_proof -----------------------------
(***************************************************************************)
(* Proofs about Expressions: the tree groups the operators by precedence   *)
(* and, on a level, from left to right.  What a call relies on is said of  *)
(* it and its caller; the moves of Order_proof keep it.                    *)
(***************************************************************************)
EXTENDS Order_proof

(* The precedence of each token, and the definitions of Expressions with   *)
(* the nodes h and these levels lv as parameters.                          *)
Levels == [i \in Nat |-> Precedence(Tok(i))]
FloorOf(lv, n) ==
    CASE n.kind = "Prefix"         -> [i \in {1} |-> PREFIX]
      [] n.kind = "Infix"          -> [i \in {2} |-> lv[n.at]]
      [] n.kind = "Like"           -> [i \in {2, 3} |-> IF i = 2 THEN COMPARE ELSE LOWEST]
      [] n.kind = "Between"        -> [i \in {2, 3} |-> IF i = 2 THEN AND_PREC ELSE BETWEEN_PREC]
      [] n.kind = "IsDistinctFrom" -> [i \in {2} |-> COMPARE]
      [] n.kind = "AtTimeZone"     -> [i \in {2} |-> CALL]
      [] OTHER                     -> [i \in {} |-> LOWEST]
IsOpen(h, v) == v # NIL /\ h[v].kind \in Operations /\ ~ h[v].paren
EndsOpen(h, lv, v) ==
    /\ v # NIL /\ ~ h[v].paren
    /\ h[v].kids # <<>> /\ h[v].kids[Len(h[v].kids)] # NIL
    /\ Len(h[v].kids) \in DOMAIN FloorOf(lv, h[v])

(* Operand v binds tighter than p; an operator of level l may take v as    *)
(* its left operand: the last operand of v does not go on with it.  (The   *)
(* loop never hands an operator of level INDEX an operand that is open.)   *)
Tight(h, lv, v, p) == IsOpen(h, v) => lv[h[v].at] > p
Settled(h, lv, v, l) ==
    EndsOpen(h, lv, v) => l = INDEX \/ l <= FloorOf(lv, h[v])[Len(h[v].kids)]

Binds(h, lv, n) ==
    /\ \A i \in DOMAIN FloorOf(lv, h[n]) \cap DOMAIN h[n].kids :
          Tight(h, lv, h[n].kids[i], FloorOf(lv, h[n])[i])
    /\ h[n].kind \in Operations =>
          /\ h[n].kids # <<>> /\ lv[h[n].at] <= CALL
          /\ Settled(h, lv, h[n].kids[1], lv[h[n].at])

(* Call g builds an operation for the parseExpression f: its operator      *)
(* binds tighter than f asks for, and its operands suit it.                *)
Operates(h, lv, f, g) ==
    /\ f.pc = "parseExpression.Left"
    /\ lv[g.at] > f.prec /\ lv[g.at] <= CALL
    /\ g.kids # <<>>
    /\ Settled(h, lv, g.kids[1], lv[g.at]) /\ Tight(h, lv, g.kids[1], f.prec)
    /\ g.pc \in OneOperand => Len(g.kids) = 1
    /\ g.pc = "parseLikeExpression.Escape"
           => Len(g.kids) = 2 /\ Tight(h, lv, g.kids[2], COMPARE)
    /\ g.pc = "parseBetweenExpression.High"
           => Len(g.kids) = 2 /\ Tight(h, lv, g.kids[2], AND_PREC)
    /\ g.pc \in AtPoints => lv[g.at] = CALL
    /\ g.pc = "parseNotInfixExpression" => lv[g.at] = BETWEEN_PREC

(* Call f has called g.                                                    *)
Calls(h, lv, f, g) ==
    /\ f.pc \in WantPoints => g.pc \in Exprs /\ g.prec = Wanted(f.pc, lv[f.at])
    /\ f.pc = "parseExpression.Left" => g.pc \notin Exprs
    /\ g.pc \in OperationPoints => Operates(h, lv, f, g)
Sound(f) ==
    /\ f.pc \in Exprs => f.prec >= LOWEST
    /\ f.pc = "parsePrefixExpression.Right" => f.kids = <<>>
Calling(h, lv, s) ==
    /\ \A i \in DOMAIN s : Sound(s[i])
    /\ s # <<>> => s[1].pc \in Exprs
    /\ \A i \in DOMAIN s : i + 1 \in DOMAIN s => Calls(h, lv, s[i], s[i + 1])

(* What has just been parsed suits the call that gets it; the token after  *)
(* it, of level l, does not belong to it.                                  *)
Suits(h, lv, f, r, l) ==
    /\ f.pc \in WantPoints
           => l <= Wanted(f.pc, lv[f.at]) /\ Tight(h, lv, r, Wanted(f.pc, lv[f.at]))
    /\ f.pc = "parseExpression.Left" => Tight(h, lv, r, f.prec) /\ Settled(h, lv, r, l)

NodesBind   == \A n \in DOMAIN heap : Binds(heap, Levels, n)
CallsBind   == Calling(heap, Levels, stack)
ResultBinds == stack # <<>> => /\ Suits(heap, Levels, Top, ret, Levels[pos + 1])
                               /\ Top.pc = "parseInfixExpression" => Top.at = pos
BindInv == errors = <<>> => NodesBind /\ CallsBind /\ ResultBinds
-----------------------------------------------------------------------------
LEMMA LevelRange == \A t : Precedence(t) \in 1..INDEX
BY DEF Precedence, LOWEST, OR_PREC, AND_PREC, COMPARE, BETWEEN_PREC, BITOR, BITXOR,
       BITAND, SHIFT, SUM, PRODUCT, CALL, INDEX

LEMMA LevelsType == Levels \in [Nat -> 1..INDEX]
BY LevelRange DEF Levels

LEMMA SameLevels == input' = input => Levels' = Levels
BY DEF Levels, Tok

LEMMA LevelNumbers ==
    /\ LOWEST = 1 /\ AND_PREC = 3 /\ COMPARE = 5 /\ BETWEEN_PREC = 6
    /\ PREFIX = 13 /\ CALL = 14 /\ INDEX = 15
BY DEF LOWEST, AND_PREC, COMPARE, BETWEEN_PREC, PREFIX, CALL, INDEX

LEMMA FloorSame == ASSUME NEW n, n.at \in Nat PROVE FloorOf(Levels, n) = Floor(n)
BY DEF FloorOf, Floor, Levels

(* FloorOf, kind by kind.                                                  *)
LEMMA FloorCases ==
    ASSUME NEW lv, NEW n
    PROVE  /\ n.kind = "Prefix" => DOMAIN FloorOf(lv, n) = {1} /\ FloorOf(lv, n)[1] = PREFIX
           /\ n.kind = "Infix" => DOMAIN FloorOf(lv, n) = {2} /\ FloorOf(lv, n)[2] = lv[n.at]
           /\ n.kind = "Like" => /\ DOMAIN FloorOf(lv, n) = {2, 3}
                                 /\ FloorOf(lv, n)[2] = COMPARE
                                 /\ FloorOf(lv, n)[3] = LOWEST
           /\ n.kind = "Between" => /\ DOMAIN FloorOf(lv, n) = {2, 3}
                                    /\ FloorOf(lv, n)[2] = AND_PREC
                                    /\ FloorOf(lv, n)[3] = BETWEEN_PREC
           /\ n.kind = "IsDistinctFrom" => DOMAIN FloorOf(lv, n) = {2} /\ FloorOf(lv, n)[2] = COMPARE
           /\ n.kind = "AtTimeZone" => DOMAIN FloorOf(lv, n) = {2} /\ FloorOf(lv, n)[2] = CALL
           /\ n.kind \notin {"Prefix", "Infix", "Like", "Between", "IsDistinctFrom", "AtTimeZone"}
                  => DOMAIN FloorOf(lv, n) = {}
<1>1. CASE n.kind = "Prefix"
  BY <1>1 DEF FloorOf
<1>2. CASE n.kind = "Infix"
  BY <1>2 DEF FloorOf
<1>3. CASE n.kind = "Like"
  BY <1>3 DEF FloorOf
<1>4. CASE n.kind = "Between"
  BY <1>4 DEF FloorOf
<1>5. CASE n.kind = "IsDistinctFrom"
  BY <1>5 DEF FloorOf
<1>6. CASE n.kind = "AtTimeZone"
  BY <1>6 DEF FloorOf
<1>7. CASE n.kind \notin {"Prefix", "Infix", "Like", "Between", "IsDistinctFrom", "AtTimeZone"}
  BY <1>7 DEF FloorOf
<1> QED BY <1>1, <1>2, <1>3, <1>4, <1>5, <1>6, <1>7

LEMMA FloorType ==
    ASSUME NEW lv \in [Nat -> 1..INDEX], NEW n, n.at \in Nat, NEW i \in DOMAIN FloorOf(lv, n)
    PROVE  FloorOf(lv, n)[i] \in Nat
<1>1. lv[n.at] \in Nat
  BY LevelNumbers
<1> QED BY <1>1, FloorCases, LevelNumbers
-----------------------------------------------------------------------------
(* Nodes stay as they are, but for the parentheses around them.            *)
Keeps(h, g) ==
    \A n \in DOMAIN h : /\ n \in DOMAIN g /\ g[n].kind = h[n].kind /\ g[n].at = h[n].at
                        /\ g[n].kids = h[n].kids /\ (h[n].paren => g[n].paren)
Known(h, kids) == \A j \in DOMAIN kids : kids[j] # NIL => kids[j] \in DOMAIN h

LEMMA KeepsItself == ASSUME NEW h PROVE Keeps(h, h)
BY DEF Keeps

LEMMA TightKept ==
    ASSUME NEW h, NEW g, Keeps(h, g), NEW lv, NEW v, v # NIL => v \in DOMAIN h,
           NEW p, Tight(h, lv, v, p)
    PROVE  Tight(g, lv, v, p)
BY DEF Keeps, Tight, IsOpen

LEMMA SettledKept ==
    ASSUME NEW h, NEW g, Keeps(h, g), NEW lv, NEW v, v # NIL => v \in DOMAIN h,
           NEW l, Settled(h, lv, v, l)
    PROVE  Settled(g, lv, v, l)
<1>1. ASSUME v # NIL
      PROVE  /\ FloorOf(lv, g[v]) = FloorOf(lv, h[v])
             /\ g[v].kids = h[v].kids /\ (h[v].paren => g[v].paren)
  BY <1>1 DEF Keeps, FloorOf
<1>2. EndsOpen(g, lv, v) => EndsOpen(h, lv, v)
  BY <1>1 DEF EndsOpen
<1> QED BY <1>1, <1>2 DEF Settled, EndsOpen

LEMMA BindsKept ==
    ASSUME NEW h, NEW g, Keeps(h, g), NEW lv, NEW n \in DOMAIN h, Known(h, h[n].kids),
           h[n].kids \in Seq(Nat), Binds(h, lv, n)
    PROVE  Binds(g, lv, n)
<1>1. /\ FloorOf(lv, g[n]) = FloorOf(lv, h[n]) /\ g[n].kids = h[n].kids
      /\ g[n].kind = h[n].kind /\ g[n].at = h[n].at
  BY DEF Keeps, FloorOf
<1>2. ASSUME NEW i \in DOMAIN FloorOf(lv, h[n]) \cap DOMAIN h[n].kids
      PROVE  Tight(g, lv, h[n].kids[i], FloorOf(lv, h[n])[i])
  BY TightKept DEF Binds, Known
<1>3. ASSUME h[n].kind \in Operations
      PROVE  /\ h[n].kids # <<>> /\ lv[h[n].at] <= CALL
             /\ Settled(g, lv, h[n].kids[1], lv[h[n].at])
  <2>1. /\ h[n].kids # <<>> /\ lv[h[n].at] <= CALL
        /\ Settled(h, lv, h[n].kids[1], lv[h[n].at])
    BY <1>3 DEF Binds
  <2>2. 1 \in DOMAIN h[n].kids
    BY <2>1
  <2> QED BY <2>1, <2>2, SettledKept DEF Known
<1> QED BY <1>1, <1>2, <1>3 DEF Binds

LEMMA OperatesKept ==
    ASSUME NEW h, NEW g, Keeps(h, g), NEW lv, NEW f, NEW c, c.kids \in Seq(Nat),
           Known(h, c.kids), Operates(h, lv, f, c)
    PROVE  Operates(g, lv, f, c)
<1>1. \A j \in DOMAIN c.kids : c.kids[j] # NIL => c.kids[j] \in DOMAIN h
  BY DEF Known
<1>2. 1 \in DOMAIN c.kids /\ (Len(c.kids) = 2 => 2 \in DOMAIN c.kids)
  BY DEF Operates
<1>3. Settled(g, lv, c.kids[1], lv[c.at]) /\ Tight(g, lv, c.kids[1], f.prec)
  BY <1>1, <1>2, SettledKept, TightKept DEF Operates
<1>4. ASSUME NEW p, Len(c.kids) = 2, Tight(h, lv, c.kids[2], p)
      PROVE  Tight(g, lv, c.kids[2], p)
  BY <1>1, <1>2, <1>4, TightKept
<1> QED BY <1>3, <1>4 DEF Operates

LEMMA CallsKept ==
    ASSUME NEW h, NEW g, Keeps(h, g), NEW lv, NEW f, NEW c, c.kids \in Seq(Nat),
           Known(h, c.kids), Calls(h, lv, f, c)
    PROVE  Calls(g, lv, f, c)
BY OperatesKept DEF Calls

(* The stack: the last call popped, another put in its place, one pushed.  *)
AllKnown(h, s) == \A i \in DOMAIN s : Known(h, s[i].kids)
LEMMA CallingPopped ==
    ASSUME NEW h, NEW g, Keeps(h, g), NEW lv, NEW s \in Stacks, s # <<>>, AllKnown(h, s),
           Calling(h, lv, s)
    PROVE  Calling(g, lv, Popped(s))
<1> DEFINE t == Popped(s)
<1>1. /\ DOMAIN t = 1..(Len(s) - 1) /\ DOMAIN s = 1..Len(s) /\ Len(s) \in Nat \ {0}
      /\ \A i \in DOMAIN t : t[i] = s[i] /\ i \in DOMAIN s
      /\ t \in Stacks
  BY PoppedFrames
<1>2. t # <<>> => 1 \in DOMAIN t
  BY <1>1 DEF Stacks
<1> HIDE DEF t
<1>3. \A i \in DOMAIN s : s[i].kids \in Seq(Nat) /\ Known(h, s[i].kids)
  BY FrameType DEF AllKnown
<1>4. ASSUME NEW i \in DOMAIN t, i + 1 \in DOMAIN t PROVE Calls(g, lv, t[i], t[i + 1])
  <2>1. i \in DOMAIN s /\ i + 1 \in DOMAIN s /\ t[i] = s[i] /\ t[i + 1] = s[i + 1]
    BY <1>1, <1>4
  <2>2. Calls(h, lv, s[i], s[i + 1])
    BY <2>1 DEF Calling
  <2> QED BY <1>3, <2>1, <2>2, CallsKept
<1>5. t # <<>> => t[1].pc \in Exprs
  BY <1>1, <1>2 DEF Calling
<1>6. \A i \in DOMAIN t : Sound(t[i])
  BY <1>1 DEF Calling
<1>7. Calling(g, lv, t)
  BY <1>4, <1>5, <1>6 DEF Calling
<1> QED BY <1>7 DEF t

LEMMA CallingReplaced ==
    ASSUME NEW h, NEW g, Keeps(h, g), NEW lv, NEW s \in Stacks, s # <<>>, AllKnown(h, s),
           Calling(h, lv, s), NEW f \in Frames(Labels), Sound(f),
           Len(s) = 1 => f.pc \in Exprs,
           Len(s) > 1 => Calls(g, lv, s[Len(s) - 1], f)
    PROVE  Calling(g, lv, [s EXCEPT ![Len(s)] = f])
<1> DEFINE t == [s EXCEPT ![Len(s)] = f]
<1>1. /\ DOMAIN t = DOMAIN s /\ DOMAIN s = 1..Len(s) /\ Len(s) \in Nat \ {0}
      /\ t[Len(s)] = f
      /\ \A i \in DOMAIN s : i # Len(s) => t[i] = s[i]
  BY Lengths DEF Stacks
<1> HIDE DEF t
<1>2. \A i \in DOMAIN s : s[i].kids \in Seq(Nat) /\ Known(h, s[i].kids)
  BY FrameType DEF AllKnown
<1>3. ASSUME NEW i \in DOMAIN t, i + 1 \in DOMAIN t PROVE Calls(g, lv, t[i], t[i + 1])
  <2>1. i \in DOMAIN s /\ i + 1 \in DOMAIN s /\ i # Len(s) /\ t[i] = s[i] /\ i \in 1..Len(s)
        /\ i + 1 \in 1..Len(s)
    BY <1>1, <1>3
  <2>2. CASE i + 1 = Len(s)
    <3>1. i = Len(s) - 1 /\ Len(s) > 1
      BY <1>1, <2>1, <2>2
    <3> QED BY <1>1, <2>1, <2>2, <3>1
  <2>3. CASE i + 1 # Len(s)
    <3>1. Calls(h, lv, s[i], s[i + 1])
      BY <2>1 DEF Calling
    <3> QED BY <1>1, <1>2, <2>1, <2>3, <3>1, CallsKept
  <2> QED BY <2>2, <2>3
<1>4. t[1].pc \in Exprs
  <2>1. 1 \in DOMAIN s /\ s[1].pc \in Exprs
    BY <1>1 DEF Calling
  <2> QED BY <1>1, <2>1
<1>5. \A i \in DOMAIN t : Sound(t[i])
  BY <1>1 DEF Calling
<1>6. Calling(g, lv, t)
  BY <1>3, <1>4, <1>5 DEF Calling
<1> QED BY <1>6 DEF t

LEMMA CallingPushed ==
    ASSUME NEW h, NEW lv, NEW s \in Stacks, s # <<>>, Calling(h, lv, s),
           NEW f \in Frames(Labels), Sound(f), Calls(h, lv, s[Len(s)], f)
    PROVE  Calling(h, lv, Append(s, f))
<1> DEFINE t == Append(s, f)
<1>1. /\ DOMAIN s = 1..Len(s) /\ Len(s) \in Nat \ {0} /\ DOMAIN t = 1..(Len(s) + 1)
      /\ t[Len(s) + 1] = f
      /\ \A i \in DOMAIN s : t[i] = s[i]
  BY Lengths DEF Stacks
<1> HIDE DEF t
<1>2. ASSUME NEW i \in DOMAIN t, i + 1 \in DOMAIN t PROVE Calls(h, lv, t[i], t[i + 1])
  <2>1. i \in DOMAIN s /\ t[i] = s[i]
    BY <1>1, <1>2
  <2>2. CASE i = Len(s)
    BY <1>1, <2>1, <2>2
  <2>3. CASE i # Len(s)
    <3>1. i + 1 \in DOMAIN s
      BY <1>1, <2>1, <2>3
    <3> QED BY <1>1, <2>1, <3>1 DEF Calling
  <2> QED BY <2>2, <2>3
<1>3. t[1].pc \in Exprs
  BY <1>1 DEF Calling
<1>4. \A i \in DOMAIN t : Sound(t[i])
  <2> SUFFICES ASSUME NEW i \in DOMAIN t PROVE Sound(t[i])
    OBVIOUS
  <2>1. i \in DOMAIN s \/ i = Len(s) + 1
    BY <1>1
  <2> QED BY <1>1, <2>1 DEF Calling
<1>5. Calling(h, lv, t)
  BY <1>2, <1>3, <1>4 DEF Calling
<1> QED BY <1>5 DEF t
-----------------------------------------------------------------------------
(* What is known of a state without an error.                              *)
LEMMA OperandsKnown ==
    ASSUME IInv, OrderInv
    PROVE  AllKnown(heap, stack) /\ \A n \in DOMAIN heap : Known(heap, heap[n].kids)
<1>1. ASSUME NEW i \in DOMAIN stack PROVE Known(heap, stack[i].kids)
  BY DEF OrderInv, FramesOrder, StackOrder, FrameOrder, InOrder, Placed, Known
<1>2. ASSUME NEW n \in DOMAIN heap PROVE Known(heap, heap[n].kids)
  BY DEF OrderInv, NodesOrder, NodeOrder, InOrder, Placed, Known
<1> QED BY <1>1, <1>2 DEF AllKnown

LEMMA CallHere ==
    ASSUME IInv, OrderInv, BindInv, errors = <<>>, stack # <<>>
    PROVE  /\ Top \in Frames(Labels) /\ Sound(Top) /\ Known(heap, Top.kids)
           /\ Top.kids \in Seq(Nat) /\ Top.at \in Nat /\ Top.prec \in Nat
           /\ Len(stack) \in Nat \ {0}
           /\ Len(stack) = 1 => Top.pc \in Exprs
           /\ Len(stack) > 1 => /\ Len(stack) - 1 \in DOMAIN stack
                                /\ Calls(heap, Levels, stack[Len(stack) - 1], Top)
<1>1. /\ Len(stack) \in Nat \ {0} /\ DOMAIN stack = 1..Len(stack) /\ Len(stack) \in DOMAIN stack
      /\ Top = stack[Len(stack)]
  BY TypesHere, Lengths DEF Stacks
<1>2. CallsBind
  BY DEF BindInv
<1>3. Sound(Top) /\ (Len(stack) = 1 => Top.pc \in Exprs)
  BY <1>1, <1>2 DEF CallsBind, Calling
<1>4. ASSUME Len(stack) > 1
      PROVE  /\ Len(stack) - 1 \in DOMAIN stack
             /\ Calls(heap, Levels, stack[Len(stack) - 1], Top)
  <2>1. /\ Len(stack) - 1 \in DOMAIN stack /\ (Len(stack) - 1) + 1 \in DOMAIN stack
        /\ (Len(stack) - 1) + 1 = Len(stack)
    BY <1>1, <1>4
  <2>2. Calls(heap, Levels, stack[Len(stack) - 1], stack[(Len(stack) - 1) + 1])
    BY <1>2, <2>1 DEF CallsBind, Calling
  <2> QED BY <1>1, <2>1, <2>2
<1>5. Known(heap, Top.kids)
  BY <1>1, OperandsKnown DEF AllKnown
<1>6. Top \in Frames(Labels) /\ Top.kids \in Seq(Nat) /\ Top.at \in Nat /\ Top.prec \in Nat
  <2>1. Top \in Frames(Labels)
    BY OrderHere
  <2> QED BY <2>1 DEF Frames
<1> QED BY <1>1, <1>3, <1>4, <1>5, <1>6

LEMMA AwaitedIsThere ==
    ASSUME IInv, errors = <<>>, stack # <<>>, Top.pc \in AwaitsResult
    PROVE  ret \in DOMAIN heap /\ ret # NIL /\ GotIfAny = Got
<1>1. ret \in Nat
  BY WithResult
<1>2. ret \in DOMAIN heap
  BY <1>1 DEF IInv, MachineInv, RetOK, NoValue, Panicked
<1>3. ret # NIL
  BY <1>2, TypesHere DEF Heaps, NIL
<1> QED BY <1>2, <1>3 DEF GotIfAny

(* The operands with one more.                                             *)
LEMMA GotIs ==
    ASSUME IInv, OrderInv, stack # <<>>, Top.pc \in AwaitsResult
    PROVE  /\ Got \in Seq(Nat) /\ Len(Got) = Len(Top.kids) + 1 /\ Len(Top.kids) \in Nat
           /\ Got[Len(Top.kids) + 1] = ret
           /\ \A i \in DOMAIN Top.kids : Got[i] = Top.kids[i] /\ i \in 1..Len(Top.kids)
           /\ DOMAIN Got = 1..Len(Got)
<1>1. ret \in Nat /\ Top.kids \in Seq(Nat)
  BY ResultHere, OrderHere
<1> QED BY <1>1 DEF Got

LEMMA KeptOrGot ==
    ASSUME IInv, stack # <<>>, Top.kids \in Seq(Nat), Top.kids # <<>>,
           NEW kids, Kept(kids), kids \in {Top.kids, Got, GotIfAny}
    PROVE  kids = Top.kids \/ (Top.pc \in AwaitsResult /\ kids = Got)
<1>1. kids = Top.kids \/ kids = Got
  BY DEF GotIfAny
<1>2. ASSUME kids = Got PROVE Top.pc \in AwaitsResult
  <2>1. Len(Got) = Len(Top.kids) + 1 /\ Len(Top.kids) >= 1 /\ Len(Top.kids) \in Nat
    BY DEF Got
  <2>2. kids # <<>> /\ kids # <<NIL>> /\ kids # Top.kids
    BY <1>2, <2>1
  <2> QED BY <2>2 DEF Kept
<1> QED BY <1>1, <1>2

(* The points, told apart.                                                 *)
LEMMA PointsApart ==
    /\ WantPoints \subseteq AwaitsResult /\ "parseExpression.Left" \in AwaitsResult
    /\ "parseExpression" \notin AwaitsResult /\ "parseInfixExpression" \notin AwaitsResult
    /\ "parseNotInfixExpression" \notin AwaitsResult
    /\ "parseInfixExpression" \notin Functions /\ "parseExpression.Left" \notin Functions
    /\ "parsePrefixExpression.Right" \notin Functions
    /\ Functions \cap AwaitsResult = {} /\ Functions \cap OperationPoints = {}
    /\ Functions \cap WantPoints = {} /\ OperationPoints \cap Exprs = {}
    /\ OperationPoints \subseteq Labels
BY DEF WantPoints, AwaitsResult, Functions, InfixFns, OperationPoints, OneOperand, Exprs, Labels

LEMMA SameNodesBind ==
    ASSUME NodesBind, UNCHANGED <<input, heap>>
    PROVE  NodesBind'
BY SameLevels DEF NodesBind

(* The calls of an operation in progress: what its next point asks for.    *)
LEMMA CallerOperates ==
    ASSUME IInv, OrderInv, BindInv, errors = <<>>, stack # <<>>,
           NEW k \in Nat, NEW pc \in Labels, NEW kids \in Seq(Nat), NEW fn \in Labels,
           Link(Top.pc, k, pc, fn), Hands(k, pc, kids), pc \in OperationPoints,
           NEW f, Operates(heap, Levels, f, Top)
    PROVE  Operates(heap, Levels, f, Frame(pc, Top.prec, Top.at, Top.lo, kids))
<1> DEFINE g == Frame(pc, Top.prec, Top.at, Top.lo, kids)
<1>1. g.pc = pc /\ g.at = Top.at /\ g.kids = kids
  BY DEF Frame
<1> HIDE DEF g
<1>2. /\ Top.kids # <<>> /\ Top.kids \in Seq(Nat)
      /\ Settled(heap, Levels, Top.kids[1], Levels[Top.at])
      /\ Tight(heap, Levels, Top.kids[1], f.prec)
  BY CallHere DEF Operates
<1>3. /\ Top.pc \in OperationPoints /\ (pc \in OneOperand => Top.pc \in OneOperand)
      /\ (pc \in AtPoints => Top.pc \in AtPoints) /\ pc \in AwaitsResult
      /\ (pc = "parseBetweenExpression.High" => Top.pc = "parseBetweenExpression.Low")
      /\ (pc = "parseLikeExpression.Escape" => Top.pc = "parseLikeExpression.Pattern")
  BY DEF Link
<1>4. /\ pc \in OneOperand => kids = Top.kids
      /\ kids = Top.kids \/ (Top.pc \in AwaitsResult /\ kids = Got)
      /\ pc \in {"parseLikeExpression.Escape", "parseBetweenExpression.High"} => kids = Got
  <2>1. Kept(kids) /\ kids \in {Top.kids, Got, GotIfAny}
    BY DEF Hands
  <2>2. kids = Top.kids \/ (Top.pc \in AwaitsResult /\ kids = Got)
    BY <1>2, <2>1, KeptOrGot
  <2>3. /\ pc \in OneOperand => kids = Top.kids
        /\ pc \in {"parseLikeExpression.Escape", "parseBetweenExpression.High"} => kids = Got
    BY DEF Hands
  <2> QED BY <2>2, <2>3
<1>5. /\ kids # <<>> /\ kids[1] = Top.kids[1]
      /\ kids = Got => /\ kids[Len(Top.kids) + 1] = ret /\ Len(kids) = Len(Top.kids) + 1
  <2>1. 1 \in DOMAIN Top.kids
    BY <1>2
  <2>2. CASE kids = Top.kids
    <3>1. kids # Got
      BY <1>2, <2>2 DEF Got
    <3> QED BY <1>2, <2>2, <3>1
  <2>3. CASE Top.pc \in AwaitsResult /\ kids = Got
    BY <2>1, <2>3, GotIs
  <2> QED BY <1>4, <2>2, <2>3
<1>6. Top.pc \in OneOperand => Len(Top.kids) = 1
  BY DEF Operates
<1>7. ASSUME pc = "parseLikeExpression.Escape"
      PROVE  Len(kids) = 2 /\ Tight(heap, Levels, kids[2], COMPARE)
  <2>1. Top.pc = "parseLikeExpression.Pattern" /\ kids = Got /\ Len(Top.kids) = 1
    BY <1>3, <1>4, <1>6, <1>7 DEF OneOperand
  <2>2. Tight(heap, Levels, ret, COMPARE)
    BY <2>1 DEF BindInv, ResultBinds, Suits, WantPoints, Wanted
  <2> QED BY <1>5, <2>1, <2>2
<1>8. ASSUME pc = "parseBetweenExpression.High"
      PROVE  Len(kids) = 2 /\ Tight(heap, Levels, kids[2], AND_PREC)
  <2>1. Top.pc = "parseBetweenExpression.Low" /\ kids = Got /\ Len(Top.kids) = 1
    BY <1>3, <1>4, <1>6, <1>8 DEF OneOperand
  <2>2. Tight(heap, Levels, ret, AND_PREC)
    BY <2>1 DEF BindInv, ResultBinds, Suits, WantPoints, Wanted
  <2> QED BY <1>5, <2>1, <2>2
<1>9. pc \in OneOperand => Len(kids) = 1
  BY <1>3, <1>4, <1>6
<1>10. pc # "parseNotInfixExpression"
  BY <1>3, PointsApart
<1>11. pc \in AtPoints => Levels[Top.at] = CALL
  BY <1>3 DEF Operates
<1>12. Operates(heap, Levels, f, g)
  BY <1>1, <1>2, <1>5, <1>7, <1>8, <1>9, <1>10, <1>11 DEF Operates
<1> QED BY <1>12 DEF g

LEMMA CallBinds ==
    ASSUME IInv, OrderInv, BindInv, errors = <<>>, stack # <<>>,
           NEW k \in Nat, NEW pc \in Labels, NEW kids \in Seq(Nat), NEW fn \in Labels,
           NEW prec \in Nat, CallMove(k, pc, kids, fn, prec)
    PROVE  BindInv'
<1> DEFINE caller == Frame(pc, Top.prec, Top.at, Top.lo, kids)
           callee == Frame(fn, prec, pos + k, pos + k, <<>>)
           under  == [stack EXCEPT ![Len(stack)] = caller]
<1>1. /\ stack' = Append(under, callee)
      /\ UNCHANGED <<input, ret, heap, errors>>
      /\ Link(Top.pc, k, pc, fn) /\ Hands(k, pc, kids)
  BY DEF CallMove, CallFrame, Resume
<1>2. /\ caller.pc = pc /\ caller.prec = Top.prec /\ caller.at = Top.at /\ caller.kids = kids
      /\ callee.pc = fn /\ callee.prec = prec
  BY DEF Frame
<1>3. caller \in Frames(Labels) /\ callee \in Frames(Labels)
  BY CallHere, OrderHere, TypesHere DEF Frame, Frames
<1>4. /\ under \in Stacks /\ under # <<>> /\ under[Len(under)] = caller
      /\ stack' # <<>> /\ Top' = callee
  BY <1>1, <1>3, TypesHere DEF Stacks, Top
<1>5. /\ pc \in AwaitsResult /\ fn \in Functions
      /\ pc = "parseExpression.Left" <=> Top.pc = "parseExpression"
      /\ Top.pc # "parseExpression.Left"
  BY <1>1 DEF Link
<1>6. pc \in Exprs <=> Top.pc \in Exprs
  BY <1>5, PointsApart DEF Exprs
<1>7. Sound(caller)
  BY <1>1, <1>2, <1>6, CallHere DEF Sound, Hands
<1>8. Sound(callee)
  BY <1>2, <1>5, PointsApart DEF Sound, Exprs, CallMove
<1>9. ASSUME Len(stack) > 1
      PROVE  Calls(heap, Levels, stack[Len(stack) - 1], caller)
  <2>1. Calls(heap, Levels, stack[Len(stack) - 1], Top)
    BY <1>9, CallHere
  <2>2. ASSUME pc \in OperationPoints
        PROVE  Operates(heap, Levels, stack[Len(stack) - 1], caller)
    <3>1. Top.pc \in OperationPoints
      BY <1>1, <2>2 DEF Link
    <3>2. Operates(heap, Levels, stack[Len(stack) - 1], Top)
      BY <2>1, <3>1 DEF Calls
    <3> QED BY <1>1, <2>2, <3>2, CallerOperates
  <2> QED BY <1>2, <1>6, <2>1, <2>2 DEF Calls
<1>10. Calls(heap, Levels, caller, callee)
  <2>1. ASSUME pc \in WantPoints
        PROVE  fn \in Exprs /\ prec = Wanted(pc, Levels[Top.at])
    <3>1. fn = "parseExpression" /\ prec = Wanted(pc, Precedence(Cur))
      BY <1>1, <2>1 DEF Link, CallMove
    <3>2. CASE pc = "parseInfixExpression.Right"
      <4>1. Top.pc = "parseInfixExpression"
        BY <1>1, <3>2 DEF Link
      <4>2. Top.at = pos
        BY <4>1 DEF BindInv, ResultBinds
      <4> QED BY <3>1, <4>2, TypesHere DEF Levels, Cur, Exprs
    <3>3. CASE pc # "parseInfixExpression.Right"
      BY <2>1, <3>1, <3>3 DEF Wanted, WantPoints, Exprs
    <3> QED BY <3>2, <3>3
  <2>2. pc = "parseExpression.Left" => fn \notin Exprs
    BY <1>1, <1>5, PointsApart DEF Link, Exprs
  <2>3. fn \notin OperationPoints
    BY <1>5, PointsApart
  <2> QED BY <1>2, <2>1, <2>2, <2>3 DEF Calls
<1> HIDE DEF caller, callee
<1>11. Calling(heap, Levels, under)
  <2>1. Calling(heap, Levels, stack) /\ AllKnown(heap, stack)
    BY OperandsKnown DEF BindInv, CallsBind
  <2>2. Len(stack) = 1 => caller.pc \in Exprs
    BY <1>2, <1>6, CallHere
  <2> QED BY <1>3, <1>7, <1>9, <2>1, <2>2, TypesHere, KeepsItself, CallingReplaced
<1> HIDE DEF under
<1>12. Calling(heap, Levels, Append(under, callee))
  BY <1>3, <1>4, <1>8, <1>10, <1>11, CallingPushed
<1>13. CallsBind' /\ NodesBind'
  BY <1>1, <1>12, SameLevels, SameNodesBind DEF CallsBind, BindInv
<1>14. ResultBinds'
  BY <1>2, <1>4, <1>5, PointsApart DEF ResultBinds, Suits
<1> QED BY <1>13, <1>14 DEF BindInv

(* Another call at the top that goes on without a result.                  *)
LEMMA TopRebound ==
    ASSUME IInv, OrderInv, BindInv, errors = <<>>, stack # <<>>, NEW f \in Frames(Labels),
           stack' = [stack EXCEPT ![Len(stack)] = f], input' = input,
           Keeps(heap, heap'), f.pc \notin AwaitsResult \cup {"parseInfixExpression"},
           Sound(f), Len(stack) = 1 => f.pc \in Exprs,
           Len(stack) > 1 => Calls(heap', Levels, stack[Len(stack) - 1], f)
    PROVE  CallsBind' /\ ResultBinds'
<1>1. Calling(heap', Levels, stack')
  <2>1. Calling(heap, Levels, stack) /\ AllKnown(heap, stack)
    BY OperandsKnown DEF BindInv, CallsBind
  <2> QED BY <2>1, TypesHere, CallingReplaced
<1>2. CallsBind'
  BY <1>1, SameLevels DEF CallsBind
<1>3. Top' = f
  BY TypesHere, Lengths DEF Top, Stacks
<1>4. ResultBinds'
  BY <1>3, PointsApart DEF ResultBinds, Suits
<1> QED BY <1>2, <1>4

LEMMA GoBinds ==
    ASSUME IInv, OrderInv, BindInv, errors = <<>>, stack # <<>>,
           NEW k \in Nat, NEW pc \in Labels, NEW kids \in Seq(Nat), GoMove(k, pc, kids)
    PROVE  BindInv'
<1> DEFINE f == Frame(pc, Top.prec, Top.at, Top.lo, kids)
<1>1. /\ stack' = [stack EXCEPT ![Len(stack)] = f]
      /\ UNCHANGED <<input, ret, heap, errors>>
      /\ Way(Top.pc, k, pc)
  BY DEF GoMove, Continue, Resume
<1>2. f \in Frames(Labels) /\ f.pc = pc
  BY CallHere, OrderHere DEF Frame, Frames
<1> HIDE DEF f
<1>3. /\ pc \in Functions /\ pc # "parseExpression" /\ pc \notin OperationPoints
      /\ Top.pc \notin Exprs
  BY <1>1 DEF Way
<1>4. /\ pc \notin Exprs /\ pc \notin AwaitsResult \cup {"parseInfixExpression"}
      /\ pc # "parsePrefixExpression.Right"
  BY <1>3, PointsApart DEF Exprs
<1>5. Sound(f) /\ Len(stack) # 1
  BY <1>2, <1>3, <1>4, CallHere DEF Sound
<1>6. ASSUME Len(stack) > 1 PROVE Calls(heap, Levels, stack[Len(stack) - 1], f)
  <2>1. Calls(heap, Levels, stack[Len(stack) - 1], Top)
    BY <1>6, CallHere
  <2> QED BY <1>2, <1>3, <1>4, <2>1 DEF Calls
<1>7. CallsBind' /\ ResultBinds'
  BY <1>1, <1>2, <1>4, <1>5, <1>6, KeepsItself, TopRebound
<1> QED BY <1>1, <1>7, SameNodesBind DEF BindInv

LEMMA NotBinds ==
    ASSUME IInv, OrderInv, BindInv, errors = <<>>, NotMove
    PROVE  BindInv'
<1> DEFINE f == Frame(InfixFn(Peek), Top.prec, pos + 1, Top.lo, Top.kids)
<1>1. /\ stack # <<>> /\ Top.pc = "parseNotInfixExpression"
      /\ stack' = [stack EXCEPT ![Len(stack)] = f]
      /\ UNCHANGED <<input, ret, heap, errors>>
  BY DEF NotMove, TailCall, At
<1>2. /\ f.pc \in {"parseInExpression", "parseLikeExpression", "parseBetweenExpression"}
      /\ f.at = pos + 1 /\ f.kids = Top.kids /\ f.prec = Top.prec
  BY DEF NotMove, InfixFn, Frame
<1>3. f \in Frames(Labels)
  <2>1. pos \in Nat /\ InfixFn(Peek) \in Labels
    BY <1>2, TypesHere DEF Frame, Labels
  <2> QED BY <1>1, <2>1, CallHere, OrderHere DEF Frame, Frames
<1> HIDE DEF f
<1>4. f.pc \in OneOperand /\ f.pc \in OperationPoints /\ f.pc \notin Exprs
      /\ f.pc \notin AwaitsResult \cup {"parseInfixExpression"} /\ f.pc \notin AtPoints
  BY <1>2 DEF OneOperand, OperationPoints, Exprs, AwaitsResult, AtPoints
<1>5. Levels[pos + 1] = BETWEEN_PREC
  BY TypesHere DEF NotMove, Levels, Peek, Precedence
<1>6. Sound(f)
  BY <1>2 DEF Sound, Exprs
<1>7. Top.pc \in OperationPoints /\ Top.pc \in OneOperand /\ Top.pc \notin Exprs
  BY <1>1 DEF OperationPoints, OneOperand, Exprs
<1>8. ASSUME Len(stack) > 1 PROVE Calls(heap, Levels, stack[Len(stack) - 1], f)
  <2>1. Calls(heap, Levels, stack[Len(stack) - 1], Top)
    BY <1>1, <1>8, CallHere
  <2>2. Operates(heap, Levels, stack[Len(stack) - 1], Top)
    BY <1>7, <2>1 DEF Calls
  <2>3. Levels[Top.at] = BETWEEN_PREC
    BY <1>1, <2>2 DEF Operates
  <2>4. f.pc # "parseLikeExpression.Escape" /\ f.pc # "parseBetweenExpression.High"
        /\ f.pc # "parseNotInfixExpression"
    BY <1>2
  <2>5. Operates(heap, Levels, stack[Len(stack) - 1], f)
    BY <1>2, <1>4, <1>5, <1>7, <2>2, <2>3, <2>4 DEF Operates
  <2> QED BY <1>4, <1>7, <2>1, <2>5 DEF Calls
<1>9. Len(stack) # 1
  BY <1>1, <1>7, CallHere
<1>10. CallsBind' /\ ResultBinds'
  BY <1>1, <1>3, <1>4, <1>6, <1>8, <1>9, KeepsItself, TopRebound
<1> QED BY <1>1, <1>10, SameNodesBind DEF BindInv

LEMMA InfixLevels ==
    \A t : /\ InfixFn(t) \in OperationPoints => Precedence(t) <= CALL
           /\ InfixFn(t) = "parseAtTimeZoneExpression" => Precedence(t) = CALL
           /\ InfixFn(t) = "parseNotInfixExpression" => Precedence(t) = BETWEEN_PREC
<1> SUFFICES ASSUME NEW t
             PROVE  /\ InfixFn(t) \in OperationPoints => Precedence(t) <= CALL
                    /\ InfixFn(t) = "parseAtTimeZoneExpression" => Precedence(t) = CALL
                    /\ InfixFn(t) = "parseNotInfixExpression" => Precedence(t) = BETWEEN_PREC
  OBVIOUS
<1>1. InfixFn(t) \in OperationPoints => t \notin {"DOT", "SCOPE"}
  BY DEF InfixFn, OperationPoints, OneOperand
<1>2. t \notin {"DOT", "SCOPE"} => Precedence(t) <= CALL
  BY DEF Precedence, LOWEST, OR_PREC, AND_PREC, COMPARE, BETWEEN_PREC, BITOR, BITXOR,
         BITAND, SHIFT, SUM, PRODUCT, CALL
<1>3. InfixFn(t) = "parseAtTimeZoneExpression" => t = "AT"
  BY DEF InfixFn
<1>4. InfixFn(t) = "parseNotInfixExpression" => t = "NOT"
  BY DEF InfixFn
<1>5. Precedence("AT") = CALL /\ Precedence("NOT") = BETWEEN_PREC
  BY DEF Precedence
<1> QED BY <1>1, <1>2, <1>3, <1>4, <1>5

LEMMA InfixPoints ==
    \A t : InfixFn(t) # "nil" =>
        /\ InfixFn(t) \notin Exprs \cup WantPoints
        /\ InfixFn(t) # "parsePrefixExpression.Right"
        /\ InfixFn(t) \in OperationPoints => InfixFn(t) \in OneOperand
        /\ InfixFn(t) \in AtPoints => InfixFn(t) = "parseAtTimeZoneExpression"
        /\ InfixFn(t) # "parseLikeExpression.Escape" /\ InfixFn(t) # "parseBetweenExpression.High"
BY DEF InfixFn, Exprs, WantPoints, OperationPoints, OneOperand, AtPoints

LEMMA InfixBinds ==
    ASSUME IInv, OrderInv, BindInv, errors = <<>>, InfixMove
    PROVE  BindInv'
<1> DEFINE fn     == InfixFn(Peek)
           caller == Frame("parseExpression.Left", Top.prec, Top.at, Top.lo, <<>>)
           callee == Frame(fn, 0, pos + 1, Top.lo, <<ret>>)
           under  == [stack EXCEPT ![Len(stack)] = caller]
<1>1. /\ stack # <<>> /\ Top.pc = "parseExpression.Left"
      /\ stack' = Append(under, callee) /\ pos' = pos + 1
      /\ UNCHANGED <<input, ret, heap, errors>>
      /\ fn # "nil" /\ Top.prec < Precedence(Peek)
  BY DEF InfixMove, CallFrame, Resume, At
<1>2. /\ caller.pc = "parseExpression.Left" /\ caller.prec = Top.prec
      /\ callee.pc = fn /\ callee.at = pos + 1 /\ callee.kids = <<ret>>
  BY DEF Frame
<1>3. ret \in Nat /\ pos \in Nat /\ Levels[pos + 1] = Precedence(Peek)
  BY <1>1, ResultHere, TypesHere DEF AwaitsResult, Levels, Peek
<1>4. caller \in Frames(Labels) /\ callee \in Frames(Labels)
  <2>1. "parseExpression.Left" \in Labels /\ fn \in Labels
    BY <1>1, InfixFnType DEF Labels, AwaitsResult
  <2> QED BY <1>1, <1>3, <2>1, CallHere, OrderHere DEF Frame, Frames
<1>5. /\ under \in Stacks /\ under # <<>> /\ under[Len(under)] = caller
      /\ stack' # <<>> /\ Top' = callee
  BY <1>1, <1>4, TypesHere DEF Stacks, Top
<1>6. Sound(caller) /\ Sound(callee)
  BY <1>1, <1>2, CallHere, InfixPoints DEF Sound, Exprs
<1>7. /\ Tight(heap, Levels, ret, Top.prec) /\ Settled(heap, Levels, ret, Levels[pos + 1])
  BY <1>1 DEF BindInv, ResultBinds, Suits
<1>8. Calls(heap, Levels, caller, callee)
  <2>1. ASSUME fn \in OperationPoints PROVE Operates(heap, Levels, caller, callee)
    <3>1. /\ Precedence(Peek) <= CALL
          /\ fn \in AtPoints => Precedence(Peek) = CALL
          /\ fn = "parseNotInfixExpression" => Precedence(Peek) = BETWEEN_PREC
      BY <1>1, <2>1, InfixLevels, InfixPoints
    <3>2. <<ret>> # <<>> /\ <<ret>>[1] = ret /\ Len(<<ret>>) = 1
      OBVIOUS
    <3>3. Levels[callee.at] = Precedence(Peek) /\ callee.kids[1] = ret /\ Len(callee.kids) = 1
          /\ callee.kids # <<>>
      BY <1>2, <1>3, <3>2
    <3>4. Levels[callee.at] > caller.prec
      <4>1. Top.prec \in Nat /\ Precedence(Peek) \in Nat
        BY <1>1, CallHere, PrecedenceType
      <4> QED BY <1>1, <1>2, <3>3, <4>1
    <3>5. fn # "parseLikeExpression.Escape" /\ fn # "parseBetweenExpression.High"
      BY <1>1, InfixPoints
    <3> QED BY <1>2, <1>3, <1>7, <3>1, <3>3, <3>4, <3>5 DEF Operates
  <2>2. fn \notin Exprs /\ caller.pc \notin WantPoints
    BY <1>1, <1>2, InfixPoints DEF WantPoints
  <2> QED BY <1>2, <2>1, <2>2 DEF Calls
<1>9. ASSUME Len(stack) > 1 PROVE Calls(heap, Levels, stack[Len(stack) - 1], caller)
  <2>1. Calls(heap, Levels, stack[Len(stack) - 1], Top)
    BY <1>1, <1>9, CallHere
  <2>2. caller.pc \notin OperationPoints /\ caller.pc \in Exprs /\ Top.pc \in Exprs
    BY <1>1, <1>2, PointsApart DEF Exprs
  <2> QED BY <1>1, <1>2, <2>1, <2>2 DEF Calls
<1>10. caller.pc \in Exprs
  BY <1>2 DEF Exprs
<1> HIDE DEF caller, callee, fn
<1>11. Calling(heap, Levels, under)
  <2>1. Calling(heap, Levels, stack) /\ AllKnown(heap, stack)
    BY OperandsKnown DEF BindInv, CallsBind
  <2> QED BY <1>1, <1>4, <1>6, <1>9, <1>10, <2>1, TypesHere, KeepsItself, CallingReplaced
<1> HIDE DEF under
<1>12. Calling(heap, Levels, Append(under, callee))
  BY <1>4, <1>5, <1>6, <1>8, <1>11, CallingPushed
<1>13. CallsBind' /\ NodesBind'
  BY <1>1, <1>12, SameLevels, SameNodesBind DEF CallsBind, BindInv
<1>14. ResultBinds'
  <2>1. callee.pc \notin WantPoints /\ callee.pc # "parseExpression.Left"
    BY <1>1, <1>2, InfixPoints DEF Exprs, fn
  <2> QED BY <1>1, <1>2, <1>5, <2>1 DEF ResultBinds, Suits
<1> QED BY <1>13, <1>14 DEF BindInv
-----------------------------------------------------------------------------
(* A call returns: what its caller gets must suit it.                      *)
LEMMA ReturnBinds ==
    ASSUME IInv, OrderInv, BindInv, errors = <<>>, stack # <<>>, Pop, input' = input,
           Keeps(heap, heap'), NodesBind',
           Len(stack) > 1 =>
               Suits(heap', Levels, stack[Len(stack) - 1], ret', Levels[pos' + 1])
    PROVE  BindInv'
<1>1. stack' = Popped(stack)
  BY DEF Pop, Popped
<1>2. Calling(heap', Levels, stack')
  <2>1. Calling(heap, Levels, stack) /\ AllKnown(heap, stack)
    BY OperandsKnown DEF BindInv, CallsBind
  <2> QED BY <1>1, <2>1, TypesHere, CallingPopped
<1>3. CallsBind'
  BY <1>2, SameLevels DEF CallsBind
<1>4. ASSUME stack' # <<>> PROVE ResultBinds'
  <2>1. /\ Top' = stack[Len(stack) - 1] /\ Top'.pc \in AwaitsResult
        /\ Len(stack) - 1 \in DOMAIN stack
    BY <1>1, <1>4, CallersAwait
  <2>2. Len(stack) > 1
    <3>1. DOMAIN stack = 1..Len(stack) /\ Len(stack) \in Nat
      BY TypesHere, Lengths
    <3> QED BY <2>1, <3>1
  <2>3. Suits(heap', Levels', Top', ret', Levels'[pos' + 1])
    BY <2>1, <2>2, SameLevels
  <2> QED BY <2>1, <2>3, PointsApart DEF ResultBinds
<1>5. ResultBinds'
  BY <1>4 DEF ResultBinds
<1> QED BY <1>3, <1>5 DEF BindInv

LEMMA LeftBinds ==
    ASSUME IInv, OrderInv, BindInv, errors = <<>>, LeftMove
    PROVE  BindInv'
<1>1. /\ stack # <<>> /\ Top.pc = "parseExpression.Left" /\ Pop
      /\ ret' = ret /\ UNCHANGED <<input, pos, heap, errors>>
      /\ Top.prec >= Precedence(Peek) \/ Precedence(Peek) = LOWEST
  BY DEF LeftMove, At, Return
<1>2. ASSUME Len(stack) > 1
      PROVE  Suits(heap, Levels, stack[Len(stack) - 1], ret, Levels[pos + 1])
  <2>1. Calls(heap, Levels, stack[Len(stack) - 1], Top)
    BY <1>1, <1>2, CallHere
  <2>2. stack[Len(stack) - 1].pc # "parseExpression.Left"
    BY <1>1, <2>1 DEF Calls, Exprs
  <2>3. Tight(heap, Levels, ret, Top.prec)
    BY <1>1 DEF BindInv, ResultBinds, Suits
  <2>4. Levels[pos + 1] <= Top.prec
    <3>1. Levels[pos + 1] = Precedence(Peek) /\ Precedence(Peek) \in Nat
      BY TypesHere, PrecedenceType DEF Levels, Peek
    <3>2. Top.prec >= LOWEST /\ Top.prec \in Nat
      BY <1>1, CallHere DEF Sound, Exprs
    <3> QED BY <1>1, <3>1, <3>2, LevelNumbers
  <2> QED BY <2>1, <2>2, <2>3, <2>4 DEF Calls, Suits
<1>3. NodesBind'
  BY <1>1, SameNodesBind DEF BindInv
<1> QED BY <1>1, <1>2, <1>3, KeepsItself, ReturnBinds

LEMMA AtBinds ==
    ASSUME IInv, OrderInv, BindInv, errors = <<>>, AtMove
    PROVE  BindInv'
<1> DEFINE v == Top.kids[1]
<1>1. /\ stack # <<>> /\ Top.pc = "parseAtTimeZoneExpression" /\ Pop
      /\ ret' = v /\ UNCHANGED <<input, pos, heap, errors>>
  BY DEF AtMove, At, Return
<1>2. ASSUME Len(stack) > 1
      PROVE  Suits(heap, Levels, stack[Len(stack) - 1], v, Levels[pos + 1])
  <2>1. Calls(heap, Levels, stack[Len(stack) - 1], Top)
    BY <1>1, <1>2, CallHere
  <2>2. Operates(heap, Levels, stack[Len(stack) - 1], Top)
    BY <1>1, <2>1 DEF Calls, OperationPoints, OneOperand
  <2>3. /\ stack[Len(stack) - 1].pc = "parseExpression.Left"
        /\ Tight(heap, Levels, v, stack[Len(stack) - 1].prec)
        /\ Settled(heap, Levels, v, CALL) /\ Top.kids # <<>>
    BY <1>1, <2>2 DEF Operates, AtPoints
  <2>4. ASSUME EndsOpen(heap, Levels, v)
        PROVE  \/ Levels[pos + 1] = INDEX
               \/ Levels[pos + 1] <= FloorOf(Levels, heap[v])[Len(heap[v].kids)]
    <3>1. v \in DOMAIN heap
      <4>1. 1 \in DOMAIN Top.kids
        BY <1>1, <2>3, CallHere
      <4> QED BY <1>1, <2>4, <4>1, CallHere DEF Known, EndsOpen
    <3>2. heap[v].at \in Nat
      <4>1. heap[v] \in Nodes(Kinds)
        BY <3>1, TypesHere DEF Heaps
      <4> QED BY <4>1 DEF Nodes
    <3>3. /\ FloorOf(Levels, heap[v])[Len(heap[v].kids)] \in Nat
          /\ CALL <= FloorOf(Levels, heap[v])[Len(heap[v].kids)]
      BY <2>3, <2>4, <3>2, FloorType, LevelsType, LevelNumbers DEF Settled, EndsOpen
    <3>4. Levels[pos + 1] \in 1..15
      BY TypesHere, LevelsType, LevelNumbers
    <3> QED BY <3>3, <3>4, LevelNumbers
  <2>5. stack[Len(stack) - 1].pc \notin WantPoints
    BY <2>3 DEF WantPoints
  <2> QED BY <2>3, <2>4, <2>5 DEF Suits, Settled
<1>3. NodesBind'
  BY <1>1, SameNodesBind DEF BindInv
<1> QED BY <1>1, <1>2, <1>3, KeepsItself, ReturnBinds

LEMMA ParenBinds ==
    ASSUME IInv, OrderInv, BindInv, errors = <<>>, ParenMove
    PROVE  BindInv'
<1>1. /\ stack # <<>> /\ Top.pc = "parseGroupedExpression.Exp" /\ Pop
      /\ Top.pc \in AwaitsResult /\ DropParentheses
      /\ ret' = ret /\ UNCHANGED <<input, errors>>
  BY DEF ParenMove, DropParentheses, At, AwaitsResult
<1>2. ret \in DOMAIN heap /\ ret # NIL
  BY <1>1, AwaitedIsThere
<1>3. heap' = [heap EXCEPT ![ret] = InParentheses(heap[ret])]
  BY <1>1, <1>2 DEF DropParentheses
<1>4. /\ DOMAIN heap' = DOMAIN heap /\ heap'[ret].paren
      /\ \A n \in DOMAIN heap : n # ret => heap'[n] = heap[n]
      /\ heap'[ret].kind = heap[ret].kind /\ heap'[ret].at = heap[ret].at
      /\ heap'[ret].kids = heap[ret].kids
  BY <1>2, <1>3 DEF InParentheses
<1>5. Keeps(heap, heap')
  BY <1>4 DEF Keeps
<1>6. NodesBind'
  <2>1. ASSUME NEW n \in DOMAIN heap PROVE Binds(heap', Levels, n)
    <3>1. Binds(heap, Levels, n) /\ Known(heap, heap[n].kids) /\ heap[n].kids \in Seq(Nat)
      BY OperandsKnown, TypesHere, NodeType DEF BindInv, NodesBind
    <3> QED BY <1>5, <3>1, BindsKept
  <2> QED BY <1>1, <1>4, <2>1, SameLevels DEF NodesBind
<1>7. ASSUME Len(stack) > 1
      PROVE  Suits(heap', Levels, stack[Len(stack) - 1], ret, Levels[pos' + 1])
  <2>1. Calls(heap, Levels, stack[Len(stack) - 1], Top)
    BY <1>1, <1>7, CallHere
  <2>2. stack[Len(stack) - 1].pc \notin WantPoints
    BY <1>1, <2>1 DEF Calls, Exprs
  <2>3. \A p : Tight(heap', Levels, ret, p) /\ Settled(heap', Levels, ret, p)
    BY <1>4 DEF Tight, IsOpen, Settled, EndsOpen
  <2> QED BY <2>2, <2>3 DEF Suits
<1> QED BY <1>1, <1>5, <1>6, <1>7, ReturnBinds

(* A new node at the end of the heap.                                      *)
LEMMA AppendedBinds ==
    ASSUME IInv, OrderInv, BindInv, errors = <<>>,
           NEW node, heap' = Append(heap, node), input' = input,
           Binds(heap', Levels, Len(heap) + 1)
    PROVE  Keeps(heap, heap') /\ NodesBind' /\ heap'[Len(heap) + 1] = node
<1>1. /\ DOMAIN heap' = DOMAIN heap \cup {Len(heap) + 1} /\ heap'[Len(heap) + 1] = node
      /\ \A n \in DOMAIN heap : heap'[n] = heap[n]
  BY TypesHere DEF Heaps
<1>2. Keeps(heap, heap')
  BY <1>1 DEF Keeps
<1>3. ASSUME NEW n \in DOMAIN heap PROVE Binds(heap', Levels, n)
  <2>1. Binds(heap, Levels, n) /\ Known(heap, heap[n].kids) /\ heap[n].kids \in Seq(Nat)
    BY OperandsKnown, TypesHere, NodeType DEF BindInv, NodesBind
  <2> QED BY <1>2, <2>1, BindsKept
<1>4. NodesBind'
  BY <1>1, <1>3, SameLevels DEF NodesBind
<1> QED BY <1>1, <1>2, <1>4

LEMMA NameBinds ==
    ASSUME IInv, OrderInv, BindInv, errors = <<>>, NameMove
    PROVE  BindInv'
<1> DEFINE node == Node("Identifier", pos, <<>>, pos)
           f    == Frame("parseCallExpression", Top.prec, pos + 1, Top.lo, <<Len(heap) + 1>>)
<1>1. /\ stack # <<>> /\ Top.pc = "parseFunctionLiteral"
      /\ heap' = Append(heap, node) /\ stack' = [stack EXCEPT ![Len(stack)] = f]
      /\ UNCHANGED <<input, errors>>
  BY DEF NameMove, At
<1>2. /\ node.kind = "Identifier" /\ node.kids = <<>> /\ f.pc = "parseCallExpression"
  BY DEF Node, Frame
<1>3. f \in Frames(Labels)
  <2>1. "parseCallExpression" \in Labels /\ Len(heap) + 1 \in Nat /\ pos + 1 \in Nat
    BY TypesHere DEF Labels, Heaps
  <2> QED BY <1>1, <2>1, CallHere, OrderHere DEF Frame, Frames
<1> HIDE DEF node, f
<1>4. heap'[Len(heap) + 1] = node
  BY <1>1, TypesHere DEF Heaps
<1>5. Binds(heap', Levels, Len(heap) + 1)
  BY <1>2, <1>4 DEF Binds, Operations
<1>6. Keeps(heap, heap') /\ NodesBind'
  BY <1>1, <1>5, AppendedBinds
<1>7. /\ f.pc \notin AwaitsResult \cup {"parseInfixExpression"} /\ Sound(f)
      /\ f.pc \notin Exprs /\ f.pc \notin OperationPoints
      /\ Top.pc \notin Exprs
  BY <1>1, <1>2 DEF AwaitsResult, Sound, Exprs, OperationPoints, OneOperand
<1>8. ASSUME Len(stack) > 1 PROVE Calls(heap', Levels, stack[Len(stack) - 1], f)
  <2>1. Calls(heap, Levels, stack[Len(stack) - 1], Top)
    BY <1>1, <1>8, CallHere
  <2> QED BY <1>7, <2>1 DEF Calls
<1>9. Len(stack) # 1
  BY <1>1, <1>7, CallHere
<1>10. CallsBind' /\ ResultBinds'
  BY <1>1, <1>3, <1>6, <1>7, <1>8, <1>9, TopRebound
<1> QED BY <1>6, <1>10 DEF BindInv
-----------------------------------------------------------------------------
(* The nodes: r is the new one in the nodes h, of call Top for its caller  *)
(* f, with these operands; the cursor goes k tokens on.                    *)
Made(h, r, kind, at, kids) ==
    /\ Keeps(heap, h) /\ r # NIL
    /\ h[r].kind = kind /\ h[r].at = at /\ h[r].kids = kids
Suited(h, r, f, l) ==
    Binds(h, Levels, r) /\ Tight(h, Levels, r, f.prec) /\ Settled(h, Levels, r, l)

LEMMA OtherMade ==
    ASSUME NEW h, NEW r, NEW kind, NEW at, NEW kids, Made(h, r, kind, at, kids),
           kind \notin Operations \cup {"Prefix"}, NEW f, NEW l
    PROVE  Suited(h, r, f, l)
<1>1. DOMAIN FloorOf(Levels, h[r]) = {}
  <2>1. h[r].kind \notin {"Prefix", "Infix", "Like", "Between", "IsDistinctFrom", "AtTimeZone"}
    BY DEF Made, Operations
  <2> QED BY <2>1, FloorCases
<1> QED BY <1>1 DEF Suited, Made, Binds, Tight, IsOpen, Settled, EndsOpen

(* The operand just parsed, and the token after it.                        *)
LEMMA ResultSuits ==
    ASSUME IInv, OrderInv, BindInv, errors = <<>>, stack # <<>>, Top.pc \in WantPoints,
           NEW h, Keeps(heap, h)
    PROVE  /\ ret # NIL /\ ret \in DOMAIN heap
           /\ Tight(h, Levels, ret, Wanted(Top.pc, Levels[Top.at]))
           /\ Levels[pos + 1] <= Wanted(Top.pc, Levels[Top.at])
<1>1. ret \in DOMAIN heap /\ ret # NIL
  BY AwaitedIsThere, PointsApart
<1>2. /\ Levels[pos + 1] <= Wanted(Top.pc, Levels[Top.at])
      /\ Tight(heap, Levels, ret, Wanted(Top.pc, Levels[Top.at]))
  BY DEF BindInv, ResultBinds, Suits
<1> QED BY <1>1, <1>2, TightKept

LEMMA PrefixMade ==
    ASSUME IInv, OrderInv, BindInv, errors = <<>>, stack # <<>>,
           Top.pc = "parsePrefixExpression.Right",
           NEW h, NEW r, Made(h, r, "Prefix", Top.at, Got), NEW f
    PROVE  Suited(h, r, f, Levels[pos + 1])
<1>1. Top.kids = <<>>
  BY CallHere DEF Sound
<1>2. Top.pc \in WantPoints /\ Wanted(Top.pc, Levels[Top.at]) = PREFIX
  BY DEF WantPoints, Wanted
<1>3. /\ Got = <<ret>> /\ ret # NIL
      /\ Tight(h, Levels, ret, PREFIX) /\ Levels[pos + 1] <= PREFIX
  BY <1>1, <1>2, ResultSuits DEF Made, Got
<1>4. Len(Got) = 1 /\ Got[1] = ret /\ DOMAIN Got = {1}
  BY <1>3
<1>5. DOMAIN FloorOf(Levels, h[r]) = {1} /\ FloorOf(Levels, h[r])[1] = PREFIX
  BY FloorCases DEF Made
<1>6. "Prefix" \notin Operations
  BY DEF Operations
<1> QED BY <1>3, <1>4, <1>5, <1>6 DEF Suited, Made, Binds, Tight, IsOpen, Settled

LEMMA OperationMade ==
    ASSUME IInv, OrderInv, BindInv, errors = <<>>, stack # <<>>,
           NEW f, Operates(heap, Levels, f, Top), NEW kind \in Operations, NEW kids,
           kids = Top.kids \/ (Top.pc \in AwaitsResult /\ kids = Got),
           NEW h, NEW r, Made(h, r, kind, Top.at, kids), NEW l,
           \A i \in DOMAIN FloorOf(Levels, h[r]) \cap DOMAIN kids :
              Tight(h, Levels, kids[i], FloorOf(Levels, h[r])[i]),
           Len(kids) \in DOMAIN FloorOf(Levels, h[r])
               => l <= FloorOf(Levels, h[r])[Len(kids)]
    PROVE  Suited(h, r, f, l)
<1>1. Operates(h, Levels, f, Top)
  BY CallHere, OperatesKept DEF Made
<1>2. kids # <<>> /\ kids[1] = Top.kids[1]
  <2>1. 1 \in DOMAIN Top.kids /\ Top.kids # <<>>
    BY <1>1, CallHere DEF Operates
  <2>2. CASE Top.pc \in AwaitsResult /\ kids = Got
    <3>1. Got[1] = Top.kids[1] /\ Len(Got) >= 1
      BY <2>1, <2>2, GotIs
    <3> QED BY <2>2, <3>1
  <2> QED BY <2>1, <2>2
<1>3. Binds(h, Levels, r)
  BY <1>1, <1>2 DEF Binds, Made, Operates
<1>4. Tight(h, Levels, r, f.prec)
  BY <1>1 DEF Tight, Made, Operates
<1>5. Settled(h, Levels, r, l)
  BY DEF Settled, EndsOpen, Made
<1> QED BY <1>3, <1>4, <1>5 DEF Suited

(* expr op expr, expr LIKE expr, expr IS [NOT] DISTINCT FROM expr and expr *)
(* AT TIME ZONE expr: the right side has just been parsed.                 *)
LEMMA BinaryMade ==
    ASSUME IInv, OrderInv, BindInv, errors = <<>>, stack # <<>>,
           NEW f, Operates(heap, Levels, f, Top),
           NEW kind \in {"Infix", "Like", "IsDistinctFrom", "AtTimeZone"},
           kind = "Infix" => Top.pc = "parseInfixExpression.Right",
           kind = "Like" => Top.pc = "parseLikeExpression.Pattern",
           kind = "IsDistinctFrom" => Top.pc = "parseDistinctFromExpression.Right",
           kind = "AtTimeZone" => Top.pc = "parseAtTimeZoneExpression.TimeZone",
           NEW h, NEW r, Made(h, r, kind, Top.at, Got)
    PROVE  Suited(h, r, f, Levels[pos + 1])
<1> DEFINE want == Wanted(Top.pc, Levels[Top.at])
<1>1. Top.pc \in WantPoints /\ Top.pc \in OneOperand /\ Top.pc \in AwaitsResult
  BY DEF WantPoints, OneOperand, AwaitsResult
<1>2. Tight(h, Levels, ret, want) /\ Levels[pos + 1] <= want
  BY <1>1, ResultSuits DEF Made
<1>3. Len(Got) = 2 /\ Got[2] = ret
  <2>1. Len(Top.kids) = 1
    BY <1>1 DEF Operates
  <2> QED BY <1>1, <2>1, GotIs
<1>4. DOMAIN FloorOf(Levels, h[r]) \cap {1, 2} = {2} /\ FloorOf(Levels, h[r])[2] = want
  BY FloorCases DEF Made, Wanted
<1>5. kind \in Operations
  BY DEF Operations
<1> HIDE DEF want
<1>6. /\ \A i \in DOMAIN FloorOf(Levels, h[r]) \cap DOMAIN Got :
            Tight(h, Levels, Got[i], FloorOf(Levels, h[r])[i])
      /\ Levels[pos + 1] <= FloorOf(Levels, h[r])[Len(Got)]
  BY <1>2, <1>3, <1>4
<1> QED BY <1>1, <1>5, <1>6, OperationMade

LEMMA BetweenMade ==
    ASSUME IInv, OrderInv, BindInv, errors = <<>>, stack # <<>>,
           NEW f, Operates(heap, Levels, f, Top), Top.pc = "parseBetweenExpression.High",
           NEW h, NEW r, Made(h, r, "Between", Top.at, Got)
    PROVE  Suited(h, r, f, Levels[pos + 1])
<1>1. Top.pc \in WantPoints /\ Top.pc \in AwaitsResult
      /\ Wanted(Top.pc, Levels[Top.at]) = BETWEEN_PREC
  BY DEF WantPoints, AwaitsResult, Wanted
<1>2. Tight(h, Levels, ret, BETWEEN_PREC) /\ Levels[pos + 1] <= BETWEEN_PREC
  BY <1>1, ResultSuits DEF Made
<1>3. Len(Top.kids) = 2 /\ Tight(h, Levels, Top.kids[2], AND_PREC)
  <2>1. Operates(h, Levels, f, Top)
    BY CallHere, OperatesKept DEF Made
  <2> QED BY <2>1 DEF Operates
<1>4. Len(Got) = 3 /\ Got[2] = Top.kids[2] /\ Got[3] = ret
  <2>1. 2 \in DOMAIN Top.kids
    BY <1>3, CallHere
  <2> QED BY <1>1, <1>3, <2>1, GotIs
<1>5. /\ DOMAIN FloorOf(Levels, h[r]) = {2, 3}
      /\ FloorOf(Levels, h[r])[2] = AND_PREC /\ FloorOf(Levels, h[r])[3] = BETWEEN_PREC
  BY FloorCases DEF Made
<1>6. "Between" \in Operations
  BY DEF Operations
<1>7. /\ \A i \in DOMAIN FloorOf(Levels, h[r]) \cap DOMAIN Got :
            Tight(h, Levels, Got[i], FloorOf(Levels, h[r])[i])
      /\ Levels[pos + 1] <= FloorOf(Levels, h[r])[Len(Got)]
  BY <1>2, <1>3, <1>4, <1>5
<1> QED BY <1>1, <1>6, <1>7, OperationMade

(* LIKE with its ESCAPE: the last operand takes every operator behind it.  *)
LEMMA EscapeMade ==
    ASSUME IInv, OrderInv, BindInv, errors = <<>>, stack # <<>>,
           NEW f, Operates(heap, Levels, f, Top), Top.pc = "parseLikeExpression.Escape",
           NEW h, NEW r, Made(h, r, "Like", Top.at, Got)
    PROVE  Suited(h, r, f, Levels[pos + 1])
<1>1. Top.pc \in WantPoints /\ Top.pc \in AwaitsResult
      /\ Wanted(Top.pc, Levels[Top.at]) = LOWEST
  BY DEF WantPoints, AwaitsResult, Wanted
<1>7. Tight(h, Levels, ret, LOWEST) /\ Levels[pos + 1] <= LOWEST
  BY <1>1, ResultSuits DEF Made
<1>2. Len(Top.kids) = 2 /\ Tight(h, Levels, Top.kids[2], COMPARE)
  <2>1. Operates(h, Levels, f, Top)
    BY CallHere, OperatesKept DEF Made
  <2> QED BY <2>1 DEF Operates
<1>3. Len(Got) = 3 /\ Got[2] = Top.kids[2] /\ Got[3] = ret
  <2>1. 2 \in DOMAIN Top.kids
    BY <1>2, CallHere
  <2> QED BY <1>1, <1>2, <2>1, GotIs
<1>4. /\ DOMAIN FloorOf(Levels, h[r]) = {2, 3}
      /\ FloorOf(Levels, h[r])[2] = COMPARE /\ FloorOf(Levels, h[r])[3] = LOWEST
  BY FloorCases DEF Made
<1>5. "Like" \in Operations
  BY DEF Operations
<1>6. /\ \A i \in DOMAIN FloorOf(Levels, h[r]) \cap DOMAIN Got :
            Tight(h, Levels, Got[i], FloorOf(Levels, h[r])[i])
      /\ Levels[pos + 1] <= FloorOf(Levels, h[r])[Len(Got)]
  BY <1>2, <1>3, <1>4, <1>7
<1> QED BY <1>1, <1>5, <1>6, OperationMade

(* The operations that end with a word or a parenthesis.                   *)
LEMMA ClosedMade ==
    ASSUME IInv, OrderInv, BindInv, errors = <<>>, stack # <<>>,
           NEW f, Operates(heap, Levels, f, Top), NEW kind \in {"In", "IsNull", "Collate"},
           NEW kids, Kept(kids), kids \in {Top.kids, Got, GotIfAny},
           NEW h, NEW r, Made(h, r, kind, Top.at, kids), NEW l
    PROVE  Suited(h, r, f, l)
<1>1. Top.kids # <<>> /\ Top.kids \in Seq(Nat)
  BY CallHere DEF Operates
<1>2. kids = Top.kids \/ (Top.pc \in AwaitsResult /\ kids = Got)
  BY <1>1, KeptOrGot
<1>3. DOMAIN FloorOf(Levels, h[r]) = {} /\ kind \in Operations
  <2>1. h[r].kind \notin {"Prefix", "Infix", "Like", "Between", "IsDistinctFrom", "AtTimeZone"}
    BY DEF Made
  <2> QED BY <2>1, FloorCases DEF Operations
<1> QED BY <1>2, <1>3, OperationMade

LEMMA NodeMade ==
    ASSUME IInv, OrderInv, BindInv, errors = <<>>, stack # <<>>,
           NEW kind \in Kinds, NEW at \in Nat, NEW kids \in Seq(Nat), NEW k \in Nat,
           Builds(kind, at, kids, k),
           NEW f, Top.pc \in OperationPoints => Operates(heap, Levels, f, Top),
           NEW h, NEW r, Made(h, r, kind, at, kids)
    PROVE  Suited(h, r, f, Levels[pos + k + 1])
<1>0. kind \in Operations => Operates(heap, Levels, f, Top) /\ at = Top.at
  BY DEF Builds
<1>1. CASE kind \notin Operations \cup {"Prefix"}
  BY <1>1, OtherMade
<1>2. CASE kind = "Prefix"
  <2>1. k = 0 /\ at = Top.at /\ kids = Got /\ Top.pc = "parsePrefixExpression.Right"
    BY <1>2 DEF Builds
  <2>2. pos + k + 1 = pos + 1
    BY <2>1, TypesHere
  <2> QED BY <1>2, <2>1, <2>2, PrefixMade
<1>3. CASE \/ kind \in {"Infix", "IsDistinctFrom", "AtTimeZone"}
           \/ kind = "Like" /\ Top.pc = "parseLikeExpression.Pattern"
  <2>1. kind \in Operations /\ k = 0
    BY <1>3 DEF Builds, Operations
  <2>2. /\ kind = "Infix" => kids = Got /\ Top.pc = "parseInfixExpression.Right"
        /\ kind = "IsDistinctFrom" => kids = Got /\ Top.pc = "parseDistinctFromExpression.Right"
        /\ kind = "AtTimeZone" => kids = Got /\ Top.pc = "parseAtTimeZoneExpression.TimeZone"
        /\ kind = "Like" => kids = Got /\ Top.pc = "parseLikeExpression.Pattern"
    BY <1>3 DEF Builds
  <2>3. pos + k + 1 = pos + 1
    BY <2>1, TypesHere
  <2>4. kids = Got /\ at = Top.at /\ Operates(heap, Levels, f, Top)
    BY <1>0, <1>3, <2>1, <2>2
  <2>5. Suited(h, r, f, Levels[pos + 1])
    BY <1>3, <2>2, <2>4, BinaryMade
  <2> QED BY <2>3, <2>5
<1>4. CASE kind = "Like" /\ Top.pc # "parseLikeExpression.Pattern"
  <2>1. /\ kind \in Operations /\ Top.pc = "parseLikeExpression.Escape"
        /\ kids \in {Got, GotIfAny} /\ k = 0
    BY <1>4 DEF Builds, Operations
  <2>2. kids = Got
    BY <2>1, AwaitedIsThere DEF AwaitsResult
  <2>3. pos + k + 1 = pos + 1
    BY <2>1, TypesHere
  <2> QED BY <1>0, <1>4, <2>1, <2>2, <2>3, EscapeMade
<1>5. CASE kind = "Between"
  <2>1. kind \in Operations /\ k = 0 /\ kids = Got /\ Top.pc = "parseBetweenExpression.High"
    BY <1>5 DEF Builds, Operations
  <2>2. pos + k + 1 = pos + 1
    BY <2>1, TypesHere
  <2> QED BY <1>0, <1>5, <2>1, <2>2, BetweenMade
<1>6. CASE kind \in {"In", "IsNull", "Collate"}
  <2>1. kind \in Operations /\ Kept(kids) /\ kids \in {Top.kids, Got, GotIfAny}
    BY <1>6 DEF Builds, Operations
  <2> QED BY <1>0, <1>6, <2>1, ClosedMade
<1> QED BY <1>1, <1>2, <1>3, <1>4, <1>5, <1>6 DEF Operations

LEMMA BuildBinds ==
    ASSUME IInv, OrderInv, BindInv, errors = <<>>, errors' = <<>>, stack # <<>>,
           NEW kind \in Kinds, NEW at \in Nat, NEW kids \in Seq(Nat),
           NEW hi \in Nat, NEW k \in Nat,
           BuildMove(kind, at, kids, hi, k)
    PROVE  BindInv'
<1> DEFINE node == Node(kind, at, kids, hi)
           r    == Len(heap) + 1
           f    == stack[Len(stack) - 1]
<1>1. /\ heap' = Append(heap, node) /\ ret' = r /\ pos' = pos + k /\ Pop /\ input' = input
      /\ Builds(kind, at, kids, k)
  BY DEF BuildMove, BuildTo
<1>2. node.kind = kind /\ node.at = at /\ node.kids = kids
  BY DEF Node
<1> HIDE DEF node
<1>3. /\ \A n \in DOMAIN heap : n \in DOMAIN heap' /\ heap'[n] = heap[n]
      /\ heap'[r] = node /\ r # NIL
  BY <1>1, TypesHere DEF Heaps, NIL
<1>4. Made(heap', r, kind, at, kids)
  BY <1>2, <1>3 DEF Made, Keeps
<1>5. Len(stack) > 1
  <2>1. Top.pc \notin Exprs
    BY <1>1 DEF Builds
  <2>2. Len(stack) # 1 /\ Len(stack) \in Nat \ {0}
    BY <2>1, CallHere
  <2>3. \A x \in Nat \ {0} : x # 1 => x > 1
    OBVIOUS
  <2> QED BY <2>2, <2>3
<1>6. Calls(heap, Levels, f, Top)
  BY <1>5, CallHere
<1> HIDE DEF f
<1>7. Suited(heap', r, f, Levels[pos + k + 1])
  <2>1. Top.pc \in OperationPoints => Operates(heap, Levels, f, Top)
    BY <1>6 DEF Calls
  <2> QED BY <1>1, <1>4, <2>1, NodeMade
<1>8. Keeps(heap, heap') /\ NodesBind'
  BY <1>1, <1>7, AppendedBinds DEF Suited
<1>9. Suits(heap', Levels, f, ret', Levels[pos' + 1])
  <2>1. f.pc \notin WantPoints
    BY <1>1, <1>6 DEF Calls, Builds
  <2> QED BY <1>1, <1>7, <2>1 DEF Suits, Suited
<1> QED BY <1>1, <1>8, <1>9, ReturnBinds DEF f

(* Nothing is left of the calls after a panic.                             *)
LEMMA PanicBinds ==
    ASSUME IInv, OrderInv, BindInv, errors = <<>>, PanicMove
    PROVE  BindInv'
<1>1. stack' = <<>> /\ UNCHANGED <<input, heap>>
  BY DEF PanicMove, Panic
<1>2. NodesBind'
  BY <1>1, SameNodesBind DEF BindInv
<1> QED BY <1>1, <1>2 DEF BindInv, CallsBind, Calling, ResultBinds

LEMMA SelectBinds ==
    ASSUME IInv, OrderInv, BindInv, errors = <<>>, SelectMove
    PROVE  BindInv'
<1>1. PICK k \in Nat : SelectPanics(k)
  BY DEF SelectMove
<1> DEFINE node == Node("Select", Top.at, <<NIL>>, pos + k)
<1>2. heap' = Append(heap, node) /\ input' = input /\ stack' = <<>>
  BY <1>1 DEF SelectPanics
<1>3. node.kind = "Select"
  BY DEF Node
<1> HIDE DEF node
<1>4. heap'[Len(heap) + 1] = node
  BY <1>2, TypesHere DEF Heaps
<1>5. DOMAIN FloorOf(Levels, node) = {} /\ "Select" \notin Operations
  BY <1>3, FloorCases DEF Operations
<1>6. Binds(heap', Levels, Len(heap) + 1)
  BY <1>3, <1>4, <1>5 DEF Binds
<1>7. NodesBind'
  BY <1>2, <1>6, AppendedBinds
<1> QED BY <1>2, <1>7 DEF BindInv, CallsBind, Calling, ResultBinds
-----------------------------------------------------------------------------
LEMMA InitBinds == Init => BindInv
<1> SUFFICES ASSUME Init PROVE BindInv
  OBVIOUS
<1> DEFINE f == Frame("parseExpression", LOWEST, 1, 1, <<>>)
<1>1. heap = <<>> /\ stack = <<f>>
  BY DEF Init, InitMachine
<1>2. f.pc = "parseExpression" /\ f.prec = LOWEST
  BY DEF Frame
<1> HIDE DEF f
<1>3. /\ DOMAIN stack = {1} /\ stack[1] = f /\ Top = f /\ stack # <<>>
  BY <1>1 DEF Top
<1>4. NodesBind
  BY <1>1 DEF NodesBind
<1>5. CallsBind
  BY <1>2, <1>3, LevelNumbers DEF CallsBind, Calling, Sound, Exprs
<1>6. ResultBinds
  BY <1>2, <1>3 DEF ResultBinds, Suits, WantPoints
<1> QED BY <1>4, <1>5, <1>6 DEF BindInv

LEMMA NextBinds == IInv /\ OrderInv /\ BindInv /\ [Next]_vars => BindInv'
<1> SUFFICES ASSUME IInv, OrderInv, BindInv, [Next]_vars PROVE BindInv'
  OBVIOUS
<1>1. CASE UNCHANGED vars
  BY <1>1, SameLevels DEF vars, BindInv, NodesBind, CallsBind, ResultBinds, Top
<1>2. CASE Move /\ errors' # <<>>
  BY <1>2 DEF BindInv
<1>3. CASE Move /\ errors' = <<>>
  <2>1. errors = <<>> /\ stack # <<>>
    BY <1>3, MoveForwards DEF Move
  <2>2. ASSUME NEW e \in Nat, NEW k \in Nat, Fail(e, k) PROVE FALSE
    <3>1. errors' = Append(errors, pos + e) /\ errors \in Seq(Nat)
      BY <2>2, TypesHere DEF Fail
    <3>2. Append(errors, pos + e) # <<>>
      BY <3>1
    <3> QED BY <1>3, <3>1, <3>2
  <2> QED BY <1>3, <2>1, <2>2, PanicBinds, SelectBinds, CallBinds, GoBinds, BuildBinds, InfixBinds, LeftBinds,
             ParenBinds, AtBinds, NotBinds, NameBinds DEF Move
<1> QED BY <1>1, <1>2, <1>3, NextMoves

LEMMA BindingIsThere == IInv /\ OrderInv /\ BindInv => OperatorsBind
<1> SUFFICES ASSUME IInv, OrderInv, BindInv, errors = <<>>, NEW n \in DOMAIN heap
             PROVE  /\ \A i \in DOMAIN Floor(heap[n]) \cap DOMAIN heap[n].kids :
                          OpenOperation(heap[n].kids[i])
                              => Precedence(Tok(heap[heap[n].kids[i]].at)) > Floor(heap[n])[i]
                    /\ heap[n].kind \in Operations /\ OpenEnd(heap[n].kids[1])
                              => Precedence(Tok(heap[n].at))
                                     <= Floor(heap[heap[n].kids[1]])[Len(heap[heap[n].kids[1]].kids)]
  BY DEF OperatorsBind
<1>1. Binds(heap, Levels, n) /\ Known(heap, heap[n].kids)
  BY OperandsKnown DEF BindInv, NodesBind
<1>2. \A m \in DOMAIN heap : /\ heap[m].at \in Nat
                             /\ FloorOf(Levels, heap[m]) = Floor(heap[m])
                             /\ Levels[heap[m].at] = Precedence(Tok(heap[m].at))
  <2> SUFFICES ASSUME NEW m \in DOMAIN heap
               PROVE  /\ heap[m].at \in Nat
                      /\ FloorOf(Levels, heap[m]) = Floor(heap[m])
                      /\ Levels[heap[m].at] = Precedence(Tok(heap[m].at))
    OBVIOUS
  <2>1. heap[m] \in Nodes(Kinds)
    BY TypesHere DEF Heaps
  <2>2. heap[m].at \in Nat
    BY <2>1 DEF Nodes
  <2> QED BY <2>2, FloorSame DEF Levels
<1>3. ASSUME NEW i \in DOMAIN Floor(heap[n]) \cap DOMAIN heap[n].kids,
             OpenOperation(heap[n].kids[i])
      PROVE  Precedence(Tok(heap[heap[n].kids[i]].at)) > Floor(heap[n])[i]
  <2>1. heap[n].kids[i] \in DOMAIN heap /\ IsOpen(heap, heap[n].kids[i])
    BY <1>1, <1>3 DEF Known, OpenOperation, IsOpen
  <2>2. Tight(heap, Levels, heap[n].kids[i], Floor(heap[n])[i])
    BY <1>1, <1>2 DEF Binds
  <2> QED BY <1>2, <2>1, <2>2 DEF Tight
<1>4. ASSUME heap[n].kind \in Operations, OpenEnd(heap[n].kids[1])
      PROVE  Precedence(Tok(heap[n].at))
                 <= Floor(heap[heap[n].kids[1]])[Len(heap[heap[n].kids[1]].kids)]
  <2> DEFINE v == heap[n].kids[1]
  <2>1. /\ heap[n].kids # <<>> /\ Levels[heap[n].at] <= CALL
        /\ Settled(heap, Levels, v, Levels[heap[n].at])
    BY <1>1, <1>4 DEF Binds
  <2>2. v \in DOMAIN heap
    <3>1. 1 \in DOMAIN heap[n].kids
      BY <2>1, TypesHere, NodeType
    <3> QED BY <1>1, <1>4, <3>1 DEF Known, OpenEnd
  <2>3. EndsOpen(heap, Levels, v)
    BY <1>2, <1>4, <2>2 DEF EndsOpen, OpenEnd
  <2>4. Levels[heap[n].at] # INDEX
    BY <2>1, LevelNumbers
  <2>5. Levels[heap[n].at] <= FloorOf(Levels, heap[v])[Len(heap[v].kids)]
    BY <2>1, <2>3, <2>4 DEF Settled
  <2> QED BY <1>2, <2>2, <2>5
<1> QED BY <1>3, <1>4

(* In a tree parsed without an error every operand that is an operation    *)
(* binds tighter than its operator asks for, and the last operand of a left *)
(* operand does not go on with the operator: parseExpression and the       *)
(* functions it calls group by precedence, and from left to right.  What   *)
(* LIKE asks for behind ESCAPE is LOWEST (parser.go:1107), so an AND there *)
(* comes under the LIKE.                                                   *)
THEOREM OperatorsGroup == Spec => []OperatorsBind
BY InitIInv, NextIInv, InitOrder, NextOrder, InitBinds, NextBinds, BindingIsThere, PTL DEF Spec
=============================================================================
