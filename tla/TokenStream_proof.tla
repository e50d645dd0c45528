-------------------------- MODULE TokenStream_proof --------------------------
(***************************************************************************)
(* Proofs about TokenStream, for every set of sources, of expected types   *)
(* and every error bound.                                                  *)
(***************************************************************************)
EXTENDS TokenStream, WellFoundedInduction, TLAPS

(* The window at every moment, New's first calls included: the fields that *)
(* New has not filled yet hold the zero token.                             *)
Filling ==
    /\ filled = 0 => /\ <<curToken, peekToken, peekPeekToken>> = <<0, 0, 0>>
                     /\ next = 1
    /\ filled > 0 => /\ peekPeekToken \in 1..EOFAt
                     /\ TypeAt(peekPeekToken) # "COMMENT"
                     /\ next = After(peekPeekToken)
    /\ filled = 1 => curToken = 0 /\ peekToken = 0 /\ Consecutive(0, peekPeekToken)
    /\ filled = 2 => /\ curToken = 0
                     /\ Consecutive(0, peekToken)
                     /\ Consecutive(peekToken, peekPeekToken)
    /\ filled = 3 => /\ Consecutive(curToken, peekToken)
                     /\ Consecutive(peekToken, peekPeekToken)
                     /\ TypeAt(curToken) # "COMMENT" /\ curToken > 0

IInv == TypeOK /\ Filling

(* Every non-empty set of naturals has a least element.                    *)
LEMMA LeastNatural ==
    ASSUME NEW T, T \subseteq Nat, T # {}
    PROVE  \E m \in T : \A n \in T : m <= n
<1> DEFINE R == OpToRel(<, Nat)
<1>1. \E m \in T : \A n \in T : <<n, m>> \notin R
  <2>1. IsWellFoundedOn(R, Nat)
    BY NatLessThanWellFounded
  <2> HIDE DEF R
  <2> QED BY <2>1, WFMin
<1>2. ASSUME NEW m \in T, NEW n \in T, n < m
      PROVE  <<n, m>> \in R
  <2>1. <<n, m>> \in Nat \X Nat /\ <<n, m>>[1] < <<n, m>>[2]
    BY <1>2
  <2> QED BY <2>1 DEF OpToRel
<1> HIDE DEF R
<1>3. PICK m \in T : \A n \in T : <<n, m>> \notin R
  BY <1>1
<1>4. ASSUME NEW n \in T PROVE m <= n
  <2>1. ~ (n < m)
    BY <1>2, <1>3
  <2> QED BY <2>1
<1> QED BY <1>4

(* The loop of nextToken ends at a token that is no comment: EOF at the    *)
(* latest.                                                                 *)
LEMMA SkipCommentsStops ==
    ASSUME TypeOK, NEW i \in 1..EOFAt
    PROVE  /\ SkipComments(i) \in i..EOFAt
           /\ TypeAt(SkipComments(i)) # "COMMENT"
           /\ \A k \in i..(SkipComments(i) - 1) : TypeAt(k) = "COMMENT"
<1> DEFINE P(j) == /\ TypeAt(j) # "COMMENT"
                   /\ \A k \in i..(j - 1) : TypeAt(k) = "COMMENT"
           Code == {j \in i..EOFAt : TypeAt(j) # "COMMENT"}
<1>1. EOFAt \in Code
  BY DEF TypeAt, TypeOK, EOFAt
<1>2. PICK m \in Code : \A n \in Code : m <= n
  <2>1. Code \subseteq Nat /\ Code # {}
    BY <1>1 DEF TypeOK, EOFAt
  <2> HIDE DEF Code
  <2> QED BY <2>1, LeastNatural
<1>3. P(m)
  BY <1>2 DEF TypeOK, EOFAt
<1>4. \E j \in i..EOFAt : P(j)
  BY <1>2, <1>3
<1> HIDE DEF P
<1>5. SkipComments(i) = CHOOSE j \in i..EOFAt : P(j)
  BY DEF SkipComments, P
<1>6. SkipComments(i) \in i..EOFAt /\ P(SkipComments(i))
  BY <1>4, <1>5
<1> QED BY <1>6 DEF P

LEMMA InitIInv == Init => IInv
BY RawsAssumption DEF Init, IInv, TypeOK, Filling, EOFAt

(* One nextToken shifts the window by one code token.                      *)
LEMMA WindowShifts ==
    ASSUME IInv, nextToken, UNCHANGED raw
    PROVE  /\ curToken' = peekToken /\ peekToken' = peekPeekToken
           /\ peekPeekToken' \in next..EOFAt
           /\ next' = After(peekPeekToken')
           /\ next' \in 1..EOFAt
           /\ TypeAt(peekPeekToken') # "COMMENT"
           /\ filled > 0 => Consecutive(peekPeekToken, peekPeekToken')
           /\ filled = 0 => Consecutive(0, peekPeekToken')
<1> DEFINE s == SkipComments(next)
<1>1. /\ s \in next..EOFAt
      /\ TypeAt(s) # "COMMENT"
      /\ \A k \in next..(s - 1) : TypeAt(k) = "COMMENT"
  BY SkipCommentsStops DEF IInv, TypeOK
<1>2. peekPeekToken' = s /\ next' = After(s)
  BY DEF nextToken
<1> HIDE DEF s
<1>3. After(s) \in 1..EOFAt
  BY <1>1 DEF IInv, TypeOK, After, EOFAt
<1>4. ASSUME filled > 0 PROVE Consecutive(peekPeekToken, s)
  BY <1>1, <1>4 DEF IInv, TypeOK, Filling, Consecutive, After, EOFAt
<1>5. ASSUME filled = 0 PROVE Consecutive(0, s)
  BY <1>1, <1>5 DEF IInv, TypeOK, Filling, Consecutive, EOFAt
<1> QED BY <1>1, <1>2, <1>3, <1>4, <1>5 DEF nextToken

LEMMA NextIInv == IInv /\ [Next]_vars => IInv'
<1> SUFFICES ASSUME IInv, [Next]_vars PROVE IInv'
  OBVIOUS
<1>1. CASE New
  <2>1. nextToken /\ UNCHANGED <<raw, errors>> /\ filled' = filled + 1 /\ filled < 3
    BY <1>1 DEF New
  <2>2. TypeOK'
    BY <2>1, WindowShifts DEF IInv, TypeOK, EOFAt
  <2>3. Filling'
    BY <2>1, WindowShifts
    DEF IInv, TypeOK, Filling, EOFAt, TypeAt, After, Consecutive
  <2> QED BY <2>2, <2>3 DEF IInv
<1>2. ASSUME filled = 3, nextToken, UNCHANGED <<raw, filled>>,
             errors' \in Seq(0..EOFAt)
      PROVE  IInv'
  <2>1. TypeOK'
    BY <1>2, WindowShifts DEF IInv, TypeOK, EOFAt
  <2>2. Filling'
    BY <1>2, WindowShifts
    DEF IInv, TypeOK, Filling, EOFAt, TypeAt, After, Consecutive
  <2> QED BY <2>1, <2>2 DEF IInv
<1>3. CASE Advance
  BY <1>2, <1>3 DEF Advance, IInv, TypeOK
<1>4. ASSUME NEW t \in Expected, expectPeek(t) PROVE IInv'
  <2>1. CASE TypeAt(peekToken) = t /\ nextToken /\ UNCHANGED errors
    BY <1>2, <1>4, <2>1 DEF expectPeek, IInv, TypeOK
  <2>2. CASE /\ errors' = Append(errors, peekToken)
             /\ UNCHANGED <<next, curToken, peekToken, peekPeekToken>>
    BY <1>4, <2>2
    DEF expectPeek, IInv, TypeOK, Filling, EOFAt, TypeAt, After, Consecutive
  <2> QED BY <1>4, <2>1, <2>2 DEF expectPeek
<1>5. ASSUME NEW token \in {curToken, peekToken}, RecordError(token) PROVE IInv'
  BY <1>5 DEF RecordError, IInv, TypeOK, Filling, EOFAt, TypeAt, After, Consecutive
<1>6. CASE UNCHANGED vars
  BY <1>6 DEF vars, IInv, TypeOK, Filling, EOFAt, TypeAt, After, Consecutive
<1> QED BY <1>1, <1>3, <1>4, <1>5, <1>6 DEF Next, noPrefixParseFnError, MissingComma

THEOREM TypeCorrect == Spec => []TypeOK
BY InitIInv, NextIInv, PTL DEF Spec, IInv

(* The parse functions see every code token of the source, in order and    *)
(* none twice, and no comment: whatever the source is.                     *)
THEOREM WindowCorrect == Spec => []WindowIsConsecutive
<1>1. IInv => WindowIsConsecutive
  BY DEF IInv, Filling, WindowIsConsecutive
<1> QED BY <1>1, InitIInv, NextIInv, PTL DEF Spec

(* What the parser has reported lies behind it, is its current token, or   *)
(* is the token right after that.                                          *)
Reported == \A i \in DOMAIN errors : errors[i] <= curToken \/ errors[i] = peekToken

LEMMA ReportedStays == IInv /\ Reported /\ [Next]_vars => Reported'
<1> SUFFICES ASSUME IInv, Reported, [Next]_vars PROVE Reported'
  OBVIOUS
<1>0. errors \in Seq(Nat) /\ curToken \in Nat /\ peekToken \in Nat
  BY DEF IInv, TypeOK, EOFAt
<1>1. ASSUME nextToken, UNCHANGED errors PROVE Reported'
  <2>1. curToken <= peekToken
    BY <1>1 DEF IInv, TypeOK, Filling, Consecutive, EOFAt
  <2>2. curToken' = peekToken
    BY <1>1 DEF nextToken
  <2> QED BY <1>0, <1>1, <2>1, <2>2 DEF Reported
<1>2. ASSUME NEW token \in {curToken, peekToken}, errors' = Append(errors, token),
             UNCHANGED <<curToken, peekToken>>
      PROVE  Reported'
  BY <1>0, <1>2 DEF Reported
<1>3. ASSUME NEW t \in Expected, expectPeek(t) PROVE Reported'
  BY <1>1, <1>2, <1>3 DEF expectPeek
<1>4. CASE noPrefixParseFnError \/ MissingComma
  BY <1>2, <1>4 DEF noPrefixParseFnError, MissingComma, RecordError
<1>5. CASE UNCHANGED vars
  BY <1>5 DEF vars, Reported
<1> QED BY <1>1, <1>3, <1>4, <1>5 DEF Next, New, Advance

(* An error is about the current token or the next one when it is          *)
(* recorded, and comes after all errors recorded before it, except that an *)
(* error about the current token may follow one about the very next token. *)
THEOREM ErrorsCorrect == Spec => ErrorsInOrder
<1> DEFINE InOrder ==
      errors' # errors =>
        LET e == errors'[Len(errors')]
        IN  /\ e \in {curToken, peekToken}
            /\ \A i \in DOMAIN errors : errors[i] <= e \/ Consecutive(e, errors[i])
<1>1. Init => Reported
  BY DEF Init, Reported
<1>2. IInv /\ Reported /\ [Next]_vars => InOrder
  <2> SUFFICES ASSUME IInv, Reported, Next, errors' # errors
               PROVE  LET e == errors'[Len(errors')]
                      IN  /\ e \in {curToken, peekToken}
                          /\ \A i \in DOMAIN errors :
                                errors[i] <= e \/ Consecutive(e, errors[i])
    BY DEF vars
  <2>1. errors \in Seq(Nat) /\ curToken \in Nat /\ peekToken \in Nat
    BY DEF IInv, TypeOK, EOFAt
  <2>2. PICK token \in {curToken, peekToken} : filled = 3 /\ errors' = Append(errors, token)
    BY DEF Next, New, Advance, expectPeek, noPrefixParseFnError, MissingComma, RecordError
  <2>3. errors'[Len(errors')] = token
    BY <2>1, <2>2
  <2>4. Consecutive(curToken, peekToken) /\ curToken <= peekToken
    BY <2>2 DEF IInv, TypeOK, Filling, Consecutive, EOFAt
  <2> QED BY <2>1, <2>2, <2>3, <2>4 DEF Reported
<1>3. [][IInv /\ Reported /\ [Next]_vars]_vars => [][InOrder]_vars
  BY <1>2, PTL
<1> QED BY <1>1, <1>2, InitIInv, NextIInv, ReportedStays, PTL DEF Spec, ErrorsInOrder

(* TokenStream keeps the promise of TokenCursor: each move of the window   *)
(* takes curToken to the code token that follows it, or stutters while New *)
(* fills the lookahead.                                                    *)
THEOREM CursorCorrect == Spec => ImplementsCursor
<1>1. Init => Cursor!Init
  BY DEF Init, Cursor!Init
<1>2. IInv /\ [Next]_vars => [Cursor!Advance]_<<raw, curToken>>
  <2> SUFFICES ASSUME IInv, [Next]_vars
               PROVE  Cursor!Advance \/ UNCHANGED <<raw, curToken>>
    OBVIOUS
  <2>1. CASE UNCHANGED <<raw, curToken>>
    BY <2>1
  <2>2. ASSUME nextToken, UNCHANGED raw, filled >= 2
        PROVE  Cursor!Advance
    <3>1. Consecutive(curToken, peekToken)
      BY <2>2 DEF IInv, TypeOK, Filling
    <3>2. Cursor!Follows(peekToken, curToken) /\ peekToken \in 1..EOFAt
      BY <3>1 DEF Cursor!Follows, Cursor!IsCode, Cursor!EOFAt, IInv, TypeOK,
                  Consecutive, EOFAt, TypeAt
    <3> QED BY <2>2, <3>2 DEF nextToken, Cursor!Advance, Cursor!EOFAt, EOFAt
  <2>3. ASSUME nextToken, UNCHANGED raw, filled < 2
        PROVE  UNCHANGED <<raw, curToken>>
    BY <2>3 DEF nextToken, IInv, TypeOK, Filling
  <2>4. CASE Next
    BY <2>2, <2>3, <2>4 DEF Next, New, Advance, expectPeek, noPrefixParseFnError,
                            MissingComma, RecordError, IInv, TypeOK
  <2> QED BY <2>1, <2>4 DEF vars
<1> QED BY <1>1, <1>2, InitIInv, NextIInv, PTL DEF Spec, ImplementsCursor, Cursor!Spec
=============================================================================
