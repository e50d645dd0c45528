----------------------------- MODULE Lexer_proof -----------------------------
(***************************************************************************)
(* Proofs about Lexer, for every set of characters and of texts.           *)
(***************************************************************************)
EXTENDS Lexer, FiniteSetTheorems, WellFoundedInduction, TLAPS

(* The place of a character, and the cursor on it, counted from the        *)
(* beginning of the text: the characters in front of it decide.  On a line *)
(* break the cursor already is on the next line, in column 0.              *)
NewlinesTo(j) == {m \in 1..j : Ch(m) = "\n"}
LastOf(places) == IF places = {} THEN 0 ELSE CHOOSE m \in places : \A o \in places : o <= m
PlaceOf(i) == [line   |-> 1 + Cardinality(NewlinesTo(i - 1)),
               column |-> i - LastOf(NewlinesTo(i - 1))]
CursorAt(j) == [position |-> j,
                line     |-> 1 + Cardinality(NewlinesTo(j)),
                column   |-> j - LastOf(NewlinesTo(j))]

Tokens == [type : Types, from : Nat \ {0}, to : Nat, line : Nat \ {0}, column : Nat]

(* The same, of a text that is named: x is the text, s the tokens, p the    *)
(* position of the cursor.                                                 *)
CharIn(x, i) == IF i \in DOMAIN x THEN x[i] ELSE NUL
NewlinesIn(x, j) == {m \in 1..j : CharIn(x, m) = "\n"}
PlaceIn(x, i) == [line   |-> 1 + Cardinality(NewlinesIn(x, i - 1)),
                  column |-> i - LastOf(NewlinesIn(x, i - 1))]
CursorIn(x, j) == [position |-> j,
                   line     |-> 1 + Cardinality(NewlinesIn(x, j)),
                   column   |-> j - LastOf(NewlinesIn(x, j))]
Covers(token, i) == token.from <= i /\ i <= token.to
Covered(x, s, p) ==
    \A i \in DOMAIN x :
        i < p /\ CharIn(x, i) \notin Blanks \cup {NUL} =>
            \E t \in DOMAIN s : \A u \in DOMAIN s : Covers(s[u], i) <=> u = t
Placed(x, s) ==
    \A t \in DOMAIN s :
        LET known == PlaceIn(x, IF s[t].type \in DoubleTypes THEN s[t].to ELSE s[t].from) IN
        s[t].line = known.line /\ s[t].column = known.column
Ended(s) == s # <<>> /\ s[Len(s)].type = "EOF"

Cursors == [position : Nat \ {0}, line : Nat \ {0}, column : Nat]

(* The cursor never carries anything over from the way it has come: line   *)
(* and column are those of its position, until readChar at the end of the  *)
(* text moves the column alone.  Everything returned ends in front of it,  *)
(* and so what is read next is nobody's yet.                               *)
LexInv ==
    /\ text \in Seq(Characters)
    /\ cursor \in Cursors
    /\ cursor.position <= Len(text) + 1
    /\ ~ Ended(tokens) => cursor = CursorIn(text, cursor.position)
    /\ tokens \in Seq(Tokens)
    /\ \A t \in DOMAIN tokens : tokens[t].to < cursor.position
    /\ errors \in Seq(Places)
    /\ Covered(text, tokens, cursor.position)
    /\ Placed(text, tokens)

LEMMA InThisText ==
    /\ \A i : Ch(i) = CharIn(text, i)
    /\ \A j : PlaceOf(j) = PlaceIn(text, j)
    /\ \A j : CursorAt(j) = CursorIn(text, j)
    /\ Finished <=> Ended(tokens)
<1>1. \A i : Ch(i) = CharIn(text, i)
  BY DEF Ch, CharIn
<1>2. \A j : NewlinesTo(j) = NewlinesIn(text, j)
  BY <1>1 DEF NewlinesTo, NewlinesIn
<1> QED BY <1>1, <1>2 DEF PlaceOf, PlaceIn, CursorAt, CursorIn, Finished, Ended
-----------------------------------------------------------------------------
(* Characters and the loops over them.                                     *)

(* Every non-empty set of naturals has a least element.                    *)
LEMMA LeastNatural ==
    ASSUME NEW T, T \subseteq Nat, T # {}
    PROVE  \E m \in T : \A n \in T : m <= n
<1> DEFINE R == OpToRel(<, Nat)
<1>1. PICK m \in T : \A n \in T : <<n, m>> \notin R
  <2>1. IsWellFoundedOn(R, Nat)
    BY NatLessThanWellFounded
  <2> HIDE DEF R
  <2> QED BY <2>1, WFMin
<1>2. ASSUME NEW n \in T PROVE m <= n
  <2>1. n \in Nat /\ m \in Nat /\ <<n, m>> \in Nat \X Nat
    OBVIOUS
  <2>2. ~ (<<n, m>>[1] < <<n, m>>[2])
    BY <1>1, <2>1 DEF OpToRel
  <2> QED BY <2>1, <2>2
<1> QED BY <1>2

(* Every non-empty set of naturals with a bound has a greatest element.    *)
LEMMA GreatestNatural ==
    ASSUME NEW j \in Nat, NEW T, T \subseteq 0..j, T # {}
    PROVE  \E m \in T : \A n \in T : n <= m
<1> DEFINE U == {j - n : n \in T}
<1>1. PICK u \in U : \A v \in U : u <= v
  <2>1. \A n \in T : j - n \in Nat
    OBVIOUS
  <2>2. U \subseteq Nat
    BY <2>1
  <2>3. PICK n \in T : TRUE
    OBVIOUS
  <2>4. j - n \in U
    BY <2>3
  <2>5. U # {}
    BY <2>4
  <2> HIDE DEF U
  <2> QED BY <2>2, <2>5, LeastNatural
<1>2. PICK m \in T : u = j - m
  BY <1>1
<1>3. \A n \in T : j - m <= j - n
  BY <1>1, <1>2
<1>4. \A n \in T : n <= m
  BY <1>3
<1> QED BY <1>4

(* A character that is not NUL stands in the text.                         *)
LEMMA InText ==
    ASSUME text \in Seq(Characters), NEW i, Ch(i) # NUL
    PROVE  i \in 1..Len(text)
BY DEF Ch

LEMMA BehindText ==
    ASSUME text \in Seq(Characters), NEW i \in Nat, i > Len(text)
    PROVE  Ch(i) = NUL
BY DEF Ch

(* FirstOf is the least of the places.                                     *)
LEMMA FirstOfIs ==
    ASSUME NEW S, S \subseteq Nat, S # {}
    PROVE  /\ FirstOf(S) \in S
           /\ \A m \in S : FirstOf(S) <= m
BY LeastNatural DEF FirstOf

(* Where a loop over `chars` stops: at the first other character.          *)
LEMMA BehindIs ==
    ASSUME text \in Seq(Characters), NEW chars, NUL \notin chars,
           NEW i \in Nat \ {0}, i <= Len(text) + 1
    PROVE  /\ Behind(i, chars) \in i..(Len(text) + 1)
           /\ \A j \in i..(Behind(i, chars) - 1) : Ch(j) \in chars
           /\ Ch(Behind(i, chars)) \notin chars
<1> DEFINE S == {j \in i..(Len(text) + 2) : Ch(j) \notin chars}
<1>1. Len(text) \in Nat
  OBVIOUS
<1>2. Len(text) + 1 \in S
  BY <1>1, BehindText
<1>3. S \subseteq Nat /\ S # {}
  BY <1>1, <1>2
<1>4. /\ FirstOf(S) \in S
      /\ \A m \in S : FirstOf(S) <= m
  <2> HIDE DEF S
  <2> QED BY <1>3, FirstOfIs
<1>5. Behind(i, chars) = FirstOf(S)
  BY DEF Behind
<1>6. FirstOf(S) <= Len(text) + 1
  BY <1>2, <1>4
<1>7. \A j \in i..(FirstOf(S) - 1) : j \notin S
  <2> SUFFICES ASSUME NEW j \in i..(FirstOf(S) - 1), j \in S PROVE FALSE
    OBVIOUS
  <2>1. j \in Nat /\ FirstOf(S) \in Nat /\ j < FirstOf(S)
    BY <1>3, <1>4
  <2> HIDE DEF S
  <2> QED BY <2>1, <1>4
<1>8. \A j \in i..(FirstOf(S) - 1) : Ch(j) \in chars
  BY <1>1, <1>4, <1>6, <1>7
<1> QED BY <1>1, <1>4, <1>5, <1>6, <1>8

(* Where a search for `chars` stops: at the end of the text at the latest. *)
LEMMA AheadIs ==
    ASSUME text \in Seq(Characters), NEW chars,
           NEW i \in Nat \ {0}, i <= Len(text) + 1
    PROVE  /\ Ahead(i, chars) \in i..(Len(text) + 1)
           /\ \A j \in i..(Ahead(i, chars) - 1) : Ch(j) \notin chars \cup {NUL}
           /\ Ch(Ahead(i, chars)) \in chars \cup {NUL}
<1> DEFINE S == {j \in i..(Len(text) + 2) : Ch(j) \in chars \cup {NUL}}
<1>1. Len(text) \in Nat
  OBVIOUS
<1>2. Len(text) + 1 \in S
  BY <1>1, BehindText
<1>3. S \subseteq Nat /\ S # {}
  BY <1>1, <1>2
<1>4. /\ FirstOf(S) \in S
      /\ \A m \in S : FirstOf(S) <= m
  <2> HIDE DEF S
  <2> QED BY <1>3, FirstOfIs
<1>5. Ahead(i, chars) = FirstOf(S)
  BY DEF Ahead
<1>6. FirstOf(S) <= Len(text) + 1
  BY <1>2, <1>4
<1>7. \A j \in i..(FirstOf(S) - 1) : j \notin S
  <2> SUFFICES ASSUME NEW j \in i..(FirstOf(S) - 1), j \in S PROVE FALSE
    OBVIOUS
  <2>1. j \in Nat /\ FirstOf(S) \in Nat /\ j < FirstOf(S)
    BY <1>3, <1>4
  <2> HIDE DEF S
  <2> QED BY <2>1, <1>4
<1>8. \A j \in i..(FirstOf(S) - 1) : Ch(j) \notin chars \cup {NUL}
  BY <1>1, <1>4, <1>6, <1>7
<1> QED BY <1>1, <1>4, <1>5, <1>6, <1>8

(* White space is passed over and nothing else.                            *)
LEMMA SkipIs ==
    ASSUME text \in Seq(Characters),
           NEW i \in Nat \ {0}, i <= Len(text) + 1
    PROVE  /\ skipWhitespace(i) \in i..(Len(text) + 1)
           /\ \A j \in i..(skipWhitespace(i) - 1) : Ch(j) \in Blanks
           /\ Ch(skipWhitespace(i)) \notin Blanks
<1>1. NUL \notin Blanks
  BY Zenon DEF NUL, Blanks
<1> QED BY <1>1, BehindIs DEF skipWhitespace

LEMMA IdentifierIs ==
    ASSUME text \in Seq(Characters),
           NEW i \in Nat \ {0}, i <= Len(text) + 1
    PROVE  /\ readIdentifier(i) \in i..(Len(text) + 1)
           /\ Ch(i) \in Letters \cup {"#"} => readIdentifier(i) > i
<1>1. NUL \notin Letters \cup Digits \cup {"#", "$"}
  BY DEF NUL, Letters, Keywords, Digits
<1>2. /\ readIdentifier(i) \in i..(Len(text) + 1)
      /\ Ch(readIdentifier(i)) \notin Letters \cup Digits \cup {"#", "$"}
  BY <1>1, BehindIs DEF readIdentifier
<1>3. Ch(i) \in Letters \cup {"#"} => readIdentifier(i) # i
  BY <1>2
<1> QED BY <1>2, <1>3

(* How far numbers go.                                                     *)
LEMMA DigitsAre ==
    ASSUME text \in Seq(Characters),
           NEW i \in Nat \ {0}, i <= Len(text) + 1
    PROVE  /\ Behind(i, Digits) \in i..(Len(text) + 1)
           /\ Ch(i) \in Digits => Behind(i, Digits) > i
           /\ Behind(i, HexDigits) \in i..(Len(text) + 1)
           /\ Behind(i, MoneyDigits) \in i..(Len(text) + 1)
<1>1. NUL \notin Digits /\ NUL \notin HexDigits /\ NUL \notin MoneyDigits
  BY Zenon DEF NUL, Digits, HexDigits, MoneyDigits
<1>2. /\ Behind(i, Digits) \in i..(Len(text) + 1)
      /\ Ch(Behind(i, Digits)) \notin Digits
  BY <1>1, BehindIs
<1>3. Ch(i) \in Digits => Behind(i, Digits) # i
  BY <1>2
<1>4. /\ Behind(i, HexDigits) \in i..(Len(text) + 1)
      /\ Behind(i, MoneyDigits) \in i..(Len(text) + 1)
  BY <1>1, BehindIs
<1>5. Len(text) \in Nat
  OBVIOUS
<1>6. Ch(i) \in Digits => Behind(i, Digits) > i
  BY <1>2, <1>3, <1>5
<1> QED BY <1>2, <1>4, <1>6

LEMMA ExponentIs ==
    ASSUME text \in Seq(Characters),
           NEW i \in Nat \ {0}, i <= Len(text) + 1
    PROVE  Exponent(i) \in i..(Len(text) + 1)
<1>1. CASE Ch(i) # "e"
  BY <1>1 DEF Exponent
<1>2. CASE Ch(i) = "e" /\ Ch(i + 1) \in {"+", "-"}
  <2>1. i + 1 <= Len(text)
    BY <1>2, InText DEF NUL
  <2>2. i + 2 \in Nat \ {0} /\ i + 2 <= Len(text) + 1
    BY <2>1
  <2>3. Behind(i + 2, Digits) \in (i + 2)..(Len(text) + 1)
    BY <2>2, DigitsAre
  <2> QED BY <1>2, <2>3 DEF Exponent
<1>3. CASE Ch(i) = "e" /\ Ch(i + 1) \notin {"+", "-"}
  <2>1. i <= Len(text)
    BY <1>3, InText DEF NUL
  <2>2. i + 1 \in Nat \ {0} /\ i + 1 <= Len(text) + 1
    BY <2>1
  <2>3. Behind(i + 1, Digits) \in (i + 1)..(Len(text) + 1)
    BY <2>2, DigitsAre
  <2> QED BY <1>3, <2>3 DEF Exponent
<1> QED BY <1>1, <1>2, <1>3

LEMMA FractionIs ==
    ASSUME text \in Seq(Characters),
           NEW i \in Nat \ {0}, i <= Len(text) + 1
    PROVE  Fraction(i) \in i..(Len(text) + 1)
<1>1. CASE Ch(i) = "." /\ Ch(i + 1) \in Digits
  <2>1. i <= Len(text)
    BY <1>1, InText DEF NUL
  <2>2. i + 1 \in Nat \ {0} /\ i + 1 <= Len(text) + 1
    BY <2>1
  <2>3. Behind(i + 1, Digits) \in (i + 1)..(Len(text) + 1)
    BY <2>2, DigitsAre
  <2> QED BY <1>1, <2>3 DEF Fraction
<1>2. CASE ~ (Ch(i) = "." /\ Ch(i + 1) \in Digits)
  BY <1>2 DEF Fraction
<1> QED BY <1>1, <1>2
-----------------------------------------------------------------------------
(* The cursor.                                                             *)

(* The greatest place is the only one that is greatest.                    *)
LEMMA LastOfIs ==
    ASSUME NEW j \in Nat, NEW S, S \subseteq 0..j
    PROVE  /\ LastOf(S) \in 0..j
           /\ S = {} => LastOf(S) = 0
           /\ S # {} => LastOf(S) \in S /\ \A o \in S : o <= LastOf(S)
<1>1. CASE S = {}
  BY <1>1 DEF LastOf
<1>2. CASE S # {}
  <2>1. \E m \in S : \A o \in S : o <= m
    BY <1>2, GreatestNatural
  <2>2. LastOf(S) = CHOOSE m \in S : \A o \in S : o <= m
    BY <1>2 DEF LastOf
  <2>3. LastOf(S) \in S /\ \A o \in S : o <= LastOf(S)
    BY <2>1, <2>2
  <2> QED BY <1>2, <2>3
<1> QED BY <1>1, <1>2

LEMMA NewlinesAre ==
    ASSUME NEW j \in Nat
    PROVE  /\ NewlinesTo(j) \subseteq 0..j
           /\ IsFiniteSet(NewlinesTo(j))
           /\ Cardinality(NewlinesTo(j)) \in Nat
<1>1. NewlinesTo(j) \subseteq 1..j
  BY DEF NewlinesTo
<1>2. IsFiniteSet(1..j)
  BY FS_Interval
<1>3. IsFiniteSet(NewlinesTo(j))
  BY <1>1, <1>2, FS_Subset
<1> QED BY <1>1, <1>3, FS_CardinalityType

LEMMA CursorIs ==
    ASSUME NEW j \in Nat
    PROVE  /\ CursorAt(j).position = j
           /\ CursorAt(j) \in [position : Nat, line : Nat \ {0}, column : Nat]
<1>1. Cardinality(NewlinesTo(j)) \in Nat /\ LastOf(NewlinesTo(j)) \in 0..j
  BY NewlinesAre, LastOfIs
<1>2. 1 + Cardinality(NewlinesTo(j)) \in Nat \ {0} /\ j - LastOf(NewlinesTo(j)) \in Nat
  BY <1>1
<1> QED BY <1>2 DEF CursorAt

LEMMA PlaceIs ==
    ASSUME NEW j \in Nat \ {0}
    PROVE  PlaceOf(j) \in [line : Nat \ {0}, column : Nat]
<1>1. j - 1 \in Nat
  OBVIOUS
<1>2. Cardinality(NewlinesTo(j - 1)) \in Nat /\ LastOf(NewlinesTo(j - 1)) \in 0..(j - 1)
  BY <1>1, NewlinesAre, LastOfIs
<1>3. 1 + Cardinality(NewlinesTo(j - 1)) \in Nat \ {0} /\ j - LastOf(NewlinesTo(j - 1)) \in Nat
  BY <1>2
<1> QED BY <1>3 DEF PlaceOf

(* readChar keeps to the places of the text: what the cursor carries along *)
(* is what counting from the beginning would give.                         *)
LEMMA ReadToIs ==
    ASSUME NEW p \in Nat, NEW j \in Nat, p <= j
    PROVE  readTo(CursorAt(p), j) = CursorAt(j)
<1> DEFINE new == {m \in (p + 1)..j : Ch(m) = "\n"}
           old == NewlinesTo(p)
           all == NewlinesTo(j)
<1>1. all = old \cup new /\ old \cap new = {}
  BY DEF NewlinesTo
<1>2. /\ old \subseteq 0..p /\ IsFiniteSet(old)
      /\ all \subseteq 0..j /\ IsFiniteSet(all)
  BY NewlinesAre
<1>3. new \subseteq (p + 1)..j /\ new \subseteq all
  BY <1>1
<1>4. IsFiniteSet(new)
  BY <1>2, <1>3, FS_Subset
<1>5. CursorAt(p).position = p
  BY CursorIs
<1>6. readTo(CursorAt(p), j) =
        [position |-> j,
         line     |-> CursorAt(p).line + Cardinality(new),
         column   |-> IF new = {} THEN CursorAt(p).column + j - p
                      ELSE j - CHOOSE m \in new : \A o \in new : o <= m]
  BY <1>5 DEF readTo
<1> HIDE DEF new, old, all
<1>7. Cardinality(all) = Cardinality(old) + Cardinality(new)
  <2>1. Cardinality(old \cap new) = 0
    BY <1>1, FS_EmptySet
  <2>2. Cardinality(old \cup new) = Cardinality(old) + Cardinality(new) - Cardinality(old \cap new)
    BY <1>2, <1>4, FS_Union
  <2>3. Cardinality(old) \in Nat /\ Cardinality(new) \in Nat
    BY <1>2, <1>4, FS_CardinalityType
  <2> QED BY <1>1, <2>1, <2>2, <2>3
<1>8. Cardinality(old) \in Nat /\ Cardinality(new) \in Nat
  BY <1>2, <1>4, FS_CardinalityType
<1>9. CursorAt(p).line + Cardinality(new) = CursorAt(j).line
  BY <1>7, <1>8 DEF CursorAt, old, all
<1>10. CASE new = {}
  <2>1. all = old
    BY <1>1, <1>10
  <2>2. LastOf(old) \in 0..p
    BY <1>2, LastOfIs
  <2>3. CursorAt(p).column + j - p = CursorAt(j).column
    BY <2>1, <2>2 DEF CursorAt, old, all
  <2> QED BY <1>6, <1>9, <1>10, <2>3 DEF CursorAt
<1>11. CASE new # {}
  <2>1. LastOf(new) = CHOOSE m \in new : \A o \in new : o <= m
    BY <1>11 DEF LastOf
  <2>2. LastOf(new) \in new /\ \A o \in new : o <= LastOf(new)
    <3>1. new \subseteq 0..j
      BY <1>2, <1>3
    <3> QED BY <1>11, <3>1, LastOfIs
  <2>3. all # {}
    BY <1>1, <1>11
  <2>4. LastOf(all) \in all /\ \A o \in all : o <= LastOf(all)
    BY <1>2, <2>3, LastOfIs
  <2>5. LastOf(new) <= LastOf(all)
    BY <1>3, <2>2, <2>4
  <2>6. LastOf(all) \notin old
    <3>1. LastOf(new) \in (p + 1)..j /\ LastOf(all) \in 0..j
      BY <1>2, <1>3, <2>2, <2>4
    <3>2. ~ (LastOf(all) \in 0..p)
      BY <2>5, <3>1
    <3> QED BY <1>2, <3>2
  <2>7. LastOf(all) <= LastOf(new)
    BY <1>1, <2>2, <2>4, <2>6
  <2>8. LastOf(all) = LastOf(new)
    <3>1. LastOf(new) \in (p + 1)..j /\ LastOf(all) \in 0..j
      BY <1>2, <1>3, <2>2, <2>4
    <3> QED BY <2>5, <2>7, <3>1
  <2>9. j - LastOf(new) = CursorAt(j).column
    BY <2>8 DEF CursorAt, all
  <2> QED BY <1>6, <1>9, <1>11, <2>1, <2>9 DEF CursorAt
<1> QED BY <1>10, <1>11

(* On a character that is no line break the cursor is where it stands.     *)
LEMMA CursorOnPlace ==
    ASSUME NEW j \in Nat \ {0}, Ch(j) # "\n"
    PROVE  /\ CursorAt(j).line = PlaceOf(j).line
           /\ CursorAt(j).column = PlaceOf(j).column
<1>1. NewlinesTo(j) = NewlinesTo(j - 1)
  BY DEF NewlinesTo
<1> QED BY <1>1 DEF CursorAt, PlaceOf
-----------------------------------------------------------------------------
(* Strings and comments: where the recursive functions that look for their *)
(* ends come to.  A function is shown to exist from the end of the text on *)
(* down; what it returns is bounded in the same order.                     *)

LEMMA DownTo ==
    ASSUME NEW n \in Nat, NEW S,
           \A m \in 0..n : (\A k \in (m + 1)..n : k \in S) => m \in S
    PROVE  0..n \subseteq S
<1> DEFINE Missing == {n - m : m \in (0..n) \ S}
<1>1. SUFFICES ASSUME (0..n) \ S # {} PROVE FALSE
  OBVIOUS
<1>2. PICK m \in (0..n) \ S : \A o \in (0..n) \ S : o <= m
  <2>1. (0..n) \ S \subseteq 0..n
    OBVIOUS
  <2> QED BY <1>1, <2>1, GreatestNatural
<1>3. \A k \in (m + 1)..n : k \in S
  <2> SUFFICES ASSUME NEW k \in (m + 1)..n, k \notin S PROVE FALSE
    OBVIOUS
  <2>1. k \in (0..n) \ S /\ k > m
    OBVIOUS
  <2> QED BY <1>2, <2>1
<1> QED BY <1>2, <1>3

StringFrom(f, j) == CASE Two(j) = <<"'", "'">> -> f[j + 2]
                      [] Ch(j) \in {"'", NUL} /\ Two(j) # <<"'", "'">> -> j
                      [] OTHER -> f[j + 1]

LEMMA StringFromIs ==
    ASSUME NEW f, NEW j
    PROVE  /\ Two(j) = <<"'", "'">> => StringFrom(f, j) = f[j + 2]
           /\ Two(j) # <<"'", "'">> /\ Ch(j) \in {"'", NUL} => StringFrom(f, j) = j
           /\ Two(j) # <<"'", "'">> /\ Ch(j) \notin {"'", NUL} => StringFrom(f, j) = f[j + 1]
BY DEF StringFrom

(* Two quotes stand in the text; where it has ended a string ends.         *)
LEMMA QuotesInText ==
    ASSUME text \in Seq(Characters), NEW j \in Nat
    PROVE  /\ Two(j) = <<"'", "'">> => j + 2 <= Len(text) + 1
           /\ Ch(j) # NUL => j + 1 <= Len(text) + 1
           /\ j > Len(text) => Two(j) # <<"'", "'">> /\ Ch(j) = NUL
<1>1. Len(text) \in Nat
  OBVIOUS
<1>2. ASSUME Two(j) = <<"'", "'">> PROVE j + 2 <= Len(text) + 1
  <2>1. Ch(j + 1) # NUL
    BY <1>2 DEF Two, NUL
  <2>2. j + 1 <= Len(text)
    BY <2>1, InText
  <2> QED BY <1>1, <2>2
<1>3. ASSUME Ch(j) # NUL PROVE j + 1 <= Len(text) + 1
  BY <1>1, <1>3, InText
<1>4. ASSUME j > Len(text) PROVE Two(j) # <<"'", "'">> /\ Ch(j) = NUL
  BY <1>4, BehindText DEF Two, NUL
<1> QED BY <1>2, <1>3, <1>4

LEMMA StringEndExists ==
    ASSUME text \in Seq(Characters)
    PROVE  \E f : f = [j \in Nat |-> StringFrom(f, j)]
<1> DEFINE P(n) == \E f \in [Nat -> Nat] : \A j \in Nat : j >= n => f[j] = StringFrom(f, j)
           N == Len(text) + 1
           S == {n \in 0..N : P(n)}
<1>1. N \in Nat
  OBVIOUS
<1>2. P(N)
  <2> DEFINE f == [j \in Nat |-> j]
  <2>1. f \in [Nat -> Nat]
    OBVIOUS
  <2>2. ASSUME NEW j \in Nat, j >= N PROVE f[j] = StringFrom(f, j)
    <3>1. Two(j) # <<"'", "'">> /\ Ch(j) = NUL
      BY <2>2, QuotesInText
    <3>2. StringFrom(f, j) = j
      BY <3>1, StringFromIs
    <3> QED BY <3>2
  <2> HIDE DEF f
  <2> QED BY <2>1, <2>2
<1>3. ASSUME NEW m \in 0..N, m # N, P(m + 1) PROVE P(m)
  <2>1. PICK f \in [Nat -> Nat] : \A j \in Nat : j >= m + 1 => f[j] = StringFrom(f, j)
    BY <1>3
  <2> DEFINE g == [f EXCEPT ![m] = StringFrom(f, m)]
  <2>2. StringFrom(f, m) \in Nat
    <3>1. m \in Nat /\ m + 1 \in Nat /\ m + 2 \in Nat
      BY <1>1
    <3>2. f[m + 1] \in Nat /\ f[m + 2] \in Nat
      BY <3>1
    <3> QED BY <3>1, <3>2 DEF StringFrom
  <2>3. g \in [Nat -> Nat]
    BY <2>2
  <2>4. ASSUME NEW j \in Nat, j >= m PROVE g[j + 1] = f[j + 1] /\ g[j + 2] = f[j + 2]
    BY <2>4
  <2>5. ASSUME NEW j \in Nat, j >= m PROVE StringFrom(g, j) = StringFrom(f, j)
    <3>1. g[j + 1] = f[j + 1] /\ g[j + 2] = f[j + 2]
      BY <2>4, <2>5
    <3> HIDE DEF g
    <3> QED BY <3>1 DEF StringFrom
  <2>6. ASSUME NEW j \in Nat, j >= m PROVE g[j] = StringFrom(g, j)
    <3>1. CASE j = m
      <4>1. g[j] = StringFrom(f, j)
        BY <3>1
      <4> QED BY <2>5, <2>6, <4>1
    <3>2. CASE j # m
      <4>1. g[j] = f[j] /\ j >= m + 1
        BY <2>6, <3>2
      <4> QED BY <2>1, <2>5, <2>6, <4>1
    <3> QED BY <3>1, <3>2
  <2> HIDE DEF g
  <2> QED BY <2>3, <2>6
<1> HIDE DEF P
<1>4. 0..N \subseteq S
  <2>1. ASSUME NEW m \in 0..N, \A k \in (m + 1)..N : k \in S PROVE m \in S
    <3>1. CASE m = N
      BY <1>1, <1>2, <3>1
    <3>2. CASE m # N
      <4>1. m + 1 \in (m + 1)..N
        BY <1>1, <3>2
      <4> QED BY <1>3, <2>1, <3>2, <4>1
    <3> QED BY <3>1, <3>2
  <2> HIDE DEF S, N
  <2> QED BY <1>1, <2>1, DownTo
<1>5. P(0)
  BY <1>1, <1>4
<1>6. PICK f \in [Nat -> Nat] : \A j \in Nat : j >= 0 => f[j] = StringFrom(f, j)
  BY <1>5 DEF P
<1>7. f = [j \in Nat |-> StringFrom(f, j)]
  BY <1>6
<1> QED BY <1>7

LEMMA StringEnds ==
    ASSUME text \in Seq(Characters), NEW i \in Nat, i <= Len(text)
    PROVE  readString(i) \in (i + 1)..(Len(text) + 1)
<1> DEFINE N == Len(text) + 1
<1>1. N \in Nat
  OBVIOUS
<1>2. PICK g : g = [j \in Nat |-> StringFrom(g, j)]
  BY StringEndExists
<1>3. PICK f : f = [j \in Nat |-> StringFrom(f, j)] /\ readString(i) = f[i + 1]
  BY <1>2, Zenon DEF readString, StringFrom
<1> DEFINE S == {j \in 0..N : f[j] \in j..N}
<1>4. ASSUME NEW m \in 0..N, \A k \in (m + 1)..N : k \in S PROVE m \in S
  <2>1. f[m] = StringFrom(f, m)
    BY <1>3
  <2>2. CASE Two(m) = <<"'", "'">>
    <3>1. m + 2 \in (m + 1)..N
      BY <1>1, <2>2, QuotesInText
    <3>2. f[m + 2] \in (m + 2)..N
      BY <1>4, <3>1
    <3> QED BY <1>1, <2>1, <2>2, <3>2, StringFromIs
  <2>3. CASE Two(m) # <<"'", "'">> /\ Ch(m) \in {"'", NUL}
    BY <1>1, <2>1, <2>3, StringFromIs
  <2>4. CASE Two(m) # <<"'", "'">> /\ Ch(m) \notin {"'", NUL}
    <3>1. m + 1 \in (m + 1)..N
      BY <1>1, <2>4, QuotesInText
    <3>2. f[m + 1] \in (m + 1)..N
      BY <1>4, <3>1
    <3> QED BY <1>1, <2>1, <2>4, <3>2, StringFromIs
  <2> QED BY <2>2, <2>3, <2>4
<1>5. 0..N \subseteq S
  <2> HIDE DEF S, N
  <2> QED BY <1>1, <1>4, DownTo
<1>6. i + 1 \in 0..N
  BY <1>1
<1> QED BY <1>1, <1>3, <1>5, <1>6

CommentFrom(f, p) == CASE p[2] = 0 \/ Ch(p[1]) = NUL              -> p[1]
                       [] p[2] > 0 /\ Two(p[1]) = <<"/", "*">>    -> f[<<p[1] + 2, p[2] + 1>>]
                       [] p[2] > 0 /\ Two(p[1]) = <<"*", "/">>    -> f[<<p[1] + 2, p[2] - 1>>]
                       [] OTHER                                   -> f[<<p[1] + 1, p[2]>>]

(* What reading one or two characters of a comment leads to.               *)
LEMMA CommentFromIs ==
    ASSUME text \in Seq(Characters), NEW f, NEW j \in Nat, NEW d \in Nat
    PROVE  \/ CommentFrom(f, <<j, d>>) = j
           \/ /\ j + 1 <= Len(text) + 1
              /\ CommentFrom(f, <<j, d>>) = f[<<j + 1, d>>]
           \/ /\ j + 2 <= Len(text) + 1
              /\ \E e \in Nat : CommentFrom(f, <<j, d>>) = f[<<j + 2, e>>]
<1>1. Len(text) \in Nat
  OBVIOUS
<1>2. <<j, d>>[1] = j /\ <<j, d>>[2] = d
  OBVIOUS
<1>3. CASE d = 0 \/ Ch(j) = NUL
  <2>1. Ch(j) = NUL => Two(j) # <<"/", "*">> /\ Two(j) # <<"*", "/">>
    BY DEF Two, NUL
  <2>2. CommentFrom(f, <<j, d>>) = j
    BY <1>2, <1>3, <2>1 DEF CommentFrom
  <2> QED BY <2>2
<1>4. CASE ~ (d = 0 \/ Ch(j) = NUL)
  <2>1. j + 1 <= Len(text) + 1
    BY <1>1, <1>4, InText
  <2>2. CASE Ch(j + 1) = NUL
    <3>1. Two(j) # <<"/", "*">> /\ Two(j) # <<"*", "/">>
      BY <2>2 DEF Two, NUL
    <3>2. CommentFrom(f, <<j, d>>) = f[<<j + 1, d>>]
      BY <1>2, <1>4, <3>1 DEF CommentFrom
    <3> QED BY <2>1, <3>2
  <2>3. CASE Ch(j + 1) # NUL
    <3>1. j + 2 <= Len(text) + 1
      BY <1>1, <2>3, InText
    <3>2. CASE Two(j) = <<"/", "*">>
      <4>1. CommentFrom(f, <<j, d>>) = f[<<j + 2, d + 1>>]
        BY <1>2, <1>4, <3>2 DEF CommentFrom
      <4>2. d + 1 \in Nat
        OBVIOUS
      <4>3. \E e \in Nat : CommentFrom(f, <<j, d>>) = f[<<j + 2, e>>]
        BY <4>1, <4>2, Zenon
      <4> QED BY <3>1, <4>3
    <3>3. CASE Two(j) = <<"*", "/">>
      <4>1. Two(j) # <<"/", "*">>
        BY <3>3
      <4>2. CommentFrom(f, <<j, d>>) = f[<<j + 2, d - 1>>]
        BY <1>2, <1>4, <3>3, <4>1 DEF CommentFrom
      <4>3. d - 1 \in Nat
        BY <1>4
      <4> QED BY <3>1, <4>2, <4>3
    <3>4. CASE Two(j) # <<"/", "*">> /\ Two(j) # <<"*", "/">>
      <4>1. CommentFrom(f, <<j, d>>) = f[<<j + 1, d>>]
        BY <1>2, <1>4, <3>4 DEF CommentFrom
      <4> QED BY <2>1, <4>1
    <3> QED BY <3>2, <3>3, <3>4
  <2> QED BY <2>2, <2>3
<1> QED BY <1>3, <1>4

(* It looks at what follows only.                                          *)
LEMMA CommentFromSame ==
    ASSUME NEW f, NEW g, NEW j \in Nat, NEW d \in Nat,
           \A e \in Nat : g[<<j + 1, e>>] = f[<<j + 1, e>>] /\ g[<<j + 2, e>>] = f[<<j + 2, e>>]
    PROVE  CommentFrom(g, <<j, d>>) = CommentFrom(f, <<j, d>>)
<1>1. <<j, d>>[1] = j /\ <<j, d>>[2] = d
  OBVIOUS
<1>2. CASE d = 0
  BY <1>1, <1>2 DEF CommentFrom
<1>3. CASE d > 0
  <2>1. d + 1 \in Nat /\ d - 1 \in Nat
    BY <1>3
  <2>2. g[<<j + 2, d + 1>>] = f[<<j + 2, d + 1>>]
    BY <2>1
  <2>3. g[<<j + 2, d - 1>>] = f[<<j + 2, d - 1>>]
    BY <2>1
  <2>4. g[<<j + 1, d>>] = f[<<j + 1, d>>]
    OBVIOUS
  <2> QED BY <1>1, <2>2, <2>3, <2>4 DEF CommentFrom
<1> QED BY <1>2, <1>3

LEMMA CommentEndExists ==
    ASSUME text \in Seq(Characters)
    PROVE  \E f : f = [p \in Nat \X Nat |-> CommentFrom(f, p)]
<1> DEFINE Right(f, n) == \A j \in Nat, d \in Nat : j >= n => f[<<j, d>>] = CommentFrom(f, <<j, d>>)
           P(n) == \E f \in [Nat \X Nat -> Nat] : Right(f, n)
           N == Len(text) + 1
           S == {n \in 0..N : P(n)}
<1>1. N \in Nat
  OBVIOUS
<1>2. P(N)
  <2> DEFINE f == [p \in Nat \X Nat |-> p[1]]
  <2>1. f \in [Nat \X Nat -> Nat]
    OBVIOUS
  <2>2. ASSUME NEW j \in Nat, NEW d \in Nat, j >= N PROVE f[<<j, d>>] = CommentFrom(f, <<j, d>>)
    <3>1. f[<<j, d>>] = j /\ <<j, d>>[1] = j
      OBVIOUS
    <3>2. Ch(j) = NUL
      BY <2>2, QuotesInText
    <3>4. Two(j) # <<"/", "*">> /\ Two(j) # <<"*", "/">>
      BY <3>2 DEF Two, NUL
    <3> HIDE DEF f
    <3>3. CommentFrom(f, <<j, d>>) = j
      BY <3>1, <3>2, <3>4 DEF CommentFrom
    <3> QED BY <3>1, <3>3
  <2> HIDE DEF f
  <2> QED BY <2>1, <2>2
<1>3. ASSUME NEW m \in 0..N, m # N, P(m + 1) PROVE P(m)
  <2>1. m \in Nat
    BY <1>1
  <2>2. PICK f \in [Nat \X Nat -> Nat] : Right(f, m + 1)
    BY <1>3
  <2> DEFINE g == [p \in Nat \X Nat |-> IF p[1] = m THEN CommentFrom(f, p) ELSE f[p]]
  <2>3. ASSUME NEW d \in Nat PROVE CommentFrom(f, <<m, d>>) \in Nat
    <3>1. /\ f[<<m + 1, d>>] \in Nat
          /\ \A e \in Nat : f[<<m + 2, e>>] \in Nat
      BY <2>1
    <3>2. \/ CommentFrom(f, <<m, d>>) = m
          \/ CommentFrom(f, <<m, d>>) = f[<<m + 1, d>>]
          \/ \E e \in Nat : CommentFrom(f, <<m, d>>) = f[<<m + 2, e>>]
      BY <2>1, CommentFromIs
    <3> QED BY <2>1, <3>1, <3>2
  <2>4. ASSUME NEW j \in Nat, NEW d \in Nat
        PROVE  /\ j = m => g[<<j, d>>] = CommentFrom(f, <<j, d>>)
               /\ j # m => g[<<j, d>>] = f[<<j, d>>]
    BY <2>1
  <2>5. ASSUME NEW p \in Nat \X Nat PROVE g[p] \in Nat
    <3>1. PICK j \in Nat, d \in Nat : p = <<j, d>>
      OBVIOUS
    <3>2. f[<<j, d>>] \in Nat
      OBVIOUS
    <3> HIDE DEF g
    <3> QED BY <2>3, <2>4, <3>1, <3>2
  <2>6. g \in [Nat \X Nat -> Nat]
    BY <2>5
  <2> HIDE DEF g
  <2>7. ASSUME NEW j \in Nat, NEW d \in Nat, j >= m PROVE g[<<j, d>>] = CommentFrom(g, <<j, d>>)
    <3>1. \A e \in Nat : g[<<j + 1, e>>] = f[<<j + 1, e>>] /\ g[<<j + 2, e>>] = f[<<j + 2, e>>]
      <4>1. j + 1 \in Nat /\ j + 1 # m /\ j + 2 \in Nat /\ j + 2 # m
        BY <2>1, <2>7
      <4> QED BY <2>4, <4>1
    <3>2. CommentFrom(g, <<j, d>>) = CommentFrom(f, <<j, d>>)
      BY <3>1, CommentFromSame
    <3>3. CASE j = m
      BY <2>4, <3>2, <3>3
    <3>4. CASE j # m
      <4>1. j >= m + 1
        BY <2>1, <2>7, <3>4
      <4> QED BY <2>2, <2>4, <3>2, <3>4, <4>1
    <3> QED BY <3>3, <3>4
  <2> QED BY <2>6, <2>7
<1> HIDE DEF P
<1>4. 0..N \subseteq S
  <2>1. ASSUME NEW m \in 0..N, \A k \in (m + 1)..N : k \in S PROVE m \in S
    <3>1. CASE m = N
      BY <1>1, <1>2, <3>1
    <3>2. CASE m # N
      <4>1. m + 1 \in (m + 1)..N
        BY <1>1, <3>2
      <4> QED BY <1>3, <2>1, <3>2, <4>1
    <3> QED BY <3>1, <3>2
  <2> HIDE DEF S, N
  <2> QED BY <1>1, <2>1, DownTo
<1>5. P(0)
  BY <1>1, <1>4
<1>6. PICK f \in [Nat \X Nat -> Nat] : Right(f, 0)
  BY <1>5 DEF P
<1>7. ASSUME NEW p \in Nat \X Nat PROVE f[p] = CommentFrom(f, p)
  <2>1. PICK j \in Nat, d \in Nat : p = <<j, d>>
    OBVIOUS
  <2> QED BY <1>6, <2>1
<1>8. f = [p \in Nat \X Nat |-> CommentFrom(f, p)]
  BY <1>7
<1> QED BY <1>8

LEMMA CommentEnds ==
    ASSUME text \in Seq(Characters), NEW i \in Nat, i + 2 <= Len(text) + 1
    PROVE  readBlockComment(i) \in (i + 2)..(Len(text) + 1)
<1> DEFINE N == Len(text) + 1
<1>1. N \in Nat
  OBVIOUS
<1>2. PICK g : g = [p \in Nat \X Nat |-> CommentFrom(g, p)]
  BY CommentEndExists
<1>3. PICK f : f = [p \in Nat \X Nat |-> CommentFrom(f, p)] /\ readBlockComment(i) = f[<<i + 2, 1>>]
  BY <1>2, Zenon DEF readBlockComment, CommentFrom
<1> DEFINE S == {j \in 0..N : \A d \in Nat : f[<<j, d>>] \in j..N}
<1>4. ASSUME NEW m \in 0..N, \A k \in (m + 1)..N : k \in S PROVE m \in S
  <2>1. m \in Nat
    BY <1>1
  <2>2. ASSUME NEW d \in Nat PROVE f[<<m, d>>] \in m..N
    <3>1. f[<<m, d>>] = CommentFrom(f, <<m, d>>)
      BY <1>3, <2>1
    <3>2. CASE CommentFrom(f, <<m, d>>) = m
      BY <1>1, <3>1, <3>2
    <3>3. CASE m + 1 <= N /\ CommentFrom(f, <<m, d>>) = f[<<m + 1, d>>]
      <4>1. m + 1 \in (m + 1)..N
        BY <1>1, <2>1, <3>3
      <4>2. f[<<m + 1, d>>] \in (m + 1)..N
        BY <1>4, <4>1
      <4> QED BY <1>1, <2>1, <3>1, <3>3, <4>2
    <3>4. ASSUME NEW e \in Nat, m + 2 <= N, CommentFrom(f, <<m, d>>) = f[<<m + 2, e>>]
          PROVE  f[<<m, d>>] \in m..N
      <4>1. m + 2 \in (m + 1)..N
        BY <1>1, <2>1, <3>4
      <4>2. f[<<m + 2, e>>] \in (m + 2)..N
        BY <1>4, <4>1
      <4> QED BY <1>1, <2>1, <3>1, <3>4, <4>2
    <3> QED BY <2>1, <3>2, <3>3, <3>4, CommentFromIs
  <2> QED BY <2>2
<1>5. 0..N \subseteq S
  <2> HIDE DEF S, N
  <2> QED BY <1>1, <1>4, DownTo
<1>6. i + 2 \in 0..N
  BY <1>1
<1> QED BY <1>1, <1>3, <1>5, <1>6
-----------------------------------------------------------------------------
(* Types of tokens: only an operator of two characters has one of           *)
(* DoubleTypes.                                                             *)
CompoundTypes ==
    {"END_CONVERSATION", "TRUNCATE_TABLE", "CREATE_RULE", "BEGIN_ATOMIC", "WITH_XMLNAMESPACES", "WITH_NOCHECK",
     "NEXT_VALUE_FOR", "XML_SCHEMA_COLLECTION", "IS_DISTINCT_FROM", "IS_NOT_DISTINCT_FROM", "ASYMMETRIC_KEY",
     "SYMMETRIC_KEY", "WITH_CHECK", "WITH_PARTITIONS"}
LiteralTypes == {"COMMENT", "IDENT", "STRING", "NSTRING", "FLOAT", "MONEY_LIT", "BINARY", "INT",
                 "TEMPVAR", "VARIABLE", "SYSVAR"}
PlainTypes == Types \ (DoubleTypes \cup {"EOF"})
WordTypes  == CompoundTypes \cup Keywords \cup {"IDENT"}

LEMMA DoublesAre ==
    ASSUME NEW d \in Doubles
    PROVE  /\ d[1] \notin {NUL, "\n"} /\ d[2] \notin {NUL, "\n"}
           /\ d[3] \in {"PLUSEQ", "MINUSEQ", "MULEQ", "DIVEQ", "MODEQ", "ANDEQ", "OREQ", "XOREQ", "NEQ",
                        "NOT_LT", "NOT_GT", "LTE", "LSHIFT", "GTE", "RSHIFT", "SCOPE"}
BY DEF Doubles, NUL

LEMMA SinglesAre ==
    ASSUME NEW s \in Singles
    PROVE  /\ s[1] \notin {NUL, "\n"}
           /\ s[2] \in {"PLUS", "MINUS", "ASTERISK", "SLASH", "PERCENT", "AMPERSAND", "PIPE", "CARET", "TILDE",
                        "EQ", "ILLEGAL", "LT", "GT", "COMMA", "SEMICOLON", "LPAREN", "RPAREN", "RBRACKET",
                        "DOT", "COLON", "PLACEHOLDER"}
<1>1. \E c, t : /\ s = <<c, t>>
               /\ c # NUL /\ c # "\n"
               /\ t \in {"PLUS", "MINUS", "ASTERISK", "SLASH", "PERCENT", "AMPERSAND", "PIPE", "CARET", "TILDE",
                "EQ", "ILLEGAL", "LT", "GT", "COMMA", "SEMICOLON", "LPAREN", "RPAREN", "RBRACKET",
                "DOT", "COLON", "PLACEHOLDER"}
  BY Zenon DEF Singles, NUL
<1> QED BY <1>1

LEMMA DoubleTypesAre ==
    /\ DoubleTypes \subseteq {"PLUSEQ", "MINUSEQ", "MULEQ", "DIVEQ", "MODEQ", "ANDEQ", "OREQ", "XOREQ", "NEQ",
                              "NOT_LT", "NOT_GT", "LTE", "LSHIFT", "GTE", "RSHIFT", "SCOPE"}
    /\ DoubleTypes \subseteq Types
    /\ "EOF" \in Types \ DoubleTypes
<1>1. DoubleTypes \subseteq {"PLUSEQ", "MINUSEQ", "MULEQ", "DIVEQ", "MODEQ", "ANDEQ", "OREQ", "XOREQ", "NEQ",
                             "NOT_LT", "NOT_GT", "LTE", "LSHIFT", "GTE", "RSHIFT", "SCOPE"}
  BY DoublesAre DEF DoubleTypes
<1>2. DoubleTypes \subseteq Types
  BY DEF DoubleTypes, Types
<1>3. "EOF" \in Types
  BY DEF Types
<1>4. "EOF" \notin DoubleTypes
  BY <1>1
<1> QED BY <1>1, <1>2, <1>3, <1>4

LEMMA PlainTypesAre ==
    /\ CompoundTypes \cup LiteralTypes \cup Keywords \subseteq PlainTypes
    /\ \A s \in Singles : s[2] \in PlainTypes
<1>1. CompoundTypes \cup LiteralTypes \cup Keywords \subseteq Types
  BY DEF CompoundTypes, LiteralTypes, Types
<1>2. CompoundTypes \cap (DoubleTypes \cup {"EOF"}) = {}
  BY DoubleTypesAre DEF CompoundTypes
<1>3. LiteralTypes \cap (DoubleTypes \cup {"EOF"}) = {}
  BY DoubleTypesAre DEF LiteralTypes
<1>4. Keywords \cap (DoubleTypes \cup {"EOF"}) = {}
  BY DoubleTypesAre DEF Keywords
<1>5. ASSUME NEW s \in Singles PROVE s[2] \in PlainTypes
  <2>1. s[2] \in Types
    BY DEF Types
  <2>2. s[2] \notin DoubleTypes \cup {"EOF"}
    BY SinglesAre, DoubleTypesAre
  <2> QED BY <2>1, <2>2 DEF PlainTypes
<1> QED BY <1>1, <1>2, <1>3, <1>4, <1>5 DEF PlainTypes
-----------------------------------------------------------------------------
(* Compound keywords.                                                      *)

(* What looking for a compound keyword comes to: the token ends behind p,  *)
(* and from its end to the cursor there is white space.                    *)
Compound(found, p) ==
    \E type \in WordTypes, end \in p..(Len(text) + 1) : \E q \in end..(Len(text) + 1) :
        /\ found = Found(type, end, CursorAt(q))
        /\ \A i \in end..(q - 1) : Ch(i) \in Blanks

LEMMA WordIs ==
    ASSUME text \in Seq(Characters), NEW i, WordAt(i) # NoWord
    PROVE  i \in 1..Len(text)
<1>1. Ch(i) \in Letters
  BY DEF WordAt
<1>2. NUL \notin Letters
  BY DEF NUL, Letters, Keywords
<1> QED BY <1>1, <1>2, InText

LEMMA PairsAre ==
    /\ \A t \in Pairs : t[2] # NoWord /\ t[3] \in WordTypes
    /\ \A t \in Triples : t[2] # NoWord /\ t[3] # NoWord /\ t[4] \in WordTypes
<1> DEFINE Seconds == {"CONVERSATION", "TABLE", "RULE", "ATOMIC", "XMLNAMESPACES", "NOCHECK",
                       "VALUE", "FOR", "SCHEMA", "COLLECTION", "DISTINCT", "FROM"}
<1>1. NoWord \notin Seconds
  BY Zenon DEF NoWord
<1>2. ASSUME NEW t \in Pairs PROVE t[2] \in Seconds /\ t[3] \in CompoundTypes
  BY DEF Pairs, CompoundTypes
<1>3. ASSUME NEW t \in Triples PROVE t[2] \in Seconds /\ t[3] \in Seconds /\ t[4] \in CompoundTypes
  BY DEF Triples, CompoundTypes
<1> HIDE DEF Seconds
<1> QED BY <1>1, <1>2, <1>3 DEF WordTypes

LEMMA JoinedIs ==
    ASSUME text \in Seq(Characters), NEW p \in Nat \ {0}, NEW type \in WordTypes, NEW end \in p..(Len(text) + 1)
    PROVE  Compound(Joined(type, end, CursorAt(p)), p)
<1>1. readTo(CursorAt(p), end) = CursorAt(end)
  BY ReadToIs
<1>2. Joined(type, end, CursorAt(p)) = Found(type, end, CursorAt(end))
  BY <1>1 DEF Joined
<1>3. end \in end..(Len(text) + 1) /\ \A i \in end..(end - 1) : Ch(i) \in Blanks
  OBVIOUS
<1> QED BY <1>2, <1>3 DEF Compound

LEMMA CompoundIs ==
    ASSUME text \in Seq(Characters), NEW p \in Nat \ {0}, p <= Len(text) + 1,
           NEW type \in Keywords \cup {"IDENT"}
    PROVE  Compound(checkCompoundKeyword(type, CursorAt(p)), p)
<1> DEFINE c == CursorAt(p)
           X == checkCompoundKeyword(type, c)
<1>1. \/ TwoWords(type, c) # {} /\ X = Joined((CHOOSE t \in TwoWords(type, c) : TRUE)[3], Second(c) + 1, c)
      \/ ThreeWords(type, c) # {} /\ X = Joined((CHOOSE t \in ThreeWords(type, c) : TRUE)[4], Third(c) + 1, c)
      \/ KeyOfGrant(type, c) /\ X = Found(Grants[type], Second(c) + 1, readTo(c, Third(c)))
      \/ WithCheck(type, c) /\ X = Joined("WITH_CHECK", Second(c) + 1, c)
      \/ NotDistinct(type, c) /\ X = Joined("IS_NOT_DISTINCT_FROM", Fourth(c) + 1, c)
      \/ WithPartitions(type, c) /\ X = Joined("WITH_PARTITIONS", Partitions(c) + 1, c)
      \/ X = Restored(type, c)
  BY DEF checkCompoundKeyword
<1> SUFFICES Compound(X, p)
  OBVIOUS
<1> HIDE DEF X
<1>2. c.position = p
  BY CursorIs
<1>3. Second(c) \in p..(Len(text) + 1)
  BY <1>2, SkipIs DEF Second
<1>4. ASSUME WordAt(Second(c)) # NoWord
      PROVE  /\ Second(c) + 1 \in (p + 1)..(Len(text) + 1)
             /\ Third(c) \in (Second(c) + 1)..(Len(text) + 1)
             /\ \A i \in (Second(c) + 1)..(Third(c) - 1) : Ch(i) \in Blanks
  <2>1. Second(c) \in 1..Len(text)
    BY <1>4, WordIs
  <2>2. Second(c) + 1 \in (p + 1)..(Len(text) + 1) /\ Second(c) + 1 \in Nat \ {0}
    BY <1>3, <2>1
  <2>3. Second(c) + 1 <= Len(text) + 1
    BY <2>2
  <2> QED BY <2>2, <2>3, SkipIs DEF Third
<1>5. ASSUME WordAt(Second(c)) # NoWord, WordAt(Third(c)) # NoWord
      PROVE  /\ Third(c) + 1 \in (p + 1)..(Len(text) + 1)
             /\ Fourth(c) \in (Third(c) + 1)..(Len(text) + 1)
  <2>1. Third(c) \in 1..Len(text)
    BY <1>5, WordIs
  <2>2. Third(c) + 1 \in (p + 1)..(Len(text) + 1) /\ Third(c) + 1 \in Nat \ {0}
    BY <1>3, <1>4, <1>5, <2>1
  <2>3. Third(c) + 1 <= Len(text) + 1
    BY <2>2
  <2> QED BY <2>2, <2>3, SkipIs DEF Fourth
<1>6. ASSUME NEW t \in WordTypes, NEW end \in (p + 1)..(Len(text) + 1), X = Joined(t, end, c)
      PROVE  Compound(X, p)
  <2>1. end \in p..(Len(text) + 1)
    OBVIOUS
  <2> QED BY <1>6, <2>1, JoinedIs
<1>7. CASE TwoWords(type, c) # {} /\ X = Joined((CHOOSE t \in TwoWords(type, c) : TRUE)[3], Second(c) + 1, c)
  <2> DEFINE t == CHOOSE t \in TwoWords(type, c) : TRUE
  <2>1. t \in TwoWords(type, c)
    BY <1>7
  <2> HIDE DEF t
  <2>2. t \in Pairs /\ t[2] = WordAt(Second(c))
    BY <2>1 DEF TwoWords
  <2>3. t[2] # NoWord /\ t[3] \in WordTypes
    BY <2>2, PairsAre
  <2>4. t[3] \in WordTypes /\ Second(c) + 1 \in (p + 1)..(Len(text) + 1)
    BY <1>4, <2>2, <2>3
  <2>5. X = Joined(t[3], Second(c) + 1, c)
    BY <1>7 DEF t
  <2> QED BY <1>6, <2>4, <2>5
<1>8. CASE ThreeWords(type, c) # {} /\ X = Joined((CHOOSE t \in ThreeWords(type, c) : TRUE)[4], Third(c) + 1, c)
  <2> DEFINE t == CHOOSE t \in ThreeWords(type, c) : TRUE
  <2>1. t \in ThreeWords(type, c)
    BY <1>8
  <2> HIDE DEF t
  <2>2. t \in Triples /\ t[2] = WordAt(Second(c)) /\ t[3] = WordAt(Third(c))
    BY <2>1 DEF ThreeWords
  <2>3. t[2] # NoWord /\ t[3] # NoWord /\ t[4] \in WordTypes
    BY <2>2, PairsAre
  <2>4. t[4] \in WordTypes /\ Third(c) + 1 \in (p + 1)..(Len(text) + 1)
    BY <1>5, <2>2, <2>3
  <2>5. X = Joined(t[4], Third(c) + 1, c)
    BY <1>8 DEF t
  <2> QED BY <1>6, <2>4, <2>5
<1>9. CASE KeyOfGrant(type, c) /\ X = Found(Grants[type], Second(c) + 1, readTo(c, Third(c)))
  <2>1. WordAt(Second(c)) # NoWord
    BY <1>9, Zenon DEF KeyOfGrant, NoWord
  <2>2. type \in {"ASYMMETRIC", "SYMMETRIC"}
    BY <1>9 DEF KeyOfGrant, Grants
  <2>3. Grants[type] \in WordTypes
    <3>1. Grants[type] \in CompoundTypes
      BY <2>2 DEF Grants, CompoundTypes
    <3> QED BY <3>1 DEF WordTypes
  <2>4. /\ Second(c) + 1 \in p..(Len(text) + 1)
        /\ Third(c) \in (Second(c) + 1)..(Len(text) + 1)
        /\ \A i \in (Second(c) + 1)..(Third(c) - 1) : Ch(i) \in Blanks
    <3>1. Second(c) + 1 \in p..(Len(text) + 1)
      BY <1>3, <1>4, <2>1
    <3> QED BY <1>4, <2>1, <3>1
  <2>5. p <= Third(c) /\ Third(c) \in Nat
    BY <1>3, <2>4
  <2>6. readTo(c, Third(c)) = CursorAt(Third(c))
    BY <2>5, ReadToIs
  <2> QED BY <1>9, <2>3, <2>4, <2>6 DEF Compound
<1>10. CASE WithCheck(type, c) /\ X = Joined("WITH_CHECK", Second(c) + 1, c)
  <2>1. WordAt(Second(c)) # NoWord
    BY <1>10, Zenon DEF WithCheck, NoWord
  <2>2. "WITH_CHECK" \in WordTypes
    BY DEF WordTypes, CompoundTypes
  <2> QED BY <1>4, <1>6, <1>10, <2>1, <2>2
<1>11. CASE NotDistinct(type, c) /\ X = Joined("IS_NOT_DISTINCT_FROM", Fourth(c) + 1, c)
  <2>1. WordAt(Second(c)) # NoWord /\ WordAt(Third(c)) # NoWord /\ WordAt(Fourth(c)) # NoWord
    BY <1>11, Zenon DEF NotDistinct, NoWord
  <2>2. "IS_NOT_DISTINCT_FROM" \in WordTypes
    BY DEF WordTypes, CompoundTypes
  <2>3. Fourth(c) \in 1..Len(text)
    BY <2>1, WordIs
  <2>4. Fourth(c) + 1 \in (p + 1)..(Len(text) + 1)
    BY <1>3, <1>4, <1>5, <2>1, <2>3
  <2> QED BY <1>6, <1>11, <2>2, <2>4
<1>12. CASE WithPartitions(type, c) /\ X = Joined("WITH_PARTITIONS", Partitions(c) + 1, c)
  <2>1. Ch(Parenthesis(c)) = "(" /\ WordAt(Partitions(c)) # NoWord
    BY <1>12, Zenon DEF WithPartitions, NoWord
  <2>2. "WITH_PARTITIONS" \in WordTypes
    BY DEF WordTypes, CompoundTypes
  <2>3. Partitions(c) \in 1..Len(text)
    BY <2>1, WordIs
  <2>4. Parenthesis(c) \in 1..Len(text)
    BY <2>1, InText DEF NUL
  <2>5. Parenthesis(c) >= p
    <3>1. CASE Ch(Second(c)) \in Letters
      <4>1. readIdentifier(Second(c)) \in Second(c)..(Len(text) + 1)
        BY <1>3, IdentifierIs
      <4>2. readIdentifier(Second(c)) \in Nat \ {0} /\ readIdentifier(Second(c)) <= Len(text) + 1
        BY <1>3, <4>1
      <4>3. skipWhitespace(readIdentifier(Second(c))) \in readIdentifier(Second(c))..(Len(text) + 1)
        BY <4>2, SkipIs
      <4> QED BY <1>3, <3>1, <4>1, <4>3, <2>4 DEF Parenthesis
    <3>2. CASE Ch(Second(c)) \notin Letters
      BY <1>3, <3>2 DEF Parenthesis
    <3> QED BY <3>1, <3>2
  <2>6. Partitions(c) >= Parenthesis(c) + 1
    <3>1. Parenthesis(c) + 1 \in Nat \ {0} /\ Parenthesis(c) + 1 <= Len(text) + 1
      BY <2>4
    <3>2. Partitions(c) \in (Parenthesis(c) + 1)..(Len(text) + 1)
      BY <3>1, SkipIs DEF Partitions
    <3> QED BY <2>4, <3>2
  <2>7. Partitions(c) + 1 \in (p + 1)..(Len(text) + 1)
    BY <2>3, <2>4, <2>5, <2>6
  <2> QED BY <1>6, <1>12, <2>2, <2>7
<1>13. CASE X = Restored(type, c)
  <2>1. type \in WordTypes
    BY DEF WordTypes
  <2>2. X = Found(type, p, CursorAt(p))
    BY <1>2, <1>13 DEF Restored
  <2>3. /\ p \in p..(Len(text) + 1)
        /\ \A i \in p..(p - 1) : Ch(i) \in Blanks
    OBVIOUS
  <2> QED BY <2>1, <2>2, <2>3 DEF Compound
<1> QED BY <1>1, <1>7, <1>8, <1>9, <1>10, <1>11, <1>12, <1>13
-----------------------------------------------------------------------------
(* What one call of NextToken does, whichever token it finds: the token    *)
(* begins behind the white space, what lies between it and the cursor is   *)
(* white space, and its place is that of its first character, or of the    *)
(* second one of an operator.  NUL ends the text.                          *)
Reading(type, end, place, q) ==
    /\ Here <= end /\ end <= q /\ q <= Len(text) + 1
    /\ type # "EOF" => Here < end /\ \A i \in end..(q - 1) : Ch(i) \in Blanks
    /\ \A i \in end..(q - 1) : Ch(i) \in Blanks \cup {NUL}
    /\ LET known == PlaceOf(IF type \in DoubleTypes THEN end - 1 ELSE Here) IN
       place.line = known.line /\ place.column = known.column
Stepped ==
    \E type \in Types, end \in Nat, c \in Cursors : \E place :
        /\ Reading(type, end, place, c.position)
        /\ Return(type, end, place, c)
        /\ type # "EOF" => c = CursorAt(c.position)
        /\ errors' \in Seq(Places)

LEMMA StepsTo ==
    ASSUME NEW type \in Types, NEW end \in Nat, NEW q \in Nat \ {0}, NEW place,
           Reading(type, end, place, q), Return(type, end, place, CursorAt(q)), errors' \in Seq(Places)
    PROVE  Stepped
<1>1. CursorAt(q).position = q /\ CursorAt(q) \in [position : Nat, line : Nat \ {0}, column : Nat]
  BY CursorIs
<1>2. CursorAt(q) \in Cursors
  BY <1>1 DEF Cursors
<1> QED BY <1>1, <1>2 DEF Stepped

LEMMA StartIs ==
    ASSUME LexInv, ~ Finished
    PROVE  /\ Here \in cursor.position..(Len(text) + 1)
           /\ Here \in Nat \ {0}
           /\ Start = CursorAt(Here)
           /\ \A i \in cursor.position..(Here - 1) : Ch(i) \in Blanks
           /\ Ch(Here) \notin Blanks
<1> DEFINE p == cursor.position
<1>1. /\ text \in Seq(Characters) /\ p \in Nat \ {0}
      /\ p <= Len(text) + 1 /\ cursor = CursorAt(p)
  BY InThisText DEF LexInv, Cursors
<1>2. /\ skipWhitespace(p) \in p..(Len(text) + 1)
      /\ \A i \in p..(skipWhitespace(p) - 1) : Ch(i) \in Blanks
      /\ Ch(skipWhitespace(p)) \notin Blanks
  BY <1>1, SkipIs
<1>3. skipWhitespace(p) \in Nat \ {0} /\ p <= skipWhitespace(p)
  BY <1>1, <1>2
<1>4. readTo(CursorAt(p), skipWhitespace(p)) = CursorAt(skipWhitespace(p))
  BY <1>1, <1>3, ReadToIs
<1>5. Start = CursorAt(skipWhitespace(p))
  BY <1>1, <1>4 DEF Start
<1>6. Here = skipWhitespace(p)
  BY <1>3, <1>5, CursorIs DEF Here
<1> QED BY <1>2, <1>3, <1>5, <1>6

(* The cursor behind a token, and its place.                               *)
LEMMA BehindStart ==
    ASSUME LexInv, ~ Finished, NEW end \in Nat, Here <= end
    PROVE  readTo(Start, end) = CursorAt(end)
BY StartIs, ReadToIs

LEMMA StartPlace ==
    ASSUME LexInv, ~ Finished
    PROVE  Start.line = PlaceOf(Here).line /\ Start.column = PlaceOf(Here).column
<1>1. "\n" \in Blanks
  BY Zenon DEF Blanks
<1>2. Ch(Here) # "\n"
  BY <1>1, StartIs
<1> QED BY <1>2, StartIs, CursorOnPlace

(* A token that the cursor ends behind.                                    *)
LEMMA PlainReading ==
    ASSUME LexInv, ~ Finished, NEW type \in PlainTypes, NEW end \in (Here + 1)..(Len(text) + 1)
    PROVE  Reading(type, end, Start, end)
<1>1. Here \in Nat /\ end \in Nat /\ Here < end
  BY StartIs
<1>2. type \notin DoubleTypes /\ type # "EOF"
  BY DEF PlainTypes
<1>3. \A i \in end..(end - 1) : Ch(i) \in Blanks
  BY <1>1
<1>4. Here <= end /\ end <= end /\ end <= Len(text) + 1
  BY <1>1, StartIs
<1> QED BY <1>1, <1>2, <1>3, <1>4, StartPlace DEF Reading

LEMMA EmitSteps ==
    ASSUME LexInv, NEW type \in PlainTypes, NEW end \in (Here + 1)..(Len(text) + 1), Emit(type, end)
    PROVE  Stepped
<1>1. /\ ~ Finished
      /\ Return(type, end, Start, readTo(Start, end))
      /\ errors' = errors
  BY DEF Emit, Return
<1>2. end \in Nat /\ Here <= end
  BY <1>1, StartIs
<1>3. Return(type, end, Start, CursorAt(end))
  BY <1>1, <1>2, BehindStart
<1>4. errors' \in Seq(Places)
  BY <1>1 DEF LexInv
<1>5. type \in Types
  BY DEF PlainTypes
<1>6. end \in Nat \ {0}
  <2>1. ~ Finished
    BY <1>1
  <2>2. Here \in Nat \ {0}
    BY <2>1, StartIs
  <2> QED BY <1>2, <2>2
<1> QED BY <1>1, <1>3, <1>4, <1>5, <1>6, PlainReading, StepsTo

LEMMA LiteralSteps ==
    ASSUME LexInv, NEW type \in PlainTypes, NEW i \in Here..Len(text), NEW end \in (i + 1)..(Len(text) + 1),
           Literal(type, i, end), ~ Finished
    PROVE  Stepped
<1>1. text \in Seq(Characters) /\ Len(text) \in Nat
  BY DEF LexInv
<1>2. /\ Here \in Nat /\ i \in Nat /\ end \in Nat
      /\ Here < end /\ end <= Len(text) + 1 /\ Here <= i + 1
  BY <1>1, StartIs
<1>3. CASE Ch(end) # NUL
  <2>1. end <= Len(text)
    BY <1>1, <1>3, InText
  <2>2. end + 1 \in (Here + 1)..(Len(text) + 1)
    BY <1>1, <1>2, <2>1
  <2>3. Emit(type, end + 1)
    BY <1>3 DEF Literal
  <2> QED BY <2>2, <2>3, EmitSteps
<1>4. CASE Ch(end) = NUL
  <2> DEFINE inside == readTo(Start, i + 1)
  <2>1. /\ Return(type, end, Start, readTo(Start, end))
        /\ errors' = Append(errors, [line |-> inside.line, column |-> inside.column - 1])
    BY <1>4 DEF Literal
  <2>2. inside = CursorAt(i + 1)
    BY <1>2, BehindStart
  <2> HIDE DEF inside
  <2>3. inside.line \in Nat \ {0} /\ inside.column \in Nat
    <3>1. i + 1 \in Nat
      BY <1>2
    <3>2. CursorAt(i + 1) \in [position : Nat, line : Nat \ {0}, column : Nat]
      BY <3>1, CursorIs
    <3> QED BY <2>2, <3>2
  <2>4. inside.column - 1 \in Int
    BY <2>3
  <2>5. [line |-> inside.line, column |-> inside.column - 1] \in Places
    BY <2>3, <2>4 DEF Places
  <2>6. errors' \in Seq(Places)
    BY <2>1, <2>5 DEF LexInv
  <2>7. Return(type, end, Start, CursorAt(end))
    BY <1>2, <2>1, BehindStart
  <2>8. end \in (Here + 1)..(Len(text) + 1)
    BY <1>2
  <2>9. Reading(type, end, Start, end)
    BY <2>8, PlainReading
  <2>10. end \in Nat \ {0} /\ type \in Types
    BY <1>2 DEF PlainTypes
  <2> QED BY <2>6, <2>7, <2>9, <2>10, StepsTo
<1> QED BY <1>3, <1>4

LEMMA OperatorSteps ==
    ASSUME LexInv, ~ Finished, OperatorToken
    PROVE  Stepped
<1>1. text \in Seq(Characters) /\ Len(text) \in Nat
  BY DEF LexInv
<1>2. Here \in Nat \ {0} /\ Here <= Len(text) + 1
  BY <1>1, StartIs
<1>3. ASSUME NEW d \in Doubles, Two(Here) = <<d[1], d[2]>>,
             Return(d[3], Here + 2, readTo(Start, Here + 1), readTo(Start, Here + 2)), errors' = errors
      PROVE  Stepped
  <2>1. Ch(Here + 1) = d[2]
    BY <1>3 DEF Two
  <2>2. Here + 1 <= Len(text) /\ Ch(Here + 1) # "\n"
    BY <1>1, <2>1, DoublesAre, InText
  <2>3. /\ readTo(Start, Here + 1) = CursorAt(Here + 1)
        /\ readTo(Start, Here + 2) = CursorAt(Here + 2)
    <3>1. Here + 1 \in Nat /\ Here <= Here + 1 /\ Here + 2 \in Nat /\ Here <= Here + 2
      BY <1>2
    <3> QED BY <3>1, BehindStart
  <2>4. d[3] \in DoubleTypes /\ d[3] \in Types /\ d[3] # "EOF"
    <3>1. d[3] \in DoubleTypes
      BY DEF DoubleTypes
    <3> QED BY <3>1, DoubleTypesAre
  <2>5. Reading(d[3], Here + 2, CursorAt(Here + 1), Here + 2)
    <3>1. \A i \in (Here + 2)..((Here + 2) - 1) : Ch(i) \in Blanks
      BY <1>2
    <3>2. (Here + 2) - 1 = Here + 1 /\ Here + 1 \in Nat \ {0}
      BY <1>2
    <3>3. /\ CursorAt(Here + 1).line = PlaceOf((Here + 2) - 1).line
          /\ CursorAt(Here + 1).column = PlaceOf((Here + 2) - 1).column
      BY <2>2, <3>2, CursorOnPlace
    <3>4. /\ Here <= Here + 2 /\ Here + 2 <= Here + 2 /\ Here < Here + 2
          /\ Here + 2 <= Len(text) + 1
      BY <1>1, <1>2, <2>2
    <3> QED BY <2>4, <3>1, <3>3, <3>4 DEF Reading
  <2>6. Return(d[3], Here + 2, CursorAt(Here + 1), CursorAt(Here + 2))
    BY <1>3, <2>3
  <2>7. errors' \in Seq(Places) /\ Here + 2 \in Nat /\ Here + 2 \in Nat \ {0}
    BY <1>2, <1>3 DEF LexInv
  <2> QED BY <2>4, <2>5, <2>6, <2>7, StepsTo
<1>4. ASSUME NEW s \in Singles, Ch(Here) = s[1], Emit(s[2], Here + 1)
      PROVE  Stepped
  <2>1. Here <= Len(text)
    BY <1>1, <1>4, SinglesAre, InText
  <2>2. Here + 1 \in (Here + 1)..(Len(text) + 1)
    BY <1>1, <1>2, <2>1
  <2>3. s[2] \in PlainTypes
    BY PlainTypesAre
  <2> QED BY <1>4, <2>2, <2>3, EmitSteps
<1>5. \/ \E d \in Doubles :
           /\ Two(Here) = <<d[1], d[2]>>
           /\ Return(d[3], Here + 2, readTo(Start, Here + 1), readTo(Start, Here + 2))
           /\ errors' = errors
      \/ \E s \in Singles : Ch(Here) = s[1] /\ Emit(s[2], Here + 1)
  BY DEF OperatorToken
<1> QED BY <1>3, <1>4, <1>5

LEMMA CommentSteps ==
    ASSUME LexInv, ~ Finished, CommentToken
    PROVE  Stepped
<1>1. text \in Seq(Characters) /\ Len(text) \in Nat
  BY DEF LexInv
<1>2. Here \in Nat \ {0} /\ Here <= Len(text) + 1
  BY <1>1, StartIs
<1>3. "COMMENT" \in PlainTypes
  BY PlainTypesAre DEF LiteralTypes
<1>4. CASE Two(Here) = <<"-", "-">> /\ Emit("COMMENT", Ahead(Here, {"\n"}))
  <2>1. Ch(Here) \notin {"\n", NUL}
    BY <1>4 DEF Two, NUL
  <2>2. /\ Ahead(Here, {"\n"}) \in Here..(Len(text) + 1)
        /\ Ch(Ahead(Here, {"\n"})) \in {"\n"} \cup {NUL}
    BY <1>1, <1>2, AheadIs
  <2>3. Ahead(Here, {"\n"}) # Here
    BY <2>1, <2>2
  <2>4. Ahead(Here, {"\n"}) \in (Here + 1)..(Len(text) + 1)
    BY <1>1, <1>2, <2>2, <2>3
  <2> QED BY <1>3, <1>4, <2>4, EmitSteps
<1>5. CASE Two(Here) = <<"/", "*">> /\ Emit("COMMENT", readBlockComment(Here))
  <2>1. Ch(Here + 1) # NUL
    BY <1>5 DEF Two, NUL
  <2>2. Here + 1 <= Len(text)
    BY <1>1, <2>1, InText
  <2>3. Here \in Nat /\ Here + 2 <= Len(text) + 1
    BY <1>1, <1>2, <2>2
  <2>4. readBlockComment(Here) \in (Here + 2)..(Len(text) + 1)
    BY <1>1, <2>3, CommentEnds
  <2>5. readBlockComment(Here) \in (Here + 1)..(Len(text) + 1)
    BY <1>1, <1>2, <2>4
  <2> QED BY <1>3, <1>5, <2>5, EmitSteps
<1> QED BY <1>4, <1>5 DEF CommentToken

LEMMA QuotedSteps ==
    ASSUME LexInv, ~ Finished, QuotedToken
    PROVE  Stepped
<1>1. text \in Seq(Characters) /\ Len(text) \in Nat
  BY DEF LexInv
<1>2. Here \in Nat \ {0} /\ Here <= Len(text) + 1
  BY <1>1, StartIs
<1>3. "IDENT" \in PlainTypes /\ "STRING" \in PlainTypes /\ "NSTRING" \in PlainTypes
  BY PlainTypesAre DEF LiteralTypes
<1>4. ASSUME Ch(Here) # NUL
      PROVE  /\ Here \in Here..Len(text)
             /\ \A chars : Ahead(Here + 1, chars) \in (Here + 1)..(Len(text) + 1)
             /\ readString(Here) \in (Here + 1)..(Len(text) + 1)
  <2>1. Here <= Len(text)
    BY <1>1, <1>4, InText
  <2>2. Here + 1 \in Nat \ {0} /\ Here + 1 <= Len(text) + 1 /\ Here \in Nat
    BY <1>1, <1>2, <2>1
  <2> QED BY <1>1, <2>1, <2>2, AheadIs, StringEnds
<1>5. ASSUME Ch(Here + 1) # NUL
      PROVE  /\ Here + 1 \in Here..Len(text)
             /\ \A chars : Ahead(Here + 2, chars) \in (Here + 2)..(Len(text) + 1)
             /\ readString(Here + 1) \in (Here + 2)..(Len(text) + 1)
  <2>1. Here + 1 <= Len(text)
    BY <1>1, <1>5, InText
  <2>2. Here + 2 \in Nat \ {0} /\ Here + 2 <= Len(text) + 1 /\ Here + 1 \in Nat /\ (Here + 1) + 1 = Here + 2
    BY <1>1, <1>2, <2>1
  <2> QED BY <1>1, <1>2, <2>1, <2>2, AheadIs, StringEnds
<1>6. \/ Ch(Here) # NUL /\ \E chars : Literal("IDENT", Here, Ahead(Here + 1, chars))
      \/ Ch(Here) # NUL /\ Literal("STRING", Here, readString(Here))
      \/ Ch(Here + 1) # NUL /\ Literal("NSTRING", Here + 1, readString(Here + 1))
      \/ Ch(Here + 1) # NUL /\ \E chars : Literal("NSTRING", Here + 1, Ahead(Here + 2, chars))
  <2>1. "[" # NUL /\ "\"" # NUL /\ "'" # NUL
    BY Zenon DEF NUL
  <2>2. \A a, b : Two(Here) = <<a, b>> => Ch(Here + 1) = b
    BY DEF Two
  <2> QED BY <2>1, <2>2, Zenon DEF QuotedToken
<1>7. CASE Ch(Here) # NUL /\ \E chars : Literal("IDENT", Here, Ahead(Here + 1, chars))
  BY <1>3, <1>4, <1>7, LiteralSteps
<1>8. CASE Ch(Here) # NUL /\ Literal("STRING", Here, readString(Here))
  BY <1>3, <1>4, <1>8, LiteralSteps
<1>9. (Here + 1) + 1 = Here + 2
  BY <1>2
<1>10. CASE Ch(Here + 1) # NUL /\ Literal("NSTRING", Here + 1, readString(Here + 1))
  BY <1>3, <1>5, <1>9, <1>10, LiteralSteps
<1>11. CASE Ch(Here + 1) # NUL /\ \E chars : Literal("NSTRING", Here + 1, Ahead(Here + 2, chars))
  BY <1>3, <1>5, <1>9, <1>11, LiteralSteps
<1> QED BY <1>6, <1>7, <1>8, <1>10, <1>11

LEMMA NumberSteps ==
    ASSUME LexInv, ~ Finished, NumberToken
    PROVE  Stepped
<1>1. text \in Seq(Characters) /\ Len(text) \in Nat
  BY DEF LexInv
<1>2. Here \in Nat \ {0} /\ Here <= Len(text) + 1
  BY <1>1, StartIs
<1>3. {"FLOAT", "MONEY_LIT", "BINARY", "INT"} \subseteq PlainTypes
  BY PlainTypesAre DEF LiteralTypes
<1>4. NUL \notin Digits
  BY DEF NUL, Digits
<1>5. CASE Ch(Here) = "." /\ Ch(Here + 1) \in Digits /\ Emit("FLOAT", readFloatFromDot(Here))
  <2>1. Here + 1 <= Len(text) + 1 /\ Here + 1 \in Nat \ {0}
    BY <1>1, <1>2, <1>4, <1>5, InText
  <2>2. Behind(Here + 1, Digits) \in (Here + 1)..(Len(text) + 1)
    BY <1>1, <2>1, DigitsAre
  <2>3. Behind(Here + 1, Digits) \in Nat \ {0} /\ Behind(Here + 1, Digits) <= Len(text) + 1
    BY <1>1, <2>1, <2>2
  <2>4. Exponent(Behind(Here + 1, Digits)) \in Behind(Here + 1, Digits)..(Len(text) + 1)
    BY <1>1, <2>3, ExponentIs
  <2>5. readFloatFromDot(Here) \in (Here + 1)..(Len(text) + 1)
    BY <1>1, <2>1, <2>2, <2>4 DEF readFloatFromDot
  <2> QED BY <1>3, <1>5, <2>5, EmitSteps
<1>6. CASE Ch(Here) = "$" /\ Ch(Here + 1) \in Digits /\ Emit("MONEY_LIT", readMoneyLiteral(Here))
  <2> DEFINE units == Behind(Here + 1, MoneyDigits)
  <2>1. Here + 1 <= Len(text) + 1 /\ Here + 1 \in Nat \ {0}
    BY <1>1, <1>2, <1>4, <1>6, InText
  <2>2. units \in (Here + 1)..(Len(text) + 1)
    BY <1>1, <2>1, DigitsAre
  <2>3. readMoneyLiteral(Here) = IF Ch(units) = "." THEN Behind(units + 1, Digits) ELSE units
    BY Zenon DEF readMoneyLiteral
  <2> HIDE DEF units
  <2>4. CASE Ch(units) = "."
    <3>1. units <= Len(text)
      BY <1>1, <2>4, InText DEF NUL
    <3>2. units + 1 \in Nat \ {0} /\ units + 1 <= Len(text) + 1
      BY <1>1, <2>1, <2>2, <3>1
    <3>3. Behind(units + 1, Digits) \in (units + 1)..(Len(text) + 1)
      BY <1>1, <3>2, DigitsAre
    <3>4. readMoneyLiteral(Here) \in (Here + 1)..(Len(text) + 1)
      BY <1>1, <2>1, <2>2, <2>3, <2>4, <3>3
    <3> QED BY <1>3, <1>6, <3>4, EmitSteps
  <2>5. CASE Ch(units) # "."
    <3>1. readMoneyLiteral(Here) \in (Here + 1)..(Len(text) + 1)
      BY <2>2, <2>3, <2>5
    <3> QED BY <1>3, <1>6, <3>1, EmitSteps
  <2> QED BY <2>4, <2>5
<1>7. CASE Two(Here) = <<"0", "x">> /\ Emit("BINARY", Behind(Here + 2, HexDigits))
  <2>1. Ch(Here + 1) # NUL
    BY <1>7 DEF Two, NUL
  <2>2. Here + 1 <= Len(text)
    BY <1>1, <2>1, InText
  <2>3. Here + 2 \in Nat \ {0} /\ Here + 2 <= Len(text) + 1
    BY <1>1, <1>2, <2>2
  <2>4. Behind(Here + 2, HexDigits) \in (Here + 2)..(Len(text) + 1)
    BY <1>1, <2>3, DigitsAre
  <2>5. Behind(Here + 2, HexDigits) \in (Here + 1)..(Len(text) + 1)
    BY <1>1, <1>2, <2>4
  <2> QED BY <1>3, <1>7, <2>5, EmitSteps
<1>8. CASE /\ Ch(Here) \in Digits
           /\ Emit(IF readNumber(Here) = Behind(Here, Digits) THEN "INT" ELSE "FLOAT", readNumber(Here))
  <2> DEFINE whole == Behind(Here, Digits)
             type == IF readNumber(Here) = whole THEN "INT" ELSE "FLOAT"
  <2>1. whole \in Here..(Len(text) + 1) /\ whole > Here
    BY <1>1, <1>2, <1>8, DigitsAre
  <2>2. whole \in Nat \ {0} /\ whole <= Len(text) + 1
    BY <1>1, <1>2, <2>1
  <2>3. Fraction(whole) \in whole..(Len(text) + 1)
    BY <1>1, <2>2, FractionIs
  <2>4. Fraction(whole) \in Nat \ {0} /\ Fraction(whole) <= Len(text) + 1
    BY <1>1, <2>2, <2>3
  <2>5. Exponent(Fraction(whole)) \in Fraction(whole)..(Len(text) + 1)
    BY <1>1, <2>4, ExponentIs
  <2>6. readNumber(Here) = Exponent(Fraction(whole))
    BY DEF readNumber
  <2>7. type \in PlainTypes /\ Emit(type, readNumber(Here))
    BY <1>3, <1>8
  <2> HIDE DEF whole, type
  <2>8. readNumber(Here) \in (Here + 1)..(Len(text) + 1)
    BY <1>1, <1>2, <2>1, <2>2, <2>3, <2>4, <2>5, <2>6
  <2> QED BY <2>7, <2>8, EmitSteps
<1>9. NumberToken => \/ Ch(Here) = "." /\ Ch(Here + 1) \in Digits /\ Emit("FLOAT", readFloatFromDot(Here))
                     \/ Ch(Here) = "$" /\ Ch(Here + 1) \in Digits /\ Emit("MONEY_LIT", readMoneyLiteral(Here))
                     \/ Two(Here) = <<"0", "x">> /\ Emit("BINARY", Behind(Here + 2, HexDigits))
                     \/ /\ Ch(Here) \in Digits
                        /\ Emit(IF readNumber(Here) = Behind(Here, Digits) THEN "INT" ELSE "FLOAT",
                                readNumber(Here))
  BY Zenon DEF NumberToken
<1> QED BY <1>5, <1>6, <1>7, <1>8, <1>9

LEMMA NameSteps ==
    ASSUME LexInv, ~ Finished, NameToken
    PROVE  Stepped
<1>1. text \in Seq(Characters) /\ Len(text) \in Nat
  BY DEF LexInv
<1>2. Here \in Nat \ {0} /\ Here <= Len(text) + 1
  BY <1>1, StartIs
<1>3. {"TEMPVAR", "VARIABLE", "SYSVAR", "IDENT"} \subseteq PlainTypes
  BY PlainTypesAre DEF LiteralTypes
<1>4. CASE Two(Here) = <<"@", "@">> /\ Emit("TEMPVAR", readIdentifier(Here + 2))
  <2>1. Ch(Here + 1) # NUL
    BY <1>4 DEF Two, NUL
  <2>2. Here + 1 <= Len(text)
    BY <1>1, <2>1, InText
  <2>3. Here + 2 \in Nat \ {0} /\ Here + 2 <= Len(text) + 1
    BY <1>1, <1>2, <2>2
  <2>4. readIdentifier(Here + 2) \in (Here + 2)..(Len(text) + 1)
    BY <1>1, <2>3, IdentifierIs
  <2>5. readIdentifier(Here + 2) \in (Here + 1)..(Len(text) + 1)
    BY <1>1, <1>2, <2>4
  <2> QED BY <1>3, <1>4, <2>5, EmitSteps
<1>5. ASSUME Ch(Here) # NUL PROVE readIdentifier(Here + 1) \in (Here + 1)..(Len(text) + 1)
  <2>1. Here <= Len(text)
    BY <1>1, <1>5, InText
  <2>2. Here + 1 \in Nat \ {0} /\ Here + 1 <= Len(text) + 1
    BY <1>1, <1>2, <2>1
  <2> QED BY <1>1, <2>2, IdentifierIs
<1>6. CASE Ch(Here) = "@" /\ Emit("VARIABLE", readIdentifier(Here + 1))
  <2>1. Ch(Here) # NUL
    BY <1>6 DEF NUL
  <2> QED BY <1>3, <1>5, <1>6, <2>1, EmitSteps
<1>7. CASE Ch(Here) = "$" /\ Emit("SYSVAR", readIdentifier(Here + 1))
  <2>1. Ch(Here) # NUL
    BY <1>7 DEF NUL
  <2> QED BY <1>3, <1>5, <1>7, <2>1, EmitSteps
<1>8. CASE Ch(Here) = "#" /\ Emit("IDENT", readIdentifier(Here))
  <2>1. readIdentifier(Here) \in Here..(Len(text) + 1) /\ readIdentifier(Here) > Here
    BY <1>1, <1>2, <1>8, IdentifierIs
  <2>2. readIdentifier(Here) \in (Here + 1)..(Len(text) + 1)
    BY <1>1, <1>2, <2>1
  <2> QED BY <1>3, <1>8, <2>2, EmitSteps
<1> QED BY <1>4, <1>6, <1>7, <1>8 DEF NameToken

(* A word, or the compound keyword it begins.                              *)
LEMMA WordSteps ==
    ASSUME LexInv, ~ Finished, WordToken
    PROVE  Stepped
<1>1. text \in Seq(Characters) /\ Len(text) \in Nat
  BY DEF LexInv
<1>2. Here \in Nat \ {0} /\ Here <= Len(text) + 1
  BY <1>1, StartIs
<1> DEFINE p == readIdentifier(Here)
           found == checkCompoundKeyword(LookupIdent(Here, p), readTo(Start, p))
<1>3. Ch(Here) \in Letters /\ Return(found.type, found.end, Start, found.cursor) /\ errors' = errors
  BY DEF WordToken
<1>4. p \in Here..(Len(text) + 1) /\ p > Here
  BY <1>1, <1>2, <1>3, IdentifierIs
<1>5. p \in Nat \ {0} /\ p <= Len(text) + 1
  BY <1>1, <1>2, <1>4
<1>6. LookupIdent(Here, p) \in Keywords \cup {"IDENT"}
  BY DEF LookupIdent
<1>7. readTo(Start, p) = CursorAt(p)
  BY <1>4, <1>5, BehindStart
<1>8. Compound(found, p)
  BY <1>1, <1>5, <1>6, <1>7, CompoundIs
<1> HIDE DEF p, found
<1>9. PICK type \in WordTypes, end \in p..(Len(text) + 1) : \E q \in end..(Len(text) + 1) :
          /\ found = Found(type, end, CursorAt(q))
          /\ \A i \in end..(q - 1) : Ch(i) \in Blanks
  BY <1>8 DEF Compound
<1>10. PICK q \in end..(Len(text) + 1) : /\ found = Found(type, end, CursorAt(q))
                                         /\ \A i \in end..(q - 1) : Ch(i) \in Blanks
  BY <1>9
<1>11. found.type = type /\ found.end = end /\ found.cursor = CursorAt(q)
  BY <1>10 DEF Found
<1>12. /\ end \in Nat /\ q \in Nat /\ Here < end /\ Here <= end /\ end <= q /\ Here < q
       /\ q <= Len(text) + 1
  BY <1>1, <1>2, <1>4, <1>5
<1>13. Reading(type, end, Start, q)
  <2>1. type \notin DoubleTypes /\ type # "EOF"
    BY PlainTypesAre DEF WordTypes, LiteralTypes, PlainTypes
  <2> QED BY <1>10, <1>12, <2>1, StartPlace DEF Reading
<1>14. errors' \in Seq(Places) /\ type \in Types
  BY <1>3, PlainTypesAre DEF LexInv, WordTypes, LiteralTypes, PlainTypes
<1>15. Return(type, end, Start, CursorAt(q))
  BY <1>3, <1>11
<1>16. end \in Nat /\ q \in Nat \ {0}
  BY <1>2, <1>12
<1> QED BY <1>13, <1>14, <1>15, <1>16, StepsTo

LEMMA EOFSteps ==
    ASSUME LexInv, ~ Finished, EOFToken
    PROVE  Stepped
<1>1. Here \in Nat \ {0} /\ Here <= Len(text) + 1 /\ Len(text) \in Nat
      /\ Start = CursorAt(Here) /\ text \in Seq(Characters)
  BY StartIs DEF LexInv
<1>2. /\ Ch(Here) = NUL
      /\ Return("EOF", Here, Start, readChar(Start))
      /\ errors' = errors
  BY DEF EOFToken
<1> DEFINE c == readChar(Start)
<1>3. c \in Cursors /\ c.position \in {Here, Here + 1} /\ c.position <= Len(text) + 1
  <2>1. CursorAt(Here).position = Here
        /\ CursorAt(Here) \in [position : Nat, line : Nat \ {0}, column : Nat]
    BY <1>1, CursorIs
  <2>2. CASE Here \in DOMAIN text
    <3>1. Here + 1 \in Nat \ {0} /\ Here <= Here + 1 /\ Here + 1 <= Len(text) + 1
      BY <1>1, <2>2
    <3>2. c = CursorAt(Here + 1)
      BY <1>1, <2>1, <2>2, <3>1, BehindStart DEF readChar
    <3>3. CursorAt(Here + 1).position = Here + 1
          /\ CursorAt(Here + 1) \in [position : Nat, line : Nat \ {0}, column : Nat]
      BY <3>1, CursorIs
    <3> HIDE DEF c
    <3> QED BY <3>1, <3>2, <3>3 DEF Cursors
  <2>3. CASE Here \notin DOMAIN text
    <3>1. c = [CursorAt(Here) EXCEPT !.column = @ + 1]
      BY <1>1, <2>1, <2>3 DEF readChar
    <3> HIDE DEF c
    <3> QED BY <1>1, <2>1, <3>1 DEF Cursors
  <2> QED BY <2>2, <2>3
<1> HIDE DEF c
<1>4. Here <= Here /\ Here <= c.position
  BY <1>1, <1>3
<1>5. \A i \in Here..(c.position - 1) : Ch(i) \in Blanks \cup {NUL}
  BY <1>1, <1>2, <1>3
<1>6. Reading("EOF", Here, Start, c.position)
  BY <1>3, <1>4, <1>5, StartPlace, DoubleTypesAre DEF Reading
<1>7. errors' \in Seq(Places)
  BY <1>2 DEF LexInv
<1>8. "EOF" \in Types
  BY DoubleTypesAre
<1>9. Return("EOF", Here, Start, c)
  BY <1>2 DEF c
<1> QED BY <1>1, <1>3, <1>6, <1>7, <1>8, <1>9 DEF Stepped

LEMMA NextSteps ==
    ASSUME LexInv, NextToken
    PROVE  Stepped
<1>1. ASSUME NEW type, NEW end, NEW place, NEW c, Return(type, end, place, c)
      PROVE  ~ Finished
  BY <1>1 DEF Return
<1>2. ~ Finished
  BY <1>1, Zenon DEF NextToken, OperatorToken, CommentToken, QuotedToken, NumberToken, NameToken, WordToken,
                     EOFToken, Literal, Emit, Return
<1> QED BY <1>2, OperatorSteps, CommentSteps, QuotedSteps, NumberSteps, NameSteps, WordSteps, EOFSteps
        DEF NextToken
-----------------------------------------------------------------------------
(* The invariant.                                                          *)
LEMMA InitLexInv == Init => LexInv
<1> SUFFICES ASSUME Init PROVE LexInv
  OBVIOUS
<1>1. text \in Seq(Characters) /\ Len(text) \in Nat /\ tokens = <<>> /\ errors = <<>>
  BY TextsAssumption DEF Init
<1>2. CursorAt(0) = [position |-> 0, line |-> 1, column |-> 0]
  <2>1. NewlinesTo(0) = {}
    BY DEF NewlinesTo
  <2>2. Cardinality(NewlinesTo(0)) = 0 /\ LastOf(NewlinesTo(0)) = 0
    BY <2>1, FS_EmptySet DEF LastOf
  <2> QED BY <2>2 DEF CursorAt
<1>3. cursor = CursorAt(1)
  <2>1. cursor = readTo(CursorAt(0), 1)
    BY <1>2 DEF Init
  <2> QED BY <2>1, ReadToIs
<1>4. cursor.position = 1 /\ cursor \in Cursors /\ 1 <= Len(text) + 1
  <2>1. CursorAt(1).position = 1 /\ CursorAt(1) \in [position : Nat, line : Nat \ {0}, column : Nat]
    BY CursorIs
  <2>2. CursorAt(1) \in Cursors
    BY <2>1 DEF Cursors
  <2> QED BY <1>1, <1>3, <2>1, <2>2
<1>5. cursor = CursorIn(text, cursor.position)
  BY <1>3, <1>4, InThisText
<1>6. \A i \in DOMAIN text : ~ (i < 1)
  BY <1>1
<1>7. Covered(text, tokens, cursor.position)
  BY <1>4, <1>6 DEF Covered
<1>8. Placed(text, tokens) /\ tokens \in Seq(Tokens) /\ errors \in Seq(Places)
  BY <1>1 DEF Placed
<1> QED BY <1>1, <1>4, <1>5, <1>7, <1>8 DEF LexInv

LEMMA StepLexInv ==
    ASSUME LexInv, Stepped
    PROVE  /\ LexInv'
           /\ cursor'.position > tokens'[Len(tokens')].to
           /\ cursor'.position >= cursor.position
           /\ ~ Finished' => cursor'.position > cursor.position
<1>1. PICK type \in Types, end \in Nat, c \in Cursors : \E place :
          /\ Reading(type, end, place, c.position)
          /\ Return(type, end, place, c)
          /\ type # "EOF" => c = CursorAt(c.position)
          /\ errors' \in Seq(Places)
  BY DEF Stepped
<1>2. PICK place : /\ Reading(type, end, place, c.position)
                   /\ Return(type, end, place, c)
                   /\ type # "EOF" => c = CursorAt(c.position)
                   /\ errors' \in Seq(Places)
  BY <1>1
<1> DEFINE p == cursor.position
           q == c.position
           new == Token(type, end, place)
           n == Len(tokens) + 1
<1>3. /\ ~ Finished /\ text' = text /\ cursor' = c /\ tokens' = Append(tokens, new)
      /\ type # "EOF" => c = CursorAt(q)
  BY <1>2 DEF Return
<1>30. q \in Nat \ {0} /\ Reading(type, end, place, q)
  BY <1>2 DEF Cursors
<1> HIDE DEF q
<1>4. /\ text \in Seq(Characters) /\ p \in Nat \ {0} /\ p <= Len(text) + 1 /\ Len(text) \in Nat
      /\ tokens \in Seq(Tokens) /\ Len(tokens) \in Nat
      /\ \A t \in DOMAIN tokens : tokens[t].to < p
      /\ Covered(text, tokens, p) /\ Placed(text, tokens)
  BY <1>3, InThisText DEF LexInv, Cursors
<1>5. /\ Here \in p..(Len(text) + 1) /\ Here \in Nat \ {0}
      /\ \A i \in p..(Here - 1) : Ch(i) \in Blanks
  BY <1>3, StartIs
<1>6. /\ Here <= end /\ end <= q /\ q \in Nat \ {0} /\ p <= q /\ q <= Len(text) + 1
      /\ type # "EOF" => p < q
      /\ \A i \in end..(q - 1) : Ch(i) \in Blanks \cup {NUL}
  BY <1>30, <1>4, <1>5 DEF Reading
<1>7. end - 1 \in Nat
  BY <1>5, <1>6
<1> DEFINE at == IF type \in DoubleTypes THEN end - 1 ELSE Here
<1>8. place.line = PlaceIn(text, at).line /\ place.column = PlaceIn(text, at).column
  BY <1>30, InThisText DEF Reading
<1>9. new.from = Here /\ new.to = end - 1 /\ new.type = type /\ new.line = place.line /\ new.column = place.column
  BY DEF Token
<1>10. new \in Tokens
  <2>1. at \in Nat \ {0}
    <3>1. CASE type \in DoubleTypes
      <4>1. Here < end
        BY <1>30, <3>1, DoubleTypesAre DEF Reading
      <4> QED BY <1>5, <3>1, <4>1
    <3>2. CASE type \notin DoubleTypes
      BY <1>5, <3>2
    <3> QED BY <3>1, <3>2
  <2> HIDE DEF at
  <2>2. PlaceIn(text, at) \in [line : Nat \ {0}, column : Nat]
    BY <2>1, PlaceIs, InThisText
  <2>3. place.line \in Nat \ {0} /\ place.column \in Nat
    BY <1>8, <2>2
  <2> QED BY <1>5, <1>7, <2>3 DEF Tokens, Token
<1> HIDE DEF new
<1>11. /\ tokens' \in Seq(Tokens) /\ Len(tokens') = n /\ DOMAIN tokens' = 1..n
       /\ \A t \in 1..Len(tokens) : tokens'[t] = tokens[t]
       /\ tokens'[n] = new
       /\ DOMAIN tokens = 1..Len(tokens)
  BY <1>3, <1>4, <1>10
<1>12. cursor'.position = q /\ cursor' \in Cursors
  BY <1>3 DEF q
<1>13. type # "EOF" => cursor' = CursorIn(text', cursor'.position)
  BY <1>3, <1>12, InThisText
<1>14. ~ Ended(tokens') => type # "EOF"
  <2>1. ASSUME type = "EOF" PROVE Ended(tokens')
    <3>1. tokens' # <<>>
      BY <1>4, <1>11
    <3> QED BY <1>9, <1>11, <2>1, <3>1 DEF Ended
  <2> QED BY <2>1
<1>15. \A t \in DOMAIN tokens' : tokens'[t].to < q
  <2>1. ASSUME NEW t \in 1..n PROVE tokens'[t].to < q
    <3>1. CASE t = n
      BY <1>6, <1>9, <1>11, <3>1
    <3>2. CASE t # n
      <4>1. t \in 1..Len(tokens)
        BY <1>4, <3>2
      <4>2. tokens[t] \in Tokens /\ tokens'[t] = tokens[t] /\ tokens[t].to < p
        BY <1>4, <1>11, <4>1
      <4>3. tokens[t].to \in Nat
        BY <4>2 DEF Tokens
      <4> QED BY <1>4, <1>6, <4>2, <4>3
    <3> QED BY <3>1, <3>2
  <2> QED BY <1>11, <2>1
<1>16. Covered(text, tokens', q)
  <2> SUFFICES ASSUME NEW i \in DOMAIN text, i < q, CharIn(text, i) \notin Blanks \cup {NUL}
               PROVE  \E t \in DOMAIN tokens' : \A u \in DOMAIN tokens' : Covers(tokens'[u], i) <=> u = t
    BY DEF Covered
  <2>1. i \in Nat /\ Ch(i) \notin Blanks \cup {NUL}
    BY <1>4, InThisText
  <2>2. CASE i < p
    <3>1. PICK t \in DOMAIN tokens : \A u \in DOMAIN tokens : Covers(tokens[u], i) <=> u = t
      BY <1>4, <2>2 DEF Covered
    <3>2. ~ Covers(new, i)
      BY <1>4, <1>5, <1>9, <2>1, <2>2 DEF Covers
    <3>3. t \in 1..Len(tokens) /\ t # n /\ t \in 1..n
      BY <1>4, <1>11
    <3>4. ASSUME NEW u \in 1..n PROVE Covers(tokens'[u], i) <=> u = t
      <4>1. CASE u = n
        BY <1>11, <3>2, <3>3, <4>1
      <4>2. CASE u # n
        <5>1. u \in 1..Len(tokens)
          BY <1>4, <4>2
        <5> QED BY <1>11, <3>1, <5>1
      <4> QED BY <4>1, <4>2
    <3> QED BY <1>11, <3>3, <3>4
  <2>3. CASE i >= p
    <3>1. Here <= i
      <4>1. ASSUME i < Here PROVE FALSE
        <5>1. i \in p..(Here - 1)
          BY <1>4, <1>5, <2>1, <2>3, <4>1
        <5> QED BY <1>5, <2>1, <5>1
      <4> QED BY <1>5, <2>1, <4>1
    <3>2. i <= end - 1
      <4>1. ASSUME end <= i PROVE FALSE
        <5>1. i \in end..(q - 1)
          BY <1>30, <2>1, <4>1
        <5> QED BY <1>6, <2>1, <5>1
      <4> QED BY <2>1, <4>1
    <3>3. Covers(new, i)
      BY <1>9, <3>1, <3>2 DEF Covers
    <3>4. ASSUME NEW u \in 1..n PROVE Covers(tokens'[u], i) <=> u = n
      <4>1. CASE u = n
        BY <1>11, <3>3, <4>1
      <4>2. CASE u # n
        <5>1. u \in 1..Len(tokens)
          BY <1>4, <4>2
        <5>2. tokens[u] \in Tokens /\ tokens'[u] = tokens[u] /\ tokens[u].to < p
          BY <1>4, <1>11, <5>1
        <5>3. tokens[u].to \in Nat
          BY <5>2 DEF Tokens
        <5>4. ~ Covers(tokens[u], i)
          BY <1>4, <2>1, <2>3, <5>2, <5>3 DEF Covers
        <5> QED BY <4>2, <5>2, <5>4
      <4> QED BY <4>1, <4>2
    <3>5. n \in 1..n
      BY <1>4
    <3> QED BY <1>11, <3>4, <3>5
  <2> QED BY <1>4, <2>1, <2>2, <2>3
<1>17. Placed(text, tokens')
  <2> DEFINE Known(s, t) == PlaceIn(text, IF s[t].type \in DoubleTypes THEN s[t].to ELSE s[t].from)
  <2>1. ASSUME NEW t \in 1..n
        PROVE  tokens'[t].line = Known(tokens', t).line /\ tokens'[t].column = Known(tokens', t).column
    <3>1. CASE t = n
      <4>1. Known(tokens', n) = PlaceIn(text, at)
        BY <1>9, <1>11
      <4> HIDE DEF Known, at
      <4> QED BY <1>8, <1>9, <1>11, <3>1, <4>1
    <3>2. CASE t # n
      <4>1. t \in 1..Len(tokens)
        BY <1>4, <3>2
      <4>2. tokens'[t] = tokens[t]
        BY <1>11, <4>1
      <4>3. tokens[t].line = Known(tokens, t).line /\ tokens[t].column = Known(tokens, t).column
        BY <1>4, <1>11, <4>1 DEF Placed
      <4>4. Known(tokens', t) = Known(tokens, t)
        BY <4>2
      <4> HIDE DEF Known
      <4> QED BY <4>2, <4>3, <4>4
    <3> QED BY <3>1, <3>2
  <2> QED BY <1>11, <2>1 DEF Placed
<1>18. LexInv'
  BY <1>2, <1>3, <1>4, <1>6, <1>11, <1>12, <1>13, <1>14, <1>15, <1>16, <1>17 DEF LexInv
<1>19. q > tokens'[Len(tokens')].to
  BY <1>6, <1>9, <1>11
<1>20. q >= p /\ (type # "EOF" => q > p)
  BY <1>4, <1>6
<1>21. ~ Finished' => type # "EOF"
  BY <1>14 DEF Finished, Ended
<1> QED BY <1>12, <1>18, <1>19, <1>20, <1>21

LEMMA NextLexInv == LexInv /\ [Next]_vars => LexInv'
<1> SUFFICES ASSUME LexInv, [Next]_vars PROVE LexInv'
  OBVIOUS
<1>1. CASE NextToken
  BY <1>1, NextSteps, StepLexInv
<1>2. CASE UNCHANGED vars
  BY <1>2 DEF vars, LexInv
<1> QED BY <1>1, <1>2 DEF Next

(* At every moment before EOF the cursor stands where counting would put   *)
(* it, and the tokens are what lies in front of it.                        *)
THEOREM CursorIsCounted == Spec => []LexInv
<1> QED BY InitLexInv, NextLexInv, PTL DEF Spec

LEMMA LexInvTyped == LexInv => LexerTypeOK
<1> SUFFICES ASSUME LexInv PROVE LexerTypeOK
  OBVIOUS
<1>3. cursor \in [position : Nat \ {0}, line : Nat \ {0}, column : Nat]
  BY DEF LexInv, Cursors
<1>4. Tokens \subseteq [type : Types, from : Nat, to : Nat, line : Nat, column : Nat]
  BY DEF Tokens
<1>5. tokens \in Seq([type : Types, from : Nat, to : Nat, line : Nat, column : Nat])
  <2>1. tokens \in Seq(Tokens)
    BY DEF LexInv
  <2> DEFINE R == [type : Types, from : Nat, to : Nat, line : Nat, column : Nat]
  <2> HIDE DEF R
  <2>2. Tokens \subseteq R
    BY <1>4 DEF R
  <2>3. tokens \in Seq(R)
    BY <2>1, <2>2
  <2> QED BY <2>3 DEF R
<1> QED BY <1>3, <1>5 DEF LexInv, LexerTypeOK

(* Type correctness of the lexer's state.                                  *)
THEOREM LexerTyped == Spec => []LexerTypeOK
<1> QED BY CursorIsCounted, LexInvTyped, PTL

LEMMA CoveredOnce == LexInv => NothingLost
<1> DEFINE holders(i) == {t \in DOMAIN tokens : i \in Held(tokens[t])}
           lost(i) == \E t \in DOMAIN tokens : i \in Dropped(tokens[t])
<1> SUFFICES ASSUME LexInv, NEW i \in DOMAIN text,
                    i < cursor.position, Ch(i) \notin Blanks \cup {NUL}
             PROVE  IF lost(i) THEN holders(i) = {} ELSE Cardinality(holders(i)) = 1
  BY DEF NothingLost
<1>1. PICK t \in DOMAIN tokens : \A u \in DOMAIN tokens : Covers(tokens[u], i) <=> u = t
  BY InThisText DEF LexInv, Covered
<1>2. ASSUME NEW u \in DOMAIN tokens
      PROVE  /\ i \in Held(tokens[u]) <=> (u = t /\ i \notin Dropped(tokens[u]))
             /\ i \in Dropped(tokens[u]) => u = t
  <2>1. tokens[u] \in Tokens /\ i \in Nat
    BY DEF LexInv
  <2>2. tokens[u].from \in Nat /\ tokens[u].to \in Nat
    BY <2>1 DEF Tokens
  <2>3. i \in tokens[u].from..tokens[u].to <=> u = t
    BY <1>1, <2>1, <2>2 DEF Covers
  <2>4. i \in Dropped(tokens[u]) => i \in tokens[u].from..tokens[u].to
    BY <2>1, <2>2 DEF Dropped
  <2> QED BY <2>3, <2>4 DEF Held
<1>3. CASE lost(i)
  BY <1>2, <1>3
<1>4. CASE ~ lost(i)
  <2>1. holders(i) = {t}
    BY <1>2, <1>4
  <2> QED BY <1>4, <2>1, FS_Singleton
<1> QED BY <1>3, <1>4

(* Every character the lexer has gone through is white space or is held by *)
(* exactly one token (NextToken, and the lookahead for compound keywords   *)
(* of checkCompoundKeyword, that restores the position), except the name   *)
(* that WITH_PARTITIONS drops, which no token holds.                       *)
THEOREM EveryCharacterIsInOneToken == Spec => []NothingLost
<1> QED BY CursorIsCounted, CoveredOnce, PTL

LEMMA PlacedTrue == LexInv => PlacesAreTrue
<1> SUFFICES ASSUME LexInv, NEW t \in DOMAIN tokens
             PROVE  LET token == tokens[t]
                        place == IF token.type \in DoubleTypes THEN token.to ELSE token.from
                    IN  token.line = LineOf(place) /\ token.column = place - LastNewline(place)
  BY DEF PlacesAreTrue
<1> DEFINE place == IF tokens[t].type \in DoubleTypes THEN tokens[t].to ELSE tokens[t].from
<1>1. tokens[t].line = PlaceOf(place).line /\ tokens[t].column = PlaceOf(place).column
  BY InThisText DEF LexInv, Placed
<1> HIDE DEF place
<1>2. PlaceOf(place).line = LineOf(place)
  BY DEF PlaceOf, LineOf, NewlinesTo
<1>3. PlaceOf(place).column = place - LastNewline(place)
  BY DEF PlaceOf, LastNewline, LastOf, NewlinesTo
<1> QED BY <1>1, <1>2, <1>3 DEF place

(* The line and the column of every token are where it stands in the text: *)
(* readChar's counters and the lookahead's save and restore agree.         *)
THEOREM TokensAreWhereTheySay == Spec => []PlacesAreTrue
<1> QED BY CursorIsCounted, PlacedTrue, PTL

(* A call of NextToken that does not return EOF ends further on than the   *)
(* one before it, and none returns to what has been read.                  *)
THEOREM EveryCallAdvances == Spec => Advances
<1> DEFINE Further == /\ cursor'.position > tokens'[Len(tokens')].to
                      /\ cursor'.position >= cursor.position
                      /\ ~ Finished' => cursor'.position > cursor.position
<1>1. LexInv /\ [Next]_vars => [Further]_vars
  <2> SUFFICES ASSUME LexInv, Next, ~ UNCHANGED vars PROVE Further
    OBVIOUS
  <2>1. NextToken
    BY DEF Next
  <2> QED BY <2>1, NextSteps, StepLexInv
<1> QED BY <1>1, CursorIsCounted, PTL DEF Spec, Advances

-----------------------------------------------------------------------------
(* Literals that are not closed.  An even number of quotes is pairs of      *)
(* them; the string ends with one that is not part of a pair.              *)
OpeningIn(x, token) == CharIn(x, Opening(token))
ClosedIn(x, token) ==
    CASE OpeningIn(x, token) = "["  -> CharIn(x, token.to) = "]"
      [] OpeningIn(x, token) = "\"" ->
            Cardinality({i \in token.from..token.to : CharIn(x, i) = "\""}) = 2
      [] OTHER -> /\ Cardinality({i \in token.from..token.to : CharIn(x, i) = "'"}) % 2 = 0
                  /\ CharIn(x, token.to + 1) # "'"
LiteralIn(x, token) == token.type \in {"STRING", "NSTRING"} \/ CharIn(x, token.from) \in {"[", "\""}
OpenIn(x, token)    == LiteralIn(x, token) /\ ~ ClosedIn(x, token)
Named(x, token, e)  == CharIn(x, Opening(token) + 1) # "\n" => e = PlaceIn(x, Opening(token))

(* An open literal is the last token but EOF, and the cursor is on the NUL  *)
(* that ends it: the next call returns EOF and there is no second one.     *)
UnclosedInv ==
    \/ errors = <<>> /\ \A t \in DOMAIN tokens : ~ OpenIn(text, tokens[t])
    \/ \E t \in DOMAIN tokens :
          /\ \A u \in DOMAIN tokens : OpenIn(text, tokens[u]) <=> u = t
          /\ Len(errors) = 1
          /\ CharIn(text, tokens[t].to + 1) = NUL
          /\ Named(text, tokens[t], errors[1])
          /\ ~ Ended(tokens) => cursor.position = tokens[t].to + 1

EvenQuotes(j, k) == LET quotes == {m \in j..k : Ch(m) = "'"} IN
                    IsFiniteSet(quotes) /\ \E n \in Nat : Cardinality(quotes) = 2 * n

LEMMA NoQuotes ==
    ASSUME NEW j \in Nat PROVE EvenQuotes(j, j - 1)
<1>1. {m \in j..(j - 1) : Ch(m) = "'"} = {}
  OBVIOUS
<1>2. IsFiniteSet({}) /\ Cardinality({}) = 0
  BY FS_EmptySet
<1>3. 0 \in Nat /\ 0 = 2 * 0
  OBVIOUS
<1> QED BY <1>1, <1>2, <1>3 DEF EvenQuotes

LEMMA NoQuoteMore ==
    ASSUME NEW j \in Nat, NEW k \in Nat, Ch(j) # "'", EvenQuotes(j + 1, k)
    PROVE  EvenQuotes(j, k)
<1>1. {m \in j..k : Ch(m) = "'"} = {m \in (j + 1)..k : Ch(m) = "'"}
  OBVIOUS
<1> QED BY <1>1 DEF EvenQuotes

LEMMA TwoQuotesMore ==
    ASSUME NEW j \in Nat, NEW k \in Nat, j + 1 <= k, Two(j) = <<"'", "'">>, EvenQuotes(j + 2, k)
    PROVE  EvenQuotes(j, k)
<1> DEFINE Rest == {m \in (j + 2)..k : Ch(m) = "'"}
           All  == {m \in j..k : Ch(m) = "'"}
<1>1. Ch(j) = "'" /\ Ch(j + 1) = "'"
  BY DEF Two
<1>2. All = (Rest \cup {j + 1}) \cup {j}
  BY <1>1
<1>3. j + 1 \notin Rest /\ j \notin Rest \cup {j + 1}
  OBVIOUS
<1>4. PICK n \in Nat : Cardinality(Rest) = 2 * n
  BY DEF EvenQuotes
<1>5. IsFiniteSet(Rest)
  BY DEF EvenQuotes
<1> HIDE DEF Rest, All
<1>6. IsFiniteSet(Rest \cup {j + 1}) /\ Cardinality(Rest \cup {j + 1}) = Cardinality(Rest) + 1
  BY <1>3, <1>5, FS_AddElement
<1>7. IsFiniteSet(All) /\ Cardinality(All) = Cardinality(Rest \cup {j + 1}) + 1
  BY <1>2, <1>3, <1>6, FS_AddElement
<1>8. Cardinality(All) = 2 * (n + 1) /\ n + 1 \in Nat
  BY <1>4, <1>6, <1>7
<1> QED BY <1>7, <1>8 DEF EvenQuotes, All

(* Where a string stops there is a quote that is not doubled, or NUL.      *)
LEMMA StringStops ==
    ASSUME text \in Seq(Characters), NEW i \in Nat, i <= Len(text)
    PROVE  /\ EvenQuotes(i + 1, readString(i) - 1)
           /\ Ch(readString(i)) \in {"'", NUL}
           /\ Two(readString(i)) # <<"'", "'">>
<1> DEFINE N == Len(text) + 1
<1>1. N \in Nat
  OBVIOUS
<1>2. PICK g : g = [j \in Nat |-> StringFrom(g, j)]
  BY StringEndExists
<1>3. PICK f : f = [j \in Nat |-> StringFrom(f, j)] /\ readString(i) = f[i + 1]
  BY <1>2, Zenon DEF readString, StringFrom
<1> DEFINE Stops(j) == /\ f[j] \in j..N /\ EvenQuotes(j, f[j] - 1)
                       /\ Ch(f[j]) \in {"'", NUL} /\ Two(f[j]) # <<"'", "'">>
           S == {j \in 0..N : Stops(j)}
<1>4. ASSUME NEW m \in 0..N, \A k \in (m + 1)..N : k \in S PROVE m \in S
  <2>1. f[m] = StringFrom(f, m) /\ m \in Nat
    BY <1>3
  <2>2. CASE Two(m) = <<"'", "'">>
    <3>1. m + 2 \in (m + 1)..N
      BY <1>1, <2>2, QuotesInText
    <3>2. Stops(m + 2)
      BY <1>4, <3>1
    <3>3. f[m] = f[m + 2]
      BY <2>1, <2>2, StringFromIs
    <3>4. f[m + 2] \in Nat /\ f[m + 2] - 1 \in Nat /\ m + 1 <= f[m + 2] - 1 /\ f[m + 2] \in m..N
      BY <1>1, <2>1, <3>2
    <3>5. EvenQuotes(m, f[m + 2] - 1)
      BY <2>1, <2>2, <3>2, <3>4, TwoQuotesMore
    <3> QED BY <3>2, <3>3, <3>4, <3>5
  <2>3. CASE Two(m) # <<"'", "'">> /\ Ch(m) \in {"'", NUL}
    <3>1. f[m] = m
      BY <2>1, <2>3, StringFromIs
    <3>2. EvenQuotes(m, m - 1)
      BY <2>1, NoQuotes
    <3>3. m \in m..N
      BY <1>1
    <3> QED BY <2>3, <3>1, <3>2, <3>3
  <2>4. CASE Two(m) # <<"'", "'">> /\ Ch(m) \notin {"'", NUL}
    <3>1. m + 1 \in (m + 1)..N
      BY <1>1, <2>4, QuotesInText
    <3>2. Stops(m + 1)
      BY <1>4, <3>1
    <3>3. f[m] = f[m + 1]
      BY <2>1, <2>4, StringFromIs
    <3>4. f[m + 1] - 1 \in Nat /\ f[m + 1] \in m..N
      BY <1>1, <2>1, <3>2
    <3>5. EvenQuotes(m, f[m + 1] - 1)
      BY <2>1, <2>4, <3>2, <3>4, NoQuoteMore
    <3> QED BY <3>2, <3>3, <3>4, <3>5
  <2> QED BY <2>2, <2>3, <2>4
<1>5. 0..N \subseteq S
  <2> HIDE DEF S, N
  <2> QED BY <1>1, <1>4, DownTo
<1>6. i + 1 \in 0..N
  BY <1>1
<1>7. Stops(i + 1)
  BY <1>5, <1>6
<1> QED BY <1>3, <1>7

(* How many marks a literal holds: the opening one, those inside, and the  *)
(* closing one if there is one.                                            *)
MarksIn(x, first, last, c) == {m \in first..last : CharIn(x, m) = c}

LEMMA MarksAre ==
    ASSUME NEW c, NEW from \in Nat, NEW i \in Nat, NEW end \in Nat, from <= i, i < end,
           MarksIn(text, from, i - 1, c) = {},
           Ch(i) = c,
           NEW k \in Nat,
           IsFiniteSet(MarksIn(text, i + 1, end - 1, c)),
           Cardinality(MarksIn(text, i + 1, end - 1, c)) = k
    PROVE  /\ Cardinality(MarksIn(text, from, end - 1, c)) = k + 1
           /\ Ch(end) = c => Cardinality(MarksIn(text, from, end, c)) = k + 2
<1> DEFINE Inside == MarksIn(text, i + 1, end - 1, c)
           Open   == MarksIn(text, from, end - 1, c)
           All    == MarksIn(text, from, end, c)
<1>1. Open = Inside \cup {i} /\ i \notin Inside
  BY InThisText DEF MarksIn
<1>2. Ch(end) = c => All = Open \cup {end} /\ end \notin Open
  BY InThisText DEF MarksIn
<1>3. IsFiniteSet(Inside) /\ Cardinality(Inside) = k
  OBVIOUS
<1> HIDE DEF Inside, Open, All
<1>4. IsFiniteSet(Open) /\ Cardinality(Open) = k + 1
  BY <1>1, <1>3, FS_AddElement
<1>5. Ch(end) = c => Cardinality(All) = (k + 1) + 1
  BY <1>2, <1>4, FS_AddElement
<1> QED BY <1>4, <1>5 DEF Open, All

(* A call that leaves no literal open, and one that does: it is recorded,  *)
(* and the cursor is on the NUL at its end.                                *)
OpensNothing ==
    \E type, end, place, c :
        /\ Return(type, end, place, c)
        /\ errors' = errors
        /\ ~ OpenIn(text, Token(type, end, place))
        /\ Ch(Here) = NUL => type = "EOF"
OpensOne ==
    \E type, place, e : \E end \in Nat \ {0} :
        /\ Return(type, end, place, CursorAt(end))
        /\ errors' = Append(errors, e)
        /\ OpenIn(text, Token(type, end, place))
        /\ Named(text, Token(type, end, place), e)
        /\ Ch(end) = NUL
        /\ Ch(Here) # NUL

LEMMA NoLiteral ==
    ASSUME NEW type, NEW end, NEW place, NEW c, Return(type, end, place, c), errors' = errors,
           type \notin {"STRING", "NSTRING"}, Ch(Here) \notin {"[", "\""},
           Ch(Here) = NUL => type = "EOF"
    PROVE  OpensNothing
<1>1. Token(type, end, place).type = type /\ Token(type, end, place).from = Here
  BY DEF Token
<1>2. ~ OpenIn(text, Token(type, end, place))
  BY <1>1, InThisText DEF OpenIn, LiteralIn
<1> QED BY <1>2 DEF OpensNothing

LEMMA EmitOpensNothing ==
    ASSUME NEW type, NEW end, Emit(type, end), type \notin {"STRING", "NSTRING"},
           Ch(Here) \notin {"[", "\"", NUL}
    PROVE  OpensNothing
BY NoLiteral DEF Emit

LEMMA SignsAre ==
    /\ \A d \in Doubles : d[1] \notin {"[", "\"", NUL} /\ d[3] \notin {"STRING", "NSTRING"}
    /\ \A s \in Singles : s[1] \notin {"[", "\"", NUL} /\ s[2] \notin {"STRING", "NSTRING"}
<1>1. ASSUME NEW d \in Doubles PROVE d[1] \notin {"[", "\"", NUL} /\ d[3] \notin {"STRING", "NSTRING"}
  <2>1. d[1] \in {"+", "-", "*", "/", "%", "&", "|", "^", "!", "<", ">", ":"}
    BY DEF Doubles
  <2> QED BY <2>1, DoublesAre DEF NUL
<1>2. ASSUME NEW s \in Singles PROVE s[1] \notin {"[", "\"", NUL} /\ s[2] \notin {"STRING", "NSTRING"}
  <2>1. \E c, t : /\ s = <<c, t>>
                  /\ c # "[" /\ c # "\""
                  /\ t \in {"PLUS", "MINUS", "ASTERISK", "SLASH", "PERCENT", "AMPERSAND", "PIPE", "CARET", "TILDE",
                            "EQ", "ILLEGAL", "LT", "GT", "COMMA", "SEMICOLON", "LPAREN", "RPAREN", "RBRACKET",
                            "DOT", "COLON", "PLACEHOLDER"}
    BY Zenon DEF Singles
  <2>2. PICK c, t : s = <<c, t>> /\ c # "[" /\ c # "\""
    BY <2>1, Zenon
  <2>3. s[1] = c
    BY <2>2
  <2>4. s[1] # "[" /\ s[1] # "\""
    BY <2>2, <2>3, Zenon
  <2> QED BY <2>4, SinglesAre
<1> QED BY <1>1, <1>2

LEMMA OthersOpenNothing ==
    ASSUME LexInv, ~ Finished,
           OperatorToken \/ CommentToken \/ NumberToken \/ NameToken \/ WordToken \/ EOFToken
    PROVE  OpensNothing
<1>1. CASE OperatorToken
  <2>1. ASSUME NEW d \in Doubles, Two(Here) = <<d[1], d[2]>>,
               Return(d[3], Here + 2, readTo(Start, Here + 1), readTo(Start, Here + 2)), errors' = errors
        PROVE  OpensNothing
    <3>1. Ch(Here) = d[1]
      BY <2>1 DEF Two
    <3>2. Ch(Here) \notin {"[", "\"", NUL} /\ d[3] \notin {"STRING", "NSTRING"}
      BY <3>1, SignsAre
    <3> QED BY <2>1, <3>2, NoLiteral
  <2>2. ASSUME NEW s \in Singles, Ch(Here) = s[1], Emit(s[2], Here + 1) PROVE OpensNothing
    BY <2>2, SignsAre, EmitOpensNothing
  <2>3. \/ \E d \in Doubles :
             /\ Two(Here) = <<d[1], d[2]>>
             /\ Return(d[3], Here + 2, readTo(Start, Here + 1), readTo(Start, Here + 2))
             /\ errors' = errors
        \/ \E s \in Singles : Ch(Here) = s[1] /\ Emit(s[2], Here + 1)
    BY <1>1 DEF OperatorToken
  <2> QED BY <2>1, <2>2, <2>3
<1>2. CASE CommentToken
  <2>1. Ch(Here) \in {"-", "/"} /\ \E end : Emit("COMMENT", end)
    BY <1>2 DEF CommentToken, Two
  <2>2. Ch(Here) \notin {"[", "\"", NUL}
    BY <2>1 DEF NUL
  <2> QED BY <2>1, <2>2, EmitOpensNothing
<1>3. CASE NumberToken
  <2>1. Ch(Here) \in {".", "$", "0", "1"} /\ \E type \in {"FLOAT", "MONEY_LIT", "BINARY", "INT"} : \E end : Emit(type, end)
    BY <1>3 DEF NumberToken, Two, Digits
  <2>2. Ch(Here) \notin {"[", "\"", NUL}
    BY <2>1 DEF NUL
  <2> QED BY <2>1, <2>2, EmitOpensNothing
<1>4. CASE NameToken
  <2>1. Ch(Here) \in {"@", "$", "#"} /\ \E type \in {"TEMPVAR", "VARIABLE", "SYSVAR", "IDENT"} : \E end : Emit(type, end)
    BY <1>4 DEF NameToken, Two
  <2>2. Ch(Here) \notin {"[", "\"", NUL}
    BY <2>1 DEF NUL
  <2> QED BY <2>1, <2>2, EmitOpensNothing
<1>5. CASE WordToken
  <2>1. text \in Seq(Characters) /\ Len(text) \in Nat /\ Here \in Nat \ {0} /\ Here <= Len(text) + 1
    BY StartIs DEF LexInv
  <2> DEFINE p == readIdentifier(Here)
             found == checkCompoundKeyword(LookupIdent(Here, p), readTo(Start, p))
  <2>2. Ch(Here) \in Letters /\ Return(found.type, found.end, Start, found.cursor) /\ errors' = errors
    BY <1>5 DEF WordToken
  <2>3. p \in Here..(Len(text) + 1) /\ p > Here
    BY <2>1, <2>2, IdentifierIs
  <2>4. p \in Nat \ {0} /\ p <= Len(text) + 1
    BY <2>1, <2>3
  <2>5. LookupIdent(Here, p) \in Keywords \cup {"IDENT"}
    BY DEF LookupIdent
  <2>6. readTo(Start, p) = CursorAt(p)
    BY <2>3, <2>4, BehindStart
  <2>7. Compound(found, p)
    BY <2>1, <2>4, <2>5, <2>6, CompoundIs
  <2> HIDE DEF p, found
  <2>8. found.type \in WordTypes
    BY <2>7 DEF Compound, Found
  <2>9. found.type \notin {"STRING", "NSTRING"}
    BY <2>8 DEF WordTypes, CompoundTypes, Keywords
  <2>10. Ch(Here) \notin {"[", "\"", NUL}
    BY <2>2 DEF Letters, Keywords, NUL
  <2> QED BY <2>2, <2>9, <2>10, NoLiteral
<1>6. CASE EOFToken
  <2>1. Ch(Here) = NUL /\ Return("EOF", Here, Start, readChar(Start)) /\ errors' = errors
    BY <1>6 DEF EOFToken
  <2>2. Ch(Here) \notin {"[", "\""} /\ "EOF" \notin {"STRING", "NSTRING"}
    BY <2>1 DEF NUL
  <2>3. Ch(Here) = NUL => "EOF" = "EOF"
    OBVIOUS
  <2> QED BY <2>1, <2>2, <2>3, NoLiteral
<1> QED BY <1>1, <1>2, <1>3, <1>4, <1>5, <1>6

(* Two characters further on in the same line.                             *)
LEMMA InsideIs ==
    ASSUME NEW i \in Nat \ {0}, Ch(i) # "\n", Ch(i + 1) # "\n"
    PROVE  /\ CursorAt(i + 1).line = PlaceOf(i).line
           /\ CursorAt(i + 1).column - 1 = PlaceOf(i).column
<1>1. NewlinesTo(i + 1) = NewlinesTo(i - 1)
  BY DEF NewlinesTo
<1>2. LastOf(NewlinesTo(i - 1)) \in Int
  <2>1. NewlinesTo(i - 1) \subseteq 0..(i - 1) /\ i - 1 \in Nat
    BY DEF NewlinesTo
  <2> QED BY <2>1, LastOfIs
<1> QED BY <1>1, <1>2 DEF CursorAt, PlaceOf

(* A token of the type that begins Here has its opening mark at i.          *)
OpensAt(type, i) == \A stop, place : Opening(Token(type, stop, place)) = i
OpensLiteral(type) == type \in {"STRING", "NSTRING"} \/ Ch(Here) \in {"[", "\""}

(* A literal that opens at i and stops at `end`.                           *)
LEMMA LiteralOpens ==
    ASSUME LexInv, ~ Finished, NEW type, NEW i \in Nat \ {0}, NEW end \in Nat \ {0}, Literal(type, i, end),
           Here <= i, i < end,
           OpensAt(type, i),
           Ch(Here) # NUL, Ch(i) # "\n",
           OpensLiteral(type),
           Ch(end) # NUL => ClosedIn(text, Token(type, end + 1, Start)),
           Ch(end) = NUL => ~ ClosedIn(text, Token(type, end, Start))
    PROVE  OpensNothing \/ OpensOne
<1>1. \A stop, place : Token(type, stop, place).type = type /\ Token(type, stop, place).from = Here
  BY DEF Token
<1>2. CASE Ch(end) # NUL
  <2>1. Return(type, end + 1, Start, readTo(Start, end + 1)) /\ errors' = errors
    BY <1>2 DEF Literal, Emit
  <2>2. ~ OpenIn(text, Token(type, end + 1, Start))
    BY <1>2 DEF OpenIn
  <2> QED BY <2>1, <2>2 DEF OpensNothing
<1>3. CASE Ch(end) = NUL
  <2> DEFINE inside == readTo(Start, i + 1)
             e == [line |-> inside.line, column |-> inside.column - 1]
             token == Token(type, end, Start)
  <2>1. Return(type, end, Start, readTo(Start, end)) /\ errors' = Append(errors, e)
    BY <1>3 DEF Literal
  <2>2. Here \in Nat \ {0}
    BY StartIs
  <2>3. Here <= end /\ Here <= i + 1 /\ i + 1 \in Nat
    BY <2>2
  <2>4. readTo(Start, end) = CursorAt(end) /\ inside = CursorAt(i + 1)
    BY <2>3, BehindStart
  <2>5. OpenIn(text, token)
    BY <1>1, <1>3, InThisText DEF OpenIn, LiteralIn, OpensLiteral
  <2>6. Named(text, token, e)
    <3>1. SUFFICES ASSUME Ch(i + 1) # "\n" PROVE e = PlaceOf(i)
      BY InThisText DEF Named, OpensAt
    <3>2. inside.line = PlaceOf(i).line /\ inside.column - 1 = PlaceOf(i).column
      BY <2>4, <3>1, InsideIs
    <3> QED BY <3>2 DEF PlaceOf
  <2> HIDE DEF e, inside, token
  <2>7. Return(type, end, Start, CursorAt(end))
    BY <2>1, <2>4
  <2> QED BY <1>3, <2>1, <2>5, <2>6, <2>7 DEF OpensOne, token
<1> QED BY <1>2, <1>3

(* The prover's arithmetic stumbles over this character.                   *)
Quote == "\""

(* A name between marks c (a bracket closes what another opens): none of   *)
(* the marks is inside, for the first one ends it.                         *)
LEMMA NameMarks ==
    ASSUME LexInv, ~ Finished, NEW c, NEW i \in Nat \ {0}, Here <= i, i <= Len(text),
           MarksIn(text, Here, i - 1, c) = {},
           Ch(i) = c
    PROVE  LET end == Ahead(i + 1, {c}) IN
           /\ end \in Nat \ {0} /\ i < end
           /\ Ch(end) \in {c, NUL}
           /\ Cardinality(MarksIn(text, Here, end - 1, c)) = 1
           /\ Ch(end) = c => Cardinality(MarksIn(text, Here, end, c)) = 2
<1> DEFINE end == Ahead(i + 1, {c})
<1>1. text \in Seq(Characters) /\ Len(text) \in Nat /\ Here \in Nat
  BY StartIs DEF LexInv
<1>2. i + 1 \in Nat \ {0} /\ i + 1 <= Len(text) + 1
  BY <1>1
<1>3. /\ end \in (i + 1)..(Len(text) + 1)
      /\ \A j \in (i + 1)..(end - 1) : Ch(j) \notin {c} \cup {NUL}
      /\ Ch(end) \in {c} \cup {NUL}
  BY <1>1, <1>2, AheadIs
<1> HIDE DEF end
<1>4. end \in Nat \ {0} /\ i < end
  BY <1>1, <1>3
<1>5. MarksIn(text, i + 1, end - 1, c) = {}
  BY <1>3, InThisText DEF MarksIn
<1>6. IsFiniteSet(MarksIn(text, i + 1, end - 1, c)) /\ Cardinality(MarksIn(text, i + 1, end - 1, c)) = 0
  BY <1>5, FS_EmptySet, Zenon
<1>7. PICK k \in Nat : k = 0
  OBVIOUS
<1>8. /\ Cardinality(MarksIn(text, Here, end - 1, c)) = k + 1
      /\ Ch(end) = c => Cardinality(MarksIn(text, Here, end, c)) = k + 2
  <2>1. i \in Nat /\ Cardinality(MarksIn(text, i + 1, end - 1, c)) = k
    BY <1>6, <1>7
  <2> QED BY <1>1, <1>4, <1>6, <2>1, MarksAre
<1> QED BY <1>3, <1>4, <1>7, <1>8 DEF end

(* A string: its marks inside are pairs.                                   *)
LEMMA StringMarks ==
    ASSUME LexInv, ~ Finished, NEW i \in Nat \ {0}, Here <= i, i <= Len(text),
           MarksIn(text, Here, i - 1, "'") = {},
           Ch(i) = "'"
    PROVE  LET end == readString(i) IN
           /\ end \in Nat \ {0} /\ i < end
           /\ Ch(end) \in {"'", NUL}
           /\ Cardinality(MarksIn(text, Here, end - 1, "'")) % 2 = 1
           /\ Ch(end) = "'" => /\ Cardinality(MarksIn(text, Here, end, "'")) % 2 = 0
                               /\ Ch(end + 1) # "'"
<1> DEFINE end == readString(i)
<1>1. text \in Seq(Characters) /\ Len(text) \in Nat /\ Here \in Nat /\ i \in Nat
  BY StartIs DEF LexInv
<1>2. end \in (i + 1)..(Len(text) + 1)
  BY <1>1, StringEnds
<1>3. EvenQuotes(i + 1, end - 1) /\ Ch(end) \in {"'", NUL} /\ Two(end) # <<"'", "'">>
  BY <1>1, StringStops
<1> HIDE DEF end
<1>4. end \in Nat \ {0} /\ i < end
  BY <1>1, <1>2
<1> DEFINE Inside == MarksIn(text, i + 1, end - 1, "'")
<1>5. Inside = {m \in (i + 1)..(end - 1) : Ch(m) = "'"}
  BY InThisText DEF MarksIn
<1>6. PICK n \in Nat : Cardinality(Inside) = 2 * n
  BY <1>3, <1>5 DEF EvenQuotes
<1>7. IsFiniteSet(Inside)
  BY <1>3, <1>5 DEF EvenQuotes
<1> HIDE DEF Inside
<1>8. /\ Cardinality(MarksIn(text, Here, end - 1, "'")) = 2 * n + 1
      /\ Ch(end) = "'" => Cardinality(MarksIn(text, Here, end, "'")) = 2 * n + 2
  <2>1. PICK k \in Nat : k = 2 * n
    OBVIOUS
  <2>2. Cardinality(Inside) = k
    BY <1>6, <2>1
  <2>3. /\ Cardinality(MarksIn(text, Here, end - 1, "'")) = k + 1
        /\ Ch(end) = "'" => Cardinality(MarksIn(text, Here, end, "'")) = k + 2
    BY <1>1, <1>4, <1>7, <2>2, MarksAre DEF Inside
  <2> QED BY <2>1, <2>3
<1>9. (2 * n + 1) % 2 = 1 /\ (2 * n + 2) % 2 = 0
  OBVIOUS
<1>10. Ch(end) = "'" => Ch(end + 1) # "'"
  BY <1>3 DEF Two
<1> QED BY <1>3, <1>4, <1>8, <1>9, <1>10 DEF end

(* When a token that opens with each of the marks is closed.               *)
LEMMA ClosedIs ==
    ASSUME NEW type, NEW end \in Nat, NEW place, NEW i, OpensAt(type, i)
    PROVE  LET token == Token(type, end, place) IN
           /\ Ch(i) = "["  => (ClosedIn(text, token) <=> Ch(end - 1) = "]")
           /\ Ch(i) = Quote => (ClosedIn(text, token) <=> Cardinality(MarksIn(text, Here, end - 1, Quote)) = 2)
           /\ Ch(i) = "'"  => (ClosedIn(text, token) <=>
                                  /\ Cardinality(MarksIn(text, Here, end - 1, "'")) % 2 = 0
                                  /\ Ch(end) # "'")
<1> DEFINE token == Token(type, end, place)
<1>1. token.from = Here /\ token.to = end - 1 /\ (end - 1) + 1 = end
  BY DEF Token
<1>2. OpeningIn(text, token) = Ch(i)
  BY InThisText DEF OpeningIn, OpensAt
<1>3. "[" # Quote /\ "[" # "'" /\ Quote # "'"
  BY Zenon DEF Quote
<1> HIDE DEF token
<1>4. ClosedIn(text, token) =
          CASE OpeningIn(text, token) = "["  -> CharIn(text, token.to) = "]"
            [] OpeningIn(text, token) = Quote -> Cardinality(MarksIn(text, token.from, token.to, Quote)) = 2
            [] OTHER -> /\ Cardinality(MarksIn(text, token.from, token.to, "'")) % 2 = 0
                        /\ CharIn(text, token.to + 1) # "'"
  BY Zenon DEF ClosedIn, MarksIn, Quote
<1>5. Ch(i) = "[" => (ClosedIn(text, token) <=> Ch(end - 1) = "]")
  BY <1>1, <1>2, <1>3, <1>4, InThisText
<1>6. Ch(i) = Quote => (ClosedIn(text, token) <=> Cardinality(MarksIn(text, Here, end - 1, Quote)) = 2)
  BY <1>1, <1>2, <1>3, <1>4
<1>7. Ch(i) = "'" => (ClosedIn(text, token) <=>
                                  /\ Cardinality(MarksIn(text, Here, end - 1, "'")) % 2 = 0
                                  /\ Ch(end) # "'")
  BY <1>1, <1>2, <1>3, <1>4, InThisText
<1> QED BY <1>5, <1>6, <1>7 DEF token

LEMMA BracketOpens ==
    ASSUME LexInv, ~ Finished, Ch(Here) = "[", Literal("IDENT", Here, Ahead(Here + 1, {"]"}))
    PROVE  OpensNothing \/ OpensOne
<1> DEFINE end == Ahead(Here + 1, {"]"})
<1>1. text \in Seq(Characters) /\ Len(text) \in Nat /\ Here \in Nat \ {0}
  BY StartIs DEF LexInv
<1>2. Ch(Here) \notin {NUL, "\n", "]"} /\ "]" # NUL
  BY DEF NUL
<1>3. Here <= Len(text)
  BY <1>1, <1>2, InText
<1>4. Here + 1 \in Nat \ {0} /\ Here + 1 <= Len(text) + 1
  BY <1>1, <1>3
<1>5. /\ end \in (Here + 1)..(Len(text) + 1)
      /\ \A j \in (Here + 1)..(end - 1) : Ch(j) \notin {"]"} \cup {NUL}
      /\ Ch(end) \in {"]"} \cup {NUL}
  BY <1>1, <1>4, AheadIs
<1>6. Literal("IDENT", Here, end)
  OBVIOUS
<1> HIDE DEF end
<1>7. end \in Nat \ {0} /\ Here < end /\ Here <= Here /\ end \in Nat /\ end + 1 \in Nat /\ (end + 1) - 1 = end
  BY <1>1, <1>5
<1>8. OpensAt("IDENT", Here) /\ OpensLiteral("IDENT")
  BY DEF OpensAt, OpensLiteral, Token, Opening
<1>9. Ch(end) # NUL => ClosedIn(text, Token("IDENT", end + 1, Start))
  BY <1>5, <1>7, <1>8, ClosedIs
<1>10. Ch(end) = NUL => ~ ClosedIn(text, Token("IDENT", end, Start))
  <2>1. Ch(end - 1) # "]"
    <3>1. CASE end - 1 = Here
      BY <1>2, <3>1
    <3>2. CASE end - 1 # Here
      <4>1. end - 1 \in (Here + 1)..(end - 1)
        BY <1>1, <1>7, <3>2
      <4> QED BY <1>5, <4>1
    <3> QED BY <3>1, <3>2
  <2> QED BY <1>7, <1>8, <2>1, ClosedIs
<1> QED BY <1>1, <1>2, <1>6, <1>7, <1>8, <1>9, <1>10, LiteralOpens, Zenon

LEMMA QuotesOpen ==
    ASSUME LexInv, ~ Finished, NEW type \in {"IDENT", "NSTRING"}, NEW i \in Nat \ {0}, Here <= i,
           OpensAt(type, i),
           MarksIn(text, Here, i - 1, Quote) = {},
           Ch(i) = Quote, Ch(Here) # NUL, OpensLiteral(type),
           Literal(type, i, Ahead(i + 1, {Quote}))
    PROVE  OpensNothing \/ OpensOne
<1> DEFINE end == Ahead(i + 1, {Quote})
<1>1. text \in Seq(Characters)
  BY DEF LexInv
<1>2. Ch(i) \notin {NUL, "\n"} /\ Quote # NUL
  BY Zenon DEF NUL, Quote
<1>3. i <= Len(text)
  BY <1>1, <1>2, InText
<1>4. /\ end \in Nat \ {0} /\ i < end
      /\ Ch(end) \in {Quote, NUL}
      /\ Cardinality(MarksIn(text, Here, end - 1, Quote)) = 1
      /\ Ch(end) = Quote => Cardinality(MarksIn(text, Here, end, Quote)) = 2
  BY <1>3, NameMarks
<1>5. Literal(type, i, end)
  OBVIOUS
<1> HIDE DEF end
<1>6. end + 1 \in Nat /\ end \in Nat /\ (end + 1) - 1 = end
  BY <1>4
<1>7. Ch(end) # NUL => ClosedIn(text, Token(type, end + 1, Start))
  BY <1>4, <1>6, ClosedIs
<1>8. Ch(end) = NUL => ~ ClosedIn(text, Token(type, end, Start))
  <2>1. Cardinality(MarksIn(text, Here, end - 1, Quote)) # 2
    BY <1>4
  <2> QED BY <1>6, <2>1, ClosedIs
<1> QED BY <1>2, <1>4, <1>5, <1>7, <1>8, LiteralOpens, Zenon

LEMMA StringOpens ==
    ASSUME LexInv, ~ Finished, NEW type \in {"STRING", "NSTRING"}, NEW i \in Nat \ {0}, Here <= i,
           OpensAt(type, i),
           MarksIn(text, Here, i - 1, "'") = {},
           Ch(i) = "'", Ch(Here) # NUL, OpensLiteral(type), Literal(type, i, readString(i))
    PROVE  OpensNothing \/ OpensOne
<1> DEFINE end == readString(i)
<1>1. text \in Seq(Characters)
  BY DEF LexInv
<1>2. Ch(i) \notin {NUL, "\n"} /\ "'" # NUL
  BY DEF NUL
<1>3. i <= Len(text)
  BY <1>1, <1>2, InText
<1>4. /\ end \in Nat \ {0} /\ i < end
      /\ Ch(end) \in {"'", NUL}
      /\ Cardinality(MarksIn(text, Here, end - 1, "'")) % 2 = 1
      /\ Ch(end) = "'" => /\ Cardinality(MarksIn(text, Here, end, "'")) % 2 = 0
                          /\ Ch(end + 1) # "'"
  BY <1>3, StringMarks
<1>5. Literal(type, i, end)
  OBVIOUS
<1> HIDE DEF end
<1>6. end + 1 \in Nat /\ end \in Nat /\ (end + 1) - 1 = end
  BY <1>4
<1>7. Ch(end) # NUL => ClosedIn(text, Token(type, end + 1, Start))
  BY <1>4, <1>6, ClosedIs
<1>8. Ch(end) = NUL => ~ ClosedIn(text, Token(type, end, Start))
  <2>1. Cardinality(MarksIn(text, Here, end - 1, "'")) % 2 # 0
    BY <1>4
  <2> QED BY <1>6, <2>1, ClosedIs
<1> QED BY <1>2, <1>4, <1>5, <1>7, <1>8, LiteralOpens, Zenon

LEMMA QuotedOpens ==
    ASSUME LexInv, ~ Finished, QuotedToken
    PROVE  OpensNothing \/ OpensOne
<1>1. Here \in Nat \ {0} /\ Here + 1 \in Nat \ {0} /\ Here <= Here /\ Here <= Here + 1
      /\ (Here + 1) + 1 = Here + 2 /\ (Here + 1) - 1 = Here
  BY StartIs
<1>2. /\ "[" # NUL /\ Quote # NUL /\ "'" # NUL /\ "n" # NUL
      /\ "n" # Quote /\ "n" # "'"
  BY Zenon DEF NUL, Quote
<1>3. \A c : MarksIn(text, Here, Here - 1, c) = {}
  BY <1>1 DEF MarksIn
<1>4. \A c : Ch(Here) # c => MarksIn(text, Here, (Here + 1) - 1, c) = {}
  <2> SUFFICES ASSUME NEW c, Ch(Here) # c PROVE MarksIn(text, Here, Here, c) = {}
    BY <1>1
  <2> QED BY <1>1, InThisText DEF MarksIn
<1>5. /\ OpensAt("IDENT", Here) /\ OpensAt("STRING", Here) /\ OpensAt("NSTRING", Here + 1)
      /\ OpensLiteral("STRING") /\ OpensLiteral("NSTRING")
      /\ Ch(Here) = Quote => OpensLiteral("IDENT")
  BY DEF OpensAt, OpensLiteral, Token, Opening, Quote
<1>6. CASE Ch(Here) = "[" /\ Literal("IDENT", Here, Ahead(Here + 1, {"]"}))
  BY <1>6, BracketOpens
<1>7. CASE Ch(Here) = Quote /\ Literal("IDENT", Here, Ahead(Here + 1, {Quote}))
  <2>1. "IDENT" \in {"IDENT", "NSTRING"}
    OBVIOUS
  <2> QED BY <1>1, <1>2, <1>3, <1>5, <1>7, <2>1, QuotesOpen, Zenon
<1>8. CASE Ch(Here) = "'" /\ Literal("STRING", Here, readString(Here))
  <2>1. "STRING" \in {"STRING", "NSTRING"}
    OBVIOUS
  <2> QED BY <1>1, <1>2, <1>3, <1>5, <1>8, <2>1, StringOpens, Zenon
<1>9. CASE Two(Here) = <<"n", "'">> /\ Literal("NSTRING", Here + 1, readString(Here + 1))
  <2>1. Ch(Here) = "n" /\ Ch(Here + 1) = "'" /\ "NSTRING" \in {"STRING", "NSTRING"}
    BY <1>9 DEF Two
  <2> QED BY <1>1, <1>2, <1>4, <1>5, <1>9, <2>1, StringOpens, Zenon
<1>10. CASE Two(Here) = <<"n", Quote>> /\ Literal("NSTRING", Here + 1, Ahead(Here + 2, {Quote}))
  <2>1. Ch(Here) = "n" /\ Ch(Here + 1) = Quote /\ "NSTRING" \in {"IDENT", "NSTRING"}
    BY <1>10 DEF Two
  <2>2. Literal("NSTRING", Here + 1, Ahead((Here + 1) + 1, {Quote}))
    BY <1>1, <1>10
  <2> QED BY <1>1, <1>2, <1>4, <1>5, <2>1, <2>2, QuotesOpen, Zenon
<1> QED BY <1>6, <1>7, <1>8, <1>9, <1>10, Zenon DEF QuotedToken, Quote

LEMMA NextOpens ==
    ASSUME LexInv, NextToken
    PROVE  ~ Finished /\ (OpensNothing \/ OpensOne)
<1>1. ~ Finished
  BY NextSteps DEF Stepped, Return
<1> QED BY <1>1, OthersOpenNothing, QuotedOpens DEF NextToken

LEMMA InitUnclosed == Init => UnclosedInv
BY DEF Init, UnclosedInv

LEMMA StepUnclosed ==
    ASSUME LexInv, UnclosedInv, NextToken
    PROVE  UnclosedInv'
<1>1. ~ Finished /\ ~ Ended(tokens) /\ (OpensNothing \/ OpensOne)
  BY NextOpens, InThisText
<1> DEFINE n == Len(tokens) + 1
<1>2. tokens \in Seq(Tokens) /\ Len(tokens) \in Nat /\ DOMAIN tokens = 1..Len(tokens) /\ errors \in Seq(Places)
  BY DEF LexInv
<1>3. ASSUME NEW new, tokens' = Append(tokens, new)
      PROVE  /\ DOMAIN tokens' = 1..n /\ tokens'[n] = new
             /\ \A t \in 1..Len(tokens) : tokens'[t] = tokens[t]
             /\ Len(tokens') = n /\ tokens' # <<>>
  BY <1>2, <1>3
<1>4. CASE OpensNothing
  <2>1. PICK type, end, place, c :
            /\ Return(type, end, place, c)
            /\ errors' = errors
            /\ ~ OpenIn(text, Token(type, end, place))
            /\ Ch(Here) = NUL => type = "EOF"
    BY <1>4 DEF OpensNothing
  <2> DEFINE new == Token(type, end, place)
  <2>2. text' = text /\ tokens' = Append(tokens, new) /\ errors' = errors /\ new.type = type
    BY <2>1 DEF Return, Token
  <2>3. ~ OpenIn(text, new)
    BY <2>1
  <2> HIDE DEF new
  <2>4. /\ DOMAIN tokens' = 1..n /\ tokens'[n] = new /\ Len(tokens') = n /\ tokens' # <<>>
        /\ \A t \in 1..Len(tokens) : tokens'[t] = tokens[t]
    BY <1>3, <2>2
  <2>5. CASE errors = <<>> /\ \A t \in DOMAIN tokens : ~ OpenIn(text, tokens[t])
    <3>1. ASSUME NEW t \in 1..n PROVE ~ OpenIn(text, tokens'[t])
      <4>1. CASE t = n
        BY <2>3, <2>4, <4>1
      <4>2. CASE t # n
        <5>1. t \in 1..Len(tokens)
          BY <1>2, <4>2
        <5> QED BY <1>2, <2>4, <2>5, <5>1
      <4> QED BY <4>1, <4>2
    <3> QED BY <2>2, <2>4, <2>5, <3>1 DEF UnclosedInv
  <2>6. CASE ~ (errors = <<>> /\ \A t \in DOMAIN tokens : ~ OpenIn(text, tokens[t]))
    <3>1. PICK t \in DOMAIN tokens :
              /\ \A u \in DOMAIN tokens : OpenIn(text, tokens[u]) <=> u = t
              /\ Len(errors) = 1
              /\ CharIn(text, tokens[t].to + 1) = NUL
              /\ Named(text, tokens[t], errors[1])
              /\ cursor.position = tokens[t].to + 1
      BY <1>1, <2>6 DEF UnclosedInv
    <3>2. Ch(cursor.position) = NUL
      BY <3>1, InThisText
    <3>3. Here = cursor.position
      <4>1. /\ Here \in cursor.position..(Len(text) + 1)
            /\ \A i \in cursor.position..(Here - 1) : Ch(i) \in Blanks
            /\ cursor.position \in Nat
        BY <1>1, StartIs DEF LexInv, Cursors
      <4>2. NUL \notin Blanks
        BY Zenon DEF NUL, Blanks
      <4>3. ~ (cursor.position < Here)
        BY <3>2, <4>1, <4>2
      <4> QED BY <4>1, <4>3
    <3>4. type = "EOF"
      BY <2>1, <3>2, <3>3
    <3>5. Ended(tokens')
      BY <2>2, <2>4, <3>4 DEF Ended
    <3>6. t \in 1..n /\ t # n /\ tokens'[t] = tokens[t]
      BY <1>2, <2>4
    <3>7. ASSUME NEW u \in 1..n PROVE OpenIn(text, tokens'[u]) <=> u = t
      <4>1. CASE u = n
        BY <2>3, <2>4, <3>6, <4>1
      <4>2. CASE u # n
        <5>1. u \in 1..Len(tokens)
          BY <1>2, <4>2
        <5> QED BY <1>2, <2>4, <3>1, <5>1
      <4> QED BY <4>1, <4>2
    <3>8. \E o \in DOMAIN tokens' :
              /\ \A u \in DOMAIN tokens' : OpenIn(text, tokens'[u]) <=> u = o
              /\ Len(errors') = 1
              /\ CharIn(text, tokens'[o].to + 1) = NUL
              /\ Named(text, tokens'[o], errors'[1])
              /\ ~ Ended(tokens') => cursor'.position = tokens'[o].to + 1
      BY <2>2, <2>4, <3>1, <3>5, <3>6, <3>7
    <3> QED BY <2>2, <3>8 DEF UnclosedInv
  <2> QED BY <2>5, <2>6
<1>5. CASE OpensOne
  <2>1. PICK type, place, e : \E end \in Nat \ {0} :
            /\ Return(type, end, place, CursorAt(end))
            /\ errors' = Append(errors, e)
            /\ OpenIn(text, Token(type, end, place))
            /\ Named(text, Token(type, end, place), e)
            /\ Ch(end) = NUL
            /\ Ch(Here) # NUL
    BY <1>5 DEF OpensOne
  <2>2. PICK end \in Nat \ {0} :
            /\ Return(type, end, place, CursorAt(end))
            /\ errors' = Append(errors, e)
            /\ OpenIn(text, Token(type, end, place))
            /\ Named(text, Token(type, end, place), e)
            /\ Ch(end) = NUL
            /\ Ch(Here) # NUL
    BY <2>1
  <2> DEFINE new == Token(type, end, place)
  <2>3. /\ text' = text /\ tokens' = Append(tokens, new) /\ cursor' = CursorAt(end)
        /\ new.to + 1 = end
    BY <2>2 DEF Return, Token
  <2>4. OpenIn(text, new) /\ Named(text, new, e)
    BY <2>2
  <2> HIDE DEF new
  <2>5. /\ DOMAIN tokens' = 1..n /\ tokens'[n] = new /\ Len(tokens') = n /\ tokens' # <<>>
        /\ \A t \in 1..Len(tokens) : tokens'[t] = tokens[t]
    BY <1>3, <2>3
  <2>6. cursor'.position = end
    BY <2>3 DEF CursorAt
  <2>7. CASE errors = <<>> /\ \A t \in DOMAIN tokens : ~ OpenIn(text, tokens[t])
    <3>1. n \in 1..n
      BY <1>2
    <3>2. ASSUME NEW u \in 1..n PROVE OpenIn(text, tokens'[u]) <=> u = n
      <4>1. CASE u = n
        BY <2>4, <2>5, <4>1
      <4>2. CASE u # n
        <5>1. u \in 1..Len(tokens)
          BY <1>2, <4>2
        <5> QED BY <1>2, <2>5, <2>7, <4>2, <5>1
      <4> QED BY <4>1, <4>2
    <3>3. errors' = <<e>>
      BY <2>2, <2>7
    <3>4. Len(errors') = 1 /\ errors'[1] = e
      BY <3>3
    <3>5. CharIn(text, new.to + 1) = NUL
      BY <2>2, <2>3, InThisText
    <3>6. \E o \in DOMAIN tokens' :
              /\ \A u \in DOMAIN tokens' : OpenIn(text, tokens'[u]) <=> u = o
              /\ Len(errors') = 1
              /\ CharIn(text, tokens'[o].to + 1) = NUL
              /\ Named(text, tokens'[o], errors'[1])
              /\ ~ Ended(tokens') => cursor'.position = tokens'[o].to + 1
      BY <2>3, <2>4, <2>5, <2>6, <3>1, <3>2, <3>4, <3>5
    <3> QED BY <2>3, <3>6 DEF UnclosedInv
  <2>8. CASE ~ (errors = <<>> /\ \A t \in DOMAIN tokens : ~ OpenIn(text, tokens[t]))
    <3>1. PICK t \in DOMAIN tokens : /\ CharIn(text, tokens[t].to + 1) = NUL
                                     /\ cursor.position = tokens[t].to + 1
      BY <1>1, <2>8 DEF UnclosedInv
    <3>2. Ch(cursor.position) = NUL
      BY <3>1, InThisText
    <3>3. Here = cursor.position
      <4>1. /\ Here \in cursor.position..(Len(text) + 1)
            /\ \A i \in cursor.position..(Here - 1) : Ch(i) \in Blanks
            /\ cursor.position \in Nat
        BY <1>1, StartIs DEF LexInv, Cursors
      <4>2. NUL \notin Blanks
        BY Zenon DEF NUL, Blanks
      <4>3. ~ (cursor.position < Here)
        BY <3>2, <4>1, <4>2
      <4> QED BY <4>1, <4>3
    <3> QED BY <2>2, <3>2, <3>3
  <2> QED BY <2>7, <2>8
<1> QED BY <1>1, <1>4, <1>5

LEMMA NextUnclosed == LexInv /\ UnclosedInv /\ [Next]_vars => UnclosedInv'
<1> SUFFICES ASSUME LexInv, UnclosedInv, [Next]_vars PROVE UnclosedInv'
  OBVIOUS
<1>1. CASE NextToken
  BY <1>1, StepUnclosed
<1>2. CASE UNCHANGED vars
  BY <1>2 DEF vars, UnclosedInv
<1> QED BY <1>1, <1>2 DEF Next

LEMMA OpenIsReported == UnclosedInv => UnclosedIsReported
<1> SUFFICES ASSUME UnclosedInv PROVE UnclosedIsReported
  OBVIOUS
<1> DEFINE Open == {t \in DOMAIN tokens : IsLiteral(tokens[t]) /\ ~ Closed(tokens[t])}
<1>1. \A token : IsLiteral(token) <=> LiteralIn(text, token)
  BY InThisText DEF IsLiteral, LiteralIn
<1>2. ASSUME NEW token PROVE Closed(token) <=> ClosedIn(text, token)
  <2>1. \A c : Marks(token, c) = {i \in token.from..token.to : CharIn(text, i) = c}
    BY InThisText DEF Marks
  <2> QED BY <2>1, InThisText, Zenon DEF Closed, ClosedIn, OpeningIn
<1>3. \A t \in DOMAIN tokens : t \in Open <=> OpenIn(text, tokens[t])
  BY <1>1, <1>2 DEF OpenIn
<1>4. Open \subseteq DOMAIN tokens
  OBVIOUS
<1> SUFFICES /\ Cardinality(Open) = Len(errors)
             /\ \A t \in Open : LET opening == Opening(tokens[t]) IN
                   /\ Ch(tokens[t].to + 1) = NUL
                   /\ Ch(opening + 1) # "\n" =>
                          errors[1] = [line |-> LineOf(opening), column |-> opening - LastNewline(opening)]
  BY DEF UnclosedIsReported
<1> HIDE DEF Open
<1>5. CASE errors = <<>> /\ \A t \in DOMAIN tokens : ~ OpenIn(text, tokens[t])
  <2>1. Open = {}
    BY <1>3, <1>4, <1>5
  <2>2. Cardinality(Open) = Len(errors)
    BY <1>5, <2>1, FS_EmptySet
  <2> QED BY <2>1, <2>2
<1>6. CASE ~ (errors = <<>> /\ \A t \in DOMAIN tokens : ~ OpenIn(text, tokens[t]))
  <2>1. PICK t \in DOMAIN tokens :
            /\ \A u \in DOMAIN tokens : OpenIn(text, tokens[u]) <=> u = t
            /\ Len(errors) = 1
            /\ CharIn(text, tokens[t].to + 1) = NUL
            /\ Named(text, tokens[t], errors[1])
    BY <1>6 DEF UnclosedInv
  <2>2. Open = {t}
    BY <1>3, <1>4, <2>1
  <2>3. Cardinality(Open) = Len(errors)
    BY <2>1, <2>2, FS_Singleton
  <2>4. Ch(tokens[t].to + 1) = NUL
    BY <2>1, InThisText
  <2> DEFINE opening == Opening(tokens[t])
  <2>5. PlaceIn(text, opening) = [line |-> LineOf(opening), column |-> opening - LastNewline(opening)]
    <3>1. NewlinesIn(text, opening - 1) = {m \in 1..(opening - 1) : Ch(m) = "\n"}
      BY InThisText DEF NewlinesIn
    <3> HIDE DEF opening
    <3>2. 1 + Cardinality(NewlinesIn(text, opening - 1)) = LineOf(opening)
      BY <3>1 DEF LineOf
    <3>3. LastOf(NewlinesIn(text, opening - 1)) = LastNewline(opening)
      <4>1. \A i : LastNewline(i) = LastOf({m \in 1..(i - 1) : Ch(m) = "\n"})
        BY DEF LastNewline, LastOf
      <4> QED BY <3>1, <4>1, Zenon
    <3> QED BY <3>2, <3>3 DEF PlaceIn
  <2>6. Ch(opening + 1) # "\n" => errors[1] = PlaceIn(text, opening)
    BY <2>1, InThisText DEF Named
  <2> QED BY <2>2, <2>3, <2>4, <2>5, <2>6
<1> QED BY <1>5, <1>6

(* A literal that is not closed is reported, once, at its opening mark, and *)
(* ends the text: readString, readBracketIdentifier and the others reach    *)
(* l.ch = 0 there, and a doubled quote does not end a string.               *)
THEOREM UnclosedLiteralsAreReported == Spec => []UnclosedIsReported
<1> QED BY CursorIsCounted, InitUnclosed, NextUnclosed, OpenIsReported, PTL DEF Spec

-----------------------------------------------------------------------------
(* Compound keywords, word by word.  What is read at a place of a text: a   *)
(* word that stands alone, or a parenthesis; and where the next one is.    *)
BehindIn(x, i, chars) == FirstOf({j \in i..(Len(x) + 2) : CharIn(x, j) \notin chars})
SkipIn(x, i) == BehindIn(x, i, Blanks)
WordIn(x, i) ==
    IF CharIn(x, i) \in Letters /\ BehindIn(x, i, Letters \cup Digits \cup {"#", "$"}) = i + 1
    THEN CharIn(x, i) ELSE NoWord
ReadsIn(x, i) == IF CharIn(x, i) = "(" THEN "(" ELSE WordIn(x, i)
NextIn(x, i)  == SkipIn(x, i + 1)
Nth(x, i, k)  == CASE k = 1 -> i
                   [] k = 2 -> NextIn(x, i)
                   [] k = 3 -> NextIn(x, NextIn(x, i))
                   [] k = 4 -> NextIn(x, NextIn(x, NextIn(x, i)))
WordsFrom(x, i, words) == \A k \in DOMAIN words : ReadsIn(x, Nth(x, i, k)) = words[k]

DroppedIn(x, token) == {i \in (token.from + 1)..token.to :
                           /\ token.type = "WITH_PARTITIONS" /\ CharIn(x, i) \notin Blanks
                           /\ \A j \in (token.from + 1)..i : CharIn(x, j) # "("}
SolidIn(x, token) == {i \in (token.from..token.to) \ DroppedIn(x, token) : CharIn(x, i) \notin Blanks}
SpellsIn(x, token, words) ==
    \E at \in [DOMAIN words -> SolidIn(x, token)] :
        /\ SolidIn(x, token) = {at[k] : k \in DOMAIN words}
        /\ \A k \in DOMAIN words : CharIn(x, at[k]) = words[k] /\ (k > 1 => at[k - 1] < at[k])
ScopeIn(x, i) == CharIn(x, i) = ":" /\ CharIn(x, i + 1) = ":"

(* No compound keyword begins at i but those that what comes behind them    *)
(* decides on: CHECK in front of OPTION, and KEY where no :: is.           *)
Unjoined(x, i) ==
    /\ \A c \in Compounds : /\ c[1] \notin Keys \cup {"WITH_CHECK"} => ~ WordsFrom(x, i, c[2])
                            /\ c[1] \in Keys /\ WordsFrom(x, i, c[2]) => ~ ScopeIn(x, Nth(x, i, 3))
    /\ WordsFrom(x, i, <<"WITH", "CHECK">>) => ReadsIn(x, Nth(x, i, 3)) = "OPTION"
Bare == (Letters \ {"n"}) \cup {"("}
Longer(x, token) == \E i \in SolidIn(x, token) : i # token.from

(* What must stand behind a compound keyword, or must not.                 *)
Fits(x, type, next) == /\ type = "WITH_CHECK" => ReadsIn(x, next) # "OPTION"
                       /\ type \in Keys => ScopeIn(x, next)
ExactIn(x, token) ==
    /\ CharIn(x, token.from) \notin Blanks
    /\ CharIn(x, token.from) \in Bare =>
           \/ Longer(x, token)
           \/ /\ token.to = token.from
              /\ ReadsIn(x, token.from) = CharIn(x, token.from)
              /\ Unjoined(x, token.from)
    /\ ReadsIn(x, token.from) = "OPTION" => token.to = token.from
    /\ token.type = "SCOPE" <=> ScopeIn(x, token.from)
    /\ \A c \in Compounds : token.type = c[1] => SpellsIn(x, token, c[2])
    /\ Fits(x, token.type, SkipIn(x, token.to + 1))

LEMMA InTheText ==
    /\ \A i, chars : Behind(i, chars) = BehindIn(text, i, chars)
    /\ \A i : skipWhitespace(i) = SkipIn(text, i)
    /\ \A i : WordAt(i) = WordIn(text, i)
    /\ \A token, words : Spells(token, words) <=> SpellsIn(text, token, words)
<1>1. \A i, chars : Behind(i, chars) = BehindIn(text, i, chars)
  BY InThisText, Zenon DEF Behind, BehindIn
<1>2. \A i : skipWhitespace(i) = SkipIn(text, i)
  BY <1>1 DEF skipWhitespace, SkipIn
<1>3. \A i : WordAt(i) = WordIn(text, i)
  BY <1>1, InThisText, Zenon DEF WordAt, WordIn, readIdentifier
<1>4. \A token : Solid(Held(token)) = SolidIn(text, token)
  <2>1. \A token : Dropped(token) = DroppedIn(text, token)
    BY InThisText DEF Dropped, DroppedIn
  <2> QED BY <2>1, InThisText DEF Solid, Held, SolidIn
<1>5. \A token, words : Spells(token, words) <=> SpellsIn(text, token, words)
  BY <1>4, InThisText, Zenon DEF Spells, SpelledAt, SpellsIn
<1> QED BY <1>1, <1>2, <1>3, <1>5

(* The tables say the same: the words of a compound, and its parts.         *)
CompoundsAre(c) ==
    \/ c[1] = "WITH_CHECK"
    \/ c[1] \in Keys /\ (c[2] = <<"ASYMMETRIC", "KEY">> \/ c[2] = <<"SYMMETRIC", "KEY">>)
    \/ \E t \in Pairs : c[2] = <<t[1], t[2]>>
    \/ \E t \in Triples : c[2] = <<t[1], t[2], t[3]>>
    \/ c[2] = <<"IS", "NOT", "DISTINCT", "FROM">>
    \/ c[2] = <<"WITH", "(", "PARTITIONS">>
LEMMA CompoundsAreParts == \A c \in Compounds : CompoundsAre(c)
<1>1. /\ <<"END", "CONVERSATION", "END_CONVERSATION">> \in Pairs
      /\ <<"TRUNCATE", "TABLE", "TRUNCATE_TABLE">> \in Pairs
      /\ <<"CREATE", "RULE", "CREATE_RULE">> \in Pairs
      /\ <<"BEGIN", "ATOMIC", "BEGIN_ATOMIC">> \in Pairs
      /\ <<"WITH", "XMLNAMESPACES", "WITH_XMLNAMESPACES">> \in Pairs
      /\ <<"WITH", "NOCHECK", "WITH_NOCHECK">> \in Pairs
      /\ <<"NEXT", "VALUE", "FOR", "NEXT_VALUE_FOR">> \in Triples
      /\ <<"XML", "SCHEMA", "COLLECTION", "XML_SCHEMA_COLLECTION">> \in Triples
      /\ <<"IS", "DISTINCT", "FROM", "IS_DISTINCT_FROM">> \in Triples
  BY Zenon DEF Pairs, Triples
<1>2. ASSUME NEW c \in Compounds PROVE CompoundsAre(c)
  <2>1. ASSUME NEW a, NEW b, NEW n, <<a, b, n>> \in Pairs, c = <<n, <<a, b>>>> PROVE CompoundsAre(c)
    <3>1. c[2] = <<a, b>> /\ <<a, b, n>>[1] = a /\ <<a, b, n>>[2] = b
      BY <2>1
    <3> QED BY <2>1, <3>1 DEF CompoundsAre
  <2>2. ASSUME NEW a, NEW b, NEW d, NEW n, <<a, b, d, n>> \in Triples, c = <<n, <<a, b, d>>>> PROVE CompoundsAre(c)
    <3>1. c[2] = <<a, b, d>> /\ <<a, b, d, n>>[1] = a /\ <<a, b, d, n>>[2] = b /\ <<a, b, d, n>>[3] = d
      BY <2>2
    <3> QED BY <2>2, <3>1 DEF CompoundsAre
  <2>3. ASSUME NEW words, c = <<"WITH_CHECK", words>> PROVE CompoundsAre(c)
    BY <2>3 DEF CompoundsAre
  <2>8. ASSUME NEW n \in Keys, NEW w \in {"ASYMMETRIC", "SYMMETRIC"}, c = <<n, <<w, "KEY">>>>
        PROVE  CompoundsAre(c)
    BY <2>8 DEF CompoundsAre
  <2>4. ASSUME NEW n, c = <<n, <<"IS", "NOT", "DISTINCT", "FROM">>>> PROVE CompoundsAre(c)
    BY <2>4 DEF CompoundsAre
  <2>5. ASSUME NEW n, c = <<n, <<"WITH", "(", "PARTITIONS">>>> PROVE CompoundsAre(c)
    BY <2>5 DEF CompoundsAre
  <2>6. "ASYMMETRIC_KEY" \in Keys /\ "SYMMETRIC_KEY" \in Keys
    BY Zenon DEF Keys
  <2>7. \/ \E a, b, n : <<a, b, n>> \in Pairs /\ c = <<n, <<a, b>>>>
        \/ \E a, b, d, n : <<a, b, d, n>> \in Triples /\ c = <<n, <<a, b, d>>>>
        \/ \E words : c = <<"WITH_CHECK", words>>
        \/ \E n \in Keys : \E w \in {"ASYMMETRIC", "SYMMETRIC"} : c = <<n, <<w, "KEY">>>>
        \/ \E n : c = <<n, <<"IS", "NOT", "DISTINCT", "FROM">>>>
        \/ \E n : c = <<n, <<"WITH", "(", "PARTITIONS">>>>
    BY <1>1, <2>6, Zenon DEF Compounds
  <2> QED BY <2>1, <2>2, <2>3, <2>4, <2>5, <2>7, <2>8, Zenon
<1> QED BY <1>2

(* The type says which words.                                              *)
LEMMA CompoundWords ==
    ASSUME NEW c \in Compounds
    PROVE  /\ c[1] = "END_CONVERSATION" => c[2] = <<"END", "CONVERSATION">>
           /\ c[1] = "TRUNCATE_TABLE" => c[2] = <<"TRUNCATE", "TABLE">>
           /\ c[1] = "CREATE_RULE" => c[2] = <<"CREATE", "RULE">>
           /\ c[1] = "BEGIN_ATOMIC" => c[2] = <<"BEGIN", "ATOMIC">>
           /\ c[1] = "WITH_XMLNAMESPACES" => c[2] = <<"WITH", "XMLNAMESPACES">>
           /\ c[1] = "WITH_NOCHECK" => c[2] = <<"WITH", "NOCHECK">>
           /\ c[1] = "NEXT_VALUE_FOR" => c[2] = <<"NEXT", "VALUE", "FOR">>
           /\ c[1] = "XML_SCHEMA_COLLECTION" => c[2] = <<"XML", "SCHEMA", "COLLECTION">>
           /\ c[1] = "IS_DISTINCT_FROM" => c[2] = <<"IS", "DISTINCT", "FROM">>
           /\ c[1] = "IS_NOT_DISTINCT_FROM" => c[2] = <<"IS", "NOT", "DISTINCT", "FROM">>
           /\ c[1] = "WITH_CHECK" => c[2] = <<"WITH", "CHECK">>
           /\ c[1] = "ASYMMETRIC_KEY" => c[2] = <<"ASYMMETRIC", "KEY">>
           /\ c[1] = "SYMMETRIC_KEY" => c[2] = <<"SYMMETRIC", "KEY">>
           /\ c[1] = "WITH_PARTITIONS" => c[2] = <<"WITH", "(", "PARTITIONS">>
BY DEF Compounds

LEMMA PairWords ==
    ASSUME NEW t \in Pairs, NEW c \in Compounds, c[1] = t[3]
    PROVE  c[2] = <<t[1], t[2]>>
<1>1. \/ t = <<"END", "CONVERSATION", "END_CONVERSATION">>
      \/ t = <<"TRUNCATE", "TABLE", "TRUNCATE_TABLE">>
      \/ t = <<"CREATE", "RULE", "CREATE_RULE">>
      \/ t = <<"BEGIN", "ATOMIC", "BEGIN_ATOMIC">>
      \/ t = <<"WITH", "XMLNAMESPACES", "WITH_XMLNAMESPACES">>
      \/ t = <<"WITH", "NOCHECK", "WITH_NOCHECK">>
  BY Zenon DEF Pairs
<1> QED BY <1>1, CompoundWords

LEMMA TripleWords ==
    ASSUME NEW t \in Triples, NEW c \in Compounds, c[1] = t[4]
    PROVE  c[2] = <<t[1], t[2], t[3]>>
<1>1. \/ t = <<"NEXT", "VALUE", "FOR", "NEXT_VALUE_FOR">>
      \/ t = <<"XML", "SCHEMA", "COLLECTION", "XML_SCHEMA_COLLECTION">>
      \/ t = <<"IS", "DISTINCT", "FROM", "IS_DISTINCT_FROM">>
  BY Zenon DEF Triples
<1> QED BY <1>1, CompoundWords

LEMMA CompoundTypesAre ==
    /\ \A c \in Compounds : c[1] \in CompoundTypes
    /\ \A c \in Compounds : c[2][1] \in Keywords
<1>1. ASSUME NEW c \in Compounds PROVE c[1] \in CompoundTypes
  <2>1. \E words : \E n \in CompoundTypes : c = <<n, words>>
    BY Zenon DEF Compounds, CompoundTypes
  <2> QED BY <2>1
<1>2. ASSUME NEW c \in Compounds PROVE c[2][1] \in Keywords
  <2>1. \E n : \E w \in Keywords : \/ \E v : c = <<n, <<w, v>>>>
                                   \/ \E v, u : c = <<n, <<w, v, u>>>>
                                   \/ \E v, u, s : c = <<n, <<w, v, u, s>>>>
    BY Zenon DEF Compounds, Keywords
  <2> QED BY <2>1
<1> QED BY <1>1, <1>2

(* A token whose characters are two, three or four words and white space.  *)
LEMMA SpellsTwo ==
    ASSUME NEW x, NEW token, NEW i, NEW j, NEW a, NEW b,
           SolidIn(x, token) = {i, j}, i < j,
           CharIn(x, i) = a, CharIn(x, j) = b
    PROVE  SpellsIn(x, token, <<a, b>>)
<1> DEFINE at == [k \in {1, 2} |-> IF k = 1 THEN i ELSE j]
<1>1. DOMAIN <<a, b>> = {1, 2} /\ <<a, b>>[1] = a /\ <<a, b>>[2] = b
  OBVIOUS
<1>2. at \in [{1, 2} -> SolidIn(x, token)] /\ at[1] = i /\ at[2] = j
  OBVIOUS
<1> HIDE DEF at
<1>3. SolidIn(x, token) = {at[k] : k \in {1, 2}}
  BY <1>2
<1>4. ASSUME NEW k \in {1, 2} PROVE CharIn(x, at[k]) = <<a, b>>[k] /\ (k > 1 => at[k - 1] < at[k])
  BY <1>2
<1> QED BY <1>1, <1>2, <1>3, <1>4 DEF SpellsIn

LEMMA SpellsThree ==
    ASSUME NEW x, NEW token, NEW i, NEW j, NEW m, NEW a, NEW b, NEW c,
           SolidIn(x, token) = {i, j, m}, i < j, j < m,
           CharIn(x, i) = a, CharIn(x, j) = b, CharIn(x, m) = c
    PROVE  SpellsIn(x, token, <<a, b, c>>)
<1> DEFINE at == [k \in {1, 2, 3} |-> IF k = 1 THEN i ELSE IF k = 2 THEN j ELSE m]
<1>1. DOMAIN <<a, b, c>> = {1, 2, 3} /\ <<a, b, c>>[1] = a /\ <<a, b, c>>[2] = b /\ <<a, b, c>>[3] = c
  OBVIOUS
<1>2. at \in [{1, 2, 3} -> SolidIn(x, token)] /\ at[1] = i /\ at[2] = j /\ at[3] = m
  OBVIOUS
<1> HIDE DEF at
<1>3. SolidIn(x, token) = {at[k] : k \in {1, 2, 3}}
  BY <1>2
<1>4. ASSUME NEW k \in {1, 2, 3} PROVE CharIn(x, at[k]) = <<a, b, c>>[k] /\ (k > 1 => at[k - 1] < at[k])
  BY <1>2
<1> QED BY <1>1, <1>2, <1>3, <1>4 DEF SpellsIn

LEMMA SpellsFour ==
    ASSUME NEW x, NEW token, NEW i, NEW j, NEW m, NEW o, NEW a, NEW b, NEW c, NEW d,
           SolidIn(x, token) = {i, j, m, o}, i < j, j < m, m < o,
           CharIn(x, i) = a, CharIn(x, j) = b, CharIn(x, m) = c, CharIn(x, o) = d
    PROVE  SpellsIn(x, token, <<a, b, c, d>>)
<1> DEFINE at == [k \in {1, 2, 3, 4} |-> IF k = 1 THEN i ELSE IF k = 2 THEN j ELSE IF k = 3 THEN m ELSE o]
<1>1. /\ DOMAIN <<a, b, c, d>> = {1, 2, 3, 4}
      /\ <<a, b, c, d>>[1] = a /\ <<a, b, c, d>>[2] = b /\ <<a, b, c, d>>[3] = c /\ <<a, b, c, d>>[4] = d
  OBVIOUS
<1>2. at \in [{1, 2, 3, 4} -> SolidIn(x, token)] /\ at[1] = i /\ at[2] = j /\ at[3] = m /\ at[4] = o
  OBVIOUS
<1> HIDE DEF at
<1>3. SolidIn(x, token) = {at[k] : k \in {1, 2, 3, 4}}
  BY <1>2
<1>4. ASSUME NEW k \in {1, 2, 3, 4}
      PROVE  CharIn(x, at[k]) = <<a, b, c, d>>[k] /\ (k > 1 => at[k - 1] < at[k])
  BY <1>2
<1> QED BY <1>1, <1>2, <1>3, <1>4 DEF SpellsIn

(* A word that stands alone.                                               *)
LEMMA WordStands ==
    ASSUME text \in Seq(Characters), NEW i, WordAt(i) # NoWord
    PROVE  /\ i \in 1..Len(text) /\ i + 1 \in Nat \ {0} /\ i + 1 <= Len(text) + 1
           /\ Ch(i) = WordAt(i) /\ Ch(i) \in Letters /\ Ch(i) \notin Blanks \cup {"("}
<1>1. i \in 1..Len(text)
  BY WordIs
<1>2. Ch(i) = WordAt(i) /\ Ch(i) \in Letters
  BY DEF WordAt
<1>3. Ch(i) \notin Blanks \cup {"("}
  BY <1>2 DEF Letters, Keywords, Blanks
<1> QED BY <1>1, <1>2, <1>3

(* A keyword at Here, with nothing of a word behind it.                    *)
AtKeyword(w) == /\ w \in Keywords /\ Ch(Here) = w
                /\ readIdentifier(Here) = Here + 1

(* The words behind it, and what is between them.                          *)
LEMMA WordsBehind ==
    ASSUME LexInv, ~ Finished, NEW w, AtKeyword(w)
    PROVE  LET c == CursorAt(Here + 1) IN
           /\ Here \in Nat \ {0} /\ Here + 1 <= Len(text) + 1
           /\ Second(c) = Nth(text, Here, 2) /\ Third(c) = Nth(text, Here, 3) /\ Fourth(c) = Nth(text, Here, 4)
           /\ Second(c) \in (Here + 1)..(Len(text) + 1)
           /\ \A i \in (Here + 1)..(Second(c) - 1) : Ch(i) \in Blanks
           /\ Ch(Here) \notin Blanks \cup {"("}
           /\ ReadsIn(text, Here) = w
<1>1. text \in Seq(Characters) /\ Len(text) \in Nat /\ Here \in Nat \ {0} /\ Here <= Len(text) + 1
  BY StartIs DEF LexInv
<1>2. Ch(Here) = w /\ w \in Letters /\ w \notin Blanks \cup {"(", NUL}
  BY DEF AtKeyword, Letters, Keywords, Blanks, NUL
<1>3. Here <= Len(text)
  BY <1>1, <1>2, InText
<1>4. CursorAt(Here + 1).position = Here + 1
  BY DEF CursorAt
<1>5. Here + 1 \in Nat \ {0} /\ Here + 1 <= Len(text) + 1
  BY <1>1, <1>3
<1>6. /\ Second(CursorAt(Here + 1)) = skipWhitespace(Here + 1)
      /\ Second(CursorAt(Here + 1)) \in (Here + 1)..(Len(text) + 1)
      /\ \A i \in (Here + 1)..(Second(CursorAt(Here + 1)) - 1) : Ch(i) \in Blanks
  BY <1>1, <1>4, <1>5, SkipIs DEF Second
<1>7. Second(CursorAt(Here + 1)) = Nth(text, Here, 2)
  BY <1>6, InTheText DEF Nth, NextIn
<1>8. Third(CursorAt(Here + 1)) = Nth(text, Here, 3)
  BY <1>7, InTheText DEF Third, Nth, NextIn
<1>9. Fourth(CursorAt(Here + 1)) = Nth(text, Here, 4)
  BY <1>8, InTheText DEF Fourth, Nth, NextIn
<1>10. WordAt(Here) = w
  BY <1>2 DEF WordAt, AtKeyword
<1>11. ReadsIn(text, Here) = w
  <2>1. CharIn(text, Here) # "("
    BY <1>2, InThisText
  <2> QED BY <1>10, <2>1, InTheText DEF ReadsIn
<1> QED BY <1>1, <1>2, <1>5, <1>6, <1>7, <1>8, <1>9, <1>11

(* A parenthesis or a word, at a place of the text.                        *)
LEMMA ReadsAre ==
    ASSUME NEW i, NEW w, ReadsIn(text, i) = w
    PROVE  /\ w = "(" <=> Ch(i) = "("
           /\ w # "(" => WordAt(i) = w
<1>1. WordAt(i) # "("
  BY Zenon DEF WordAt, NoWord, Letters, Keywords
<1> QED BY <1>1, InTheText, InThisText DEF ReadsIn

(* The solid characters from i to j.                                       *)
SolidTo(i, j) == {m \in i..j : CharIn(text, m) \notin Blanks}

LEMMA SolidOne ==
    ASSUME NEW i \in Nat, Ch(i) \notin Blanks
    PROVE  SolidTo(i, i) = {i}
BY InThisText DEF SolidTo

LEMMA SolidMore ==
    ASSUME NEW i \in Nat, NEW j \in Nat, NEW k \in Nat, i <= j, j < k,
           \A m \in (j + 1)..(k - 1) : Ch(m) \in Blanks,
           Ch(k) \notin Blanks
    PROVE  SolidTo(i, k) = SolidTo(i, j) \cup {k}
<1>1. \A m \in (j + 1)..(k - 1) : CharIn(text, m) \in Blanks
  BY InThisText
<1>2. CharIn(text, k) \notin Blanks
  BY InThisText
<1> QED BY <1>1, <1>2 DEF SolidTo

LEMMA TokenSolid ==
    ASSUME NEW type, NEW end \in Nat
    PROVE  LET token == Token(type, end, Start) IN
           /\ token.type = type /\ token.from = Here /\ token.to = end - 1 /\ token.to + 1 = end
           /\ type # "WITH_PARTITIONS" => SolidIn(text, token) = SolidTo(Here, end - 1)
BY DEF Token, SolidIn, DroppedIn, SolidTo

(* Types a keyword has with the words behind it: not of a sign.            *)
LEMMA CompoundIsNoSign == "SCOPE" \notin CompoundTypes
BY DEF CompoundTypes

LEMMA JoinedExact ==
    ASSUME LexInv, ~ Finished, NEW w, AtKeyword(w), w # "OPTION",
           NEW type \in CompoundTypes, NEW j \in Nat, NEW end \in Nat,
           Here < j, end = j + 1, j \in SolidIn(text, Token(type, end, Start)),
           \A c \in Compounds : type = c[1] => SpellsIn(text, Token(type, end, Start), c[2]),
           Fits(text, type, SkipIn(text, end))
    PROVE  ExactIn(text, Token(type, end, Start))
<1> DEFINE token == Token(type, end, Start)
<1>1. token.type = type /\ token.from = Here /\ token.to = end - 1 /\ token.to + 1 = end
  BY TokenSolid
<1>2. Here \in Nat /\ CharIn(text, Here) \notin Blanks /\ ReadsIn(text, Here) # "OPTION"
  BY WordsBehind, InThisText
<1>3. Longer(text, token)
  BY <1>1, <1>2 DEF Longer
<1>4. \A c \in Compounds : token.type = c[1] => SpellsIn(text, token, c[2])
  BY <1>1, Zenon
<1>5. token.type # "SCOPE" /\ ~ ScopeIn(text, Here)
  <2>1. CharIn(text, Here) # ":"
    BY InThisText DEF AtKeyword, Keywords
  <2> QED BY <1>1, <2>1, CompoundIsNoSign DEF ScopeIn
<1> HIDE DEF token
<1>6. ExactIn(text, token)
  BY <1>1, <1>2, <1>3, <1>4, <1>5 DEF ExactIn
<1> QED BY <1>6 DEF token

(* Types of compound keywords that nothing is asked of behind their words.  *)
Independent == CompoundTypes \ (Keys \cup {"WITH_CHECK", "WITH_PARTITIONS"})

LEMMA IndependentFits == \A type \in Independent : \A next : Fits(text, type, next)
BY DEF Independent, Fits

LEMMA PairsHead ==
    /\ \A t \in Pairs : t[1] # "OPTION" /\ t[2] # NoWord /\ t[3] \in Independent
    /\ \A t \in Triples : t[1] # "OPTION" /\ t[2] # NoWord /\ t[3] # NoWord /\ t[4] \in Independent
<1>1. ASSUME NEW t \in Pairs PROVE t[1] # "OPTION" /\ t[3] \in Independent
  BY DEF Pairs, Independent, CompoundTypes, Keys
<1>2. ASSUME NEW t \in Triples PROVE t[1] # "OPTION" /\ t[4] \in Independent
  BY DEF Triples, Independent, CompoundTypes, Keys
<1> QED BY <1>1, <1>2, PairsAre

(* Two, three and four words.                                              *)
LEMMA SecondIs ==
    ASSUME LexInv, ~ Finished, NEW w, AtKeyword(w),
           NEW second, second = Second(CursorAt(Here + 1)), WordAt(second) # NoWord
    PROVE  /\ second \in Nat /\ Here \in Nat /\ Here < second /\ second <= Len(text)
           /\ SolidTo(Here, second) = {Here, second}
           /\ Ch(second) = WordAt(second) /\ Ch(second) \notin Blanks
<1>1. text \in Seq(Characters) /\ Len(text) \in Nat
  BY DEF LexInv
<1>2. /\ Here \in Nat \ {0}
      /\ second \in (Here + 1)..(Len(text) + 1)
      /\ \A i \in (Here + 1)..(second - 1) : Ch(i) \in Blanks
      /\ Ch(Here) \notin Blanks
  BY WordsBehind
<1>3. second \in 1..Len(text) /\ Ch(second) = WordAt(second) /\ Ch(second) \notin Blanks
  BY <1>1, WordStands
<1>4. SolidTo(Here, Here) = {Here}
  BY <1>2, SolidOne
<1>5. second \in Nat /\ Here \in Nat /\ Here < second /\ Here <= Here
  BY <1>1, <1>2
<1>6. SolidTo(Here, second) = SolidTo(Here, Here) \cup {second}
  BY <1>2, <1>3, <1>5, SolidMore
<1> QED BY <1>1, <1>3, <1>4, <1>5, <1>6

(* The word behind the one at `last`.                                      *)
LEMMA WordBehind ==
    ASSUME LexInv, NEW first \in Nat, NEW last \in Nat, first < last, last <= Len(text),
           NEW next, next = skipWhitespace(last + 1), WordAt(next) # NoWord
    PROVE  /\ next \in Nat /\ last < next /\ next <= Len(text)
           /\ SolidTo(first, next) = SolidTo(first, last) \cup {next}
           /\ Ch(next) = WordAt(next) /\ Ch(next) \notin Blanks
<1>1. text \in Seq(Characters) /\ Len(text) \in Nat
  BY DEF LexInv
<1>2. last + 1 \in Nat \ {0} /\ last + 1 <= Len(text) + 1
  BY <1>1
<1>3. /\ next \in (last + 1)..(Len(text) + 1)
      /\ \A i \in (last + 1)..(next - 1) : Ch(i) \in Blanks
  BY <1>1, <1>2, SkipIs
<1>4. next \in 1..Len(text) /\ Ch(next) = WordAt(next) /\ Ch(next) \notin Blanks
  BY <1>1, WordStands
<1>5. next \in Nat /\ last < next /\ first <= last
  BY <1>1, <1>3
<1>6. SolidTo(first, next) = SolidTo(first, last) \cup {next}
  BY <1>3, <1>4, <1>5, SolidMore
<1> QED BY <1>4, <1>5, <1>6

LEMMA ThirdIs ==
    ASSUME LexInv, ~ Finished, NEW w, AtKeyword(w),
           NEW second, second = Second(CursorAt(Here + 1)), WordAt(second) # NoWord,
           NEW third, third = skipWhitespace(second + 1), WordAt(third) # NoWord
    PROVE  /\ second \in Nat /\ Here \in Nat /\ Here < second /\ Ch(second) = WordAt(second)
           /\ third \in Nat /\ second < third /\ Here < third /\ third <= Len(text)
           /\ SolidTo(Here, third) = {Here, second, third}
           /\ Ch(third) = WordAt(third) /\ Ch(third) \notin Blanks
<1>1. /\ second \in Nat /\ Here \in Nat /\ Here < second /\ second <= Len(text)
      /\ SolidTo(Here, second) = {Here, second}
      /\ Ch(second) = WordAt(second) /\ Ch(second) \notin Blanks
  BY SecondIs
<1>2. /\ third \in Nat /\ second < third /\ third <= Len(text)
      /\ SolidTo(Here, third) = SolidTo(Here, second) \cup {third}
      /\ Ch(third) = WordAt(third) /\ Ch(third) \notin Blanks
  BY <1>1, WordBehind
<1>3. Here < third
  BY <1>1, <1>2
<1> QED BY <1>1, <1>2, <1>3

LEMMA FourthIs ==
    ASSUME LexInv, ~ Finished, NEW w, AtKeyword(w),
           NEW second, second = Second(CursorAt(Here + 1)), WordAt(second) # NoWord,
           NEW third, third = skipWhitespace(second + 1), WordAt(third) # NoWord,
           NEW fourth, fourth = skipWhitespace(third + 1), WordAt(fourth) # NoWord
    PROVE  /\ fourth \in Nat /\ third < fourth
           /\ SolidTo(Here, fourth) = {Here, second, third, fourth}
           /\ Ch(fourth) = WordAt(fourth) /\ Ch(fourth) \notin Blanks
<1>1. /\ Here \in Nat /\ third \in Nat /\ Here < third /\ third <= Len(text)
      /\ SolidTo(Here, third) = {Here, second, third}
  BY ThirdIs
<1>2. /\ fourth \in Nat /\ third < fourth
      /\ SolidTo(Here, fourth) = SolidTo(Here, third) \cup {fourth}
      /\ Ch(fourth) = WordAt(fourth) /\ Ch(fourth) \notin Blanks
  <2>1. text \in Seq(Characters) /\ Len(text) \in Nat
    BY DEF LexInv
  <2>2. third + 1 \in Nat \ {0} /\ third + 1 <= Len(text) + 1
    BY <1>1, <2>1
  <2>3. /\ fourth \in (third + 1)..(Len(text) + 1)
        /\ \A i \in (third + 1)..(fourth - 1) : Ch(i) \in Blanks
    BY <2>1, <2>2, SkipIs
  <2>4. fourth \in 1..Len(text) /\ Ch(fourth) = WordAt(fourth) /\ Ch(fourth) \notin Blanks
    BY <2>1, WordStands
  <2>5. fourth \in Nat /\ third < fourth /\ Here <= third
    BY <1>1, <2>1, <2>3
  <2>6. SolidTo(Here, fourth) = SolidTo(Here, third) \cup {fourth}
    BY <1>1, <2>3, <2>4, <2>5, SolidMore
  <2> QED BY <2>4, <2>5, <2>6
<1> QED BY <1>1, <1>2

LEMMA PairExact ==
    ASSUME LexInv, ~ Finished, NEW w, AtKeyword(w), w # "OPTION", NEW v, v # NoWord,
           NEW second, second = Second(CursorAt(Here + 1)), WordAt(second) = v,
           NEW type \in CompoundTypes, type # "WITH_PARTITIONS",
           \A c \in Compounds : type = c[1] => c[2] = <<w, v>>,
           Fits(text, type, SkipIn(text, second + 1))
    PROVE  ExactIn(text, Token(type, second + 1, Start))
<1>1. /\ second \in Nat /\ Here \in Nat /\ Here < second
      /\ SolidTo(Here, second) = {Here, second}
      /\ Ch(second) = v /\ Ch(second) \notin Blanks
  BY SecondIs
<1>2. second + 1 \in Nat /\ (second + 1) - 1 = second
  BY <1>1
<1>3. SolidIn(text, Token(type, second + 1, Start)) = {Here, second}
  BY <1>1, <1>2, TokenSolid
<1>4. CharIn(text, Here) = w /\ CharIn(text, second) = v
  BY <1>1, InThisText DEF AtKeyword
<1>5. SpellsIn(text, Token(type, second + 1, Start), <<w, v>>)
  BY <1>1, <1>3, <1>4, SpellsTwo
<1>6. \A c \in Compounds : type = c[1] => SpellsIn(text, Token(type, second + 1, Start), c[2])
  BY <1>5, Zenon
<1>7. second \in SolidIn(text, Token(type, second + 1, Start))
  BY <1>3
<1> QED BY <1>1, <1>2, <1>6, <1>7, JoinedExact

LEMMA TripleExact ==
    ASSUME LexInv, ~ Finished, NEW w, AtKeyword(w), w # "OPTION", NEW v, v # NoWord, NEW u, u # NoWord,
           NEW second, second = Second(CursorAt(Here + 1)), WordAt(second) = v,
           NEW third, third = skipWhitespace(second + 1), WordAt(third) = u,
           NEW type \in Independent,
           \A c \in Compounds : type = c[1] => c[2] = <<w, v, u>>
    PROVE  ExactIn(text, Token(type, third + 1, Start))
<1>1. WordAt(second) # NoWord /\ WordAt(third) # NoWord
  OBVIOUS
<1>2. /\ second \in Nat /\ Here \in Nat /\ Here < second /\ Ch(second) = v
      /\ third \in Nat /\ second < third
      /\ SolidTo(Here, third) = {Here, second, third}
      /\ Ch(third) = u /\ Ch(third) \notin Blanks
  BY <1>1, ThirdIs
<1>3. third + 1 \in Nat /\ (third + 1) - 1 = third /\ Here < third
  BY <1>2
<1>30. type # "WITH_PARTITIONS" /\ type \in CompoundTypes /\ Fits(text, type, SkipIn(text, third + 1))
  BY IndependentFits DEF Independent
<1>4. SolidIn(text, Token(type, third + 1, Start)) = {Here, second, third}
  BY <1>2, <1>3, <1>30, TokenSolid
<1>5. CharIn(text, Here) = w /\ CharIn(text, second) = v /\ CharIn(text, third) = u
  BY <1>2, InThisText DEF AtKeyword
<1>6. SpellsIn(text, Token(type, third + 1, Start), <<w, v, u>>)
  BY <1>2, <1>4, <1>5, SpellsThree
<1>7. \A c \in Compounds : type = c[1] => SpellsIn(text, Token(type, third + 1, Start), c[2])
  BY <1>6, Zenon
<1>8. third \in SolidIn(text, Token(type, third + 1, Start))
  BY <1>4
<1> QED BY <1>2, <1>3, <1>30, <1>7, <1>8, JoinedExact

LEMMA FourExact ==
    ASSUME LexInv, ~ Finished, NEW w, AtKeyword(w), w # "OPTION",
           NEW v, v # NoWord, NEW u, u # NoWord, NEW y, y # NoWord,
           NEW second, second = Second(CursorAt(Here + 1)), WordAt(second) = v,
           NEW third, third = skipWhitespace(second + 1), WordAt(third) = u,
           NEW fourth, fourth = skipWhitespace(third + 1), WordAt(fourth) = y,
           NEW type \in Independent,
           \A c \in Compounds : type = c[1] => c[2] = <<w, v, u, y>>
    PROVE  ExactIn(text, Token(type, fourth + 1, Start))
<1>1. WordAt(second) # NoWord /\ WordAt(third) # NoWord /\ WordAt(fourth) # NoWord
  OBVIOUS
<1>2. /\ second \in Nat /\ Here \in Nat /\ Here < second /\ Ch(second) = v
      /\ third \in Nat /\ second < third /\ Here < third /\ third <= Len(text)
      /\ SolidTo(Here, third) = {Here, second, third}
      /\ Ch(third) = u
  BY <1>1, ThirdIs
<1>3. /\ fourth \in Nat /\ third < fourth
      /\ SolidTo(Here, fourth) = {Here, second, third, fourth}
      /\ Ch(fourth) = WordAt(fourth) /\ Ch(fourth) \notin Blanks
  BY <1>1, FourthIs
<1>4. Ch(fourth) = y
  BY <1>3
<1>5. fourth + 1 \in Nat /\ (fourth + 1) - 1 = fourth /\ Here < fourth
  BY <1>2, <1>3
<1>50. type # "WITH_PARTITIONS" /\ type \in CompoundTypes /\ Fits(text, type, SkipIn(text, fourth + 1))
  BY IndependentFits DEF Independent
<1>6. SolidIn(text, Token(type, fourth + 1, Start)) = {Here, second, third, fourth}
  BY <1>2, <1>3, <1>5, <1>50, TokenSolid
<1>7. CharIn(text, Here) = w /\ CharIn(text, second) = v /\ CharIn(text, third) = u /\ CharIn(text, fourth) = y
  BY <1>2, <1>4, InThisText DEF AtKeyword
<1>8. SpellsIn(text, Token(type, fourth + 1, Start), <<w, v, u, y>>)
  BY <1>2, <1>3, <1>6, <1>7, SpellsFour
<1>9. \A c \in Compounds : type = c[1] => SpellsIn(text, Token(type, fourth + 1, Start), c[2])
  BY <1>8, Zenon
<1>10. fourth \in SolidIn(text, Token(type, fourth + 1, Start))
  BY <1>6
<1> QED BY <1>3, <1>5, <1>50, <1>9, <1>10, JoinedExact

(* WITH ( PARTITIONS, and what may stand before the parenthesis.           *)
LEMMA PartitionsExact ==
    ASSUME LexInv, ~ Finished, AtKeyword("WITH"), WithPartitions("WITH", CursorAt(Here + 1))
    PROVE  ExactIn(text, Token("WITH_PARTITIONS", Partitions(CursorAt(Here + 1)) + 1, Start))
<1> DEFINE c == CursorAt(Here + 1)
           second == Second(c)
           open   == Parenthesis(c)
           last   == Partitions(c)
<1>1. text \in Seq(Characters) /\ Len(text) \in Nat
  BY DEF LexInv
<1>2. /\ Here \in Nat \ {0} /\ second \in (Here + 1)..(Len(text) + 1)
      /\ \A i \in (Here + 1)..(second - 1) : Ch(i) \in Blanks
  BY WordsBehind
<1>3. Ch(open) = "(" /\ WordAt(last) = "PARTITIONS"
  BY DEF WithPartitions
<1>4. open = (IF Ch(second) \in Letters THEN skipWhitespace(readIdentifier(second)) ELSE second)
  BY DEF Parenthesis
<1>5. last = skipWhitespace(open + 1)
  BY DEF Partitions
<1> HIDE DEF second, open, last
<1>6. second \in Nat \ {0} /\ second <= Len(text) + 1
  BY <1>1, <1>2
<1>7. /\ open \in second..(Len(text) + 1)
      /\ \A i \in second..(open - 1) : Ch(i) # "("
  <2>1. /\ readIdentifier(second) \in second..(Len(text) + 1)
        /\ \A i \in second..(readIdentifier(second) - 1) : Ch(i) # "("
    <3> DEFINE Name == Letters \cup Digits \cup {"#", "$"}
    <3>1. NUL \notin Name /\ "(" \notin Name
      BY DEF NUL, Letters, Keywords, Digits
    <3> HIDE DEF Name
    <3>2. /\ Behind(second, Name) \in second..(Len(text) + 1)
          /\ \A i \in second..(Behind(second, Name) - 1) : Ch(i) \in Name
      BY <1>1, <1>6, <3>1, BehindIs
    <3>3. readIdentifier(second) = Behind(second, Name)
      BY DEF readIdentifier, Name
    <3> QED BY <3>1, <3>2, <3>3
  <2>2. readIdentifier(second) \in Nat \ {0} /\ readIdentifier(second) <= Len(text) + 1
    BY <1>1, <1>6, <2>1
  <2>3. /\ skipWhitespace(readIdentifier(second)) \in readIdentifier(second)..(Len(text) + 1)
        /\ \A i \in readIdentifier(second)..(skipWhitespace(readIdentifier(second)) - 1) : Ch(i) \in Blanks
    BY <1>1, <2>2, SkipIs
  <2>4. "(" \notin Blanks
    BY DEF Blanks
  <2> DEFINE name == readIdentifier(second)
             gap  == skipWhitespace(readIdentifier(second))
  <2> HIDE DEF name, gap
  <2>5. ASSUME Ch(second) \in Letters PROVE open = gap
    BY <1>4, <2>5 DEF gap
  <2>6. ASSUME NEW i \in second..(gap - 1) PROVE Ch(i) # "("
    <3>1. name \in Int /\ gap \in Int /\ i \in Int /\ second <= i /\ i <= gap - 1
      BY <1>1, <1>6, <2>1, <2>2, <2>3 DEF name, gap
    <3>2. CASE i < name
      <4>1. i \in second..(name - 1)
        BY <3>1, <3>2
      <4> QED BY <2>1, <4>1 DEF name
    <3>3. CASE name <= i
      <4>1. i \in name..(gap - 1)
        BY <3>1, <3>3
      <4> QED BY <2>3, <2>4, <4>1 DEF name, gap
    <3> QED BY <3>1, <3>2, <3>3
  <2>7. gap \in second..(Len(text) + 1)
    BY <1>1, <1>6, <2>1, <2>2, <2>3 DEF gap
  <2>8. ASSUME Ch(second) \notin Letters PROVE open = second
    BY <1>4, <2>8
  <2> QED BY <1>1, <1>6, <2>5, <2>6, <2>7, <2>8
<1>8. open <= Len(text)
  <2>1. Ch(open) # NUL
    BY <1>3 DEF NUL
  <2> QED BY <1>1, <1>6, <1>7, <2>1, InText
<1>9. open \in Nat /\ open + 1 \in Nat \ {0} /\ open + 1 <= Len(text) + 1 /\ Here < open
  BY <1>1, <1>2, <1>6, <1>7, <1>8
<1>10. /\ last \in (open + 1)..(Len(text) + 1)
       /\ \A i \in (open + 1)..(last - 1) : Ch(i) \in Blanks
  BY <1>1, <1>5, <1>9, SkipIs
<1>11. WordAt(last) # NoWord
  BY <1>3, Zenon DEF NoWord
<1>12. last \in Nat /\ open < last /\ Here < last /\ last + 1 \in Nat /\ Ch(last) \notin Blanks
       /\ Ch(last) = "PARTITIONS"
  BY <1>1, <1>2, <1>3, <1>9, <1>10, <1>11, WordStands
<1> DEFINE token == Token("WITH_PARTITIONS", last + 1, Start)
<1>13. token.type = "WITH_PARTITIONS" /\ token.from = Here /\ token.to = last
  BY <1>12 DEF Token
<1>14. \A i \in (Here + 1)..(open - 1) : Ch(i) # "("
  <2>1. ASSUME NEW i \in (Here + 1)..(open - 1) PROVE Ch(i) # "("
    <3>1. i \in Int /\ Here + 1 <= i /\ i <= open - 1 /\ second \in Int
      BY <1>1, <1>2, <1>6, <1>9
    <3>2. CASE i < second
      <4>1. Ch(i) \in Blanks
        BY <1>2, <3>1, <3>2
      <4> QED BY <4>1 DEF Blanks
    <3>3. CASE second <= i
      <4>1. i \in second..(open - 1)
        BY <3>1, <3>3
      <4> QED BY <1>7, <4>1
    <3> QED BY <3>1, <3>2, <3>3
  <2> QED BY <2>1
<1> HIDE DEF token
<1>15. SolidIn(text, token) = {Here, open, last}
  <2>1. \A i : Ch(i) = CharIn(text, i)
    BY InThisText
  <2>2. {Here, open, last} \subseteq SolidIn(text, token)
    <3>1. {Here, open, last} \subseteq token.from..token.to
      BY <1>2, <1>9, <1>12, <1>13
    <3>2. Here \notin DroppedIn(text, token)
      BY <1>2, <1>13 DEF DroppedIn
    <3>3. ASSUME NEW i \in {open, last} PROVE i \notin DroppedIn(text, token)
      <4>1. open \in (token.from + 1)..i
        BY <1>2, <1>9, <1>12, <1>13
      <4> QED BY <1>3, <2>1, <4>1 DEF DroppedIn
    <3>4. CharIn(text, Here) \notin Blanks /\ CharIn(text, open) \notin Blanks /\ CharIn(text, last) \notin Blanks
      <4>1. Ch(Here) \notin Blanks
        BY WordsBehind
      <4>2. "(" \notin Blanks
        BY DEF Blanks
      <4> QED BY <1>3, <1>12, <2>1, <4>1, <4>2
    <3> QED BY <3>1, <3>2, <3>3, <3>4 DEF SolidIn
  <2>3. ASSUME NEW i \in SolidIn(text, token), i \notin {Here, open, last} PROVE FALSE
    <3>1. /\ i \in Here..last /\ i \notin DroppedIn(text, token) /\ Ch(i) \notin Blanks
      BY <1>13, <2>1, <2>3 DEF SolidIn
    <3>2. i \in Int /\ Here + 1 <= i /\ i <= last - 1 /\ Here \in Int
      BY <1>2, <1>12, <2>3, <3>1
    <3>3. CASE i < open
      <4>1. i \in (token.from + 1)..token.to
        BY <1>12, <1>13, <3>2
      <4>2. \A j \in (token.from + 1)..i : CharIn(text, j) # "("
        BY <1>9, <1>13, <1>14, <2>1, <3>2, <3>3
      <4> QED BY <1>13, <2>1, <3>1, <4>1, <4>2 DEF DroppedIn
    <3>4. CASE open < i
      <4>1. i \in (open + 1)..(last - 1)
        BY <1>9, <1>12, <3>2, <3>4
      <4> QED BY <1>10, <3>1, <4>1
    <3> QED BY <1>9, <2>3, <3>2, <3>3, <3>4
  <2> QED BY <2>2, <2>3
<1>16. SpellsIn(text, token, <<"WITH", "(", "PARTITIONS">>)
  <2>1. CharIn(text, Here) = "WITH" /\ CharIn(text, open) = "(" /\ CharIn(text, last) = "PARTITIONS"
    BY <1>3, <1>12, InThisText DEF AtKeyword
  <2> QED BY <1>9, <1>12, <1>15, <2>1, SpellsThree
<1>17. \A d \in Compounds : "WITH_PARTITIONS" = d[1] => SpellsIn(text, token, d[2])
  BY <1>16, CompoundWords
<1>18. "WITH" # "OPTION" /\ "WITH_PARTITIONS" \in CompoundTypes /\ last \in SolidIn(text, token)
  BY <1>15 DEF CompoundTypes
<1>19. Fits(text, "WITH_PARTITIONS", SkipIn(text, last + 1))
  BY DEF Fits, Keys
<1>20. ExactIn(text, Token("WITH_PARTITIONS", last + 1, Start))
  BY <1>12, <1>17, <1>18, <1>19, JoinedExact DEF token
<1> QED BY <1>20 DEF last

(* A keyword that joins nothing.                                           *)
NoneJoins(w, c) == /\ TwoWords(w, c) = {} /\ ThreeWords(w, c) = {}
                   /\ ~ KeyOfGrant(w, c) /\ ~ WithCheck(w, c)
                   /\ ~ NotDistinct(w, c) /\ ~ WithPartitions(w, c)

LEMMA KeywordUnjoined ==
    ASSUME LexInv, ~ Finished, NEW w, AtKeyword(w), NoneJoins(w, CursorAt(Here + 1))
    PROVE  Unjoined(text, Here)
<1> DEFINE c == CursorAt(Here + 1)
<1>1. /\ Second(c) = Nth(text, Here, 2) /\ Third(c) = Nth(text, Here, 3) /\ Fourth(c) = Nth(text, Here, 4)
      /\ ReadsIn(text, Here) = w /\ Nth(text, Here, 1) = Here
  BY WordsBehind DEF Nth
<1> HIDE DEF c
<1>2. ASSUME NEW a, NEW b, b # "(", WordsFrom(text, Here, <<a, b>>)
      PROVE  w = a /\ WordAt(Second(c)) = b
  <2>1. ReadsIn(text, Nth(text, Here, 1)) = a /\ ReadsIn(text, Nth(text, Here, 2)) = b
    BY <1>2 DEF WordsFrom
  <2> QED BY <1>1, <1>2, <2>1, ReadsAre
<1>3. ASSUME NEW a, NEW b, NEW d, b # "(", d # "(", WordsFrom(text, Here, <<a, b, d>>)
      PROVE  w = a /\ WordAt(Second(c)) = b /\ WordAt(Third(c)) = d
  <2>1. /\ ReadsIn(text, Nth(text, Here, 1)) = a /\ ReadsIn(text, Nth(text, Here, 2)) = b
        /\ ReadsIn(text, Nth(text, Here, 3)) = d
    BY <1>3 DEF WordsFrom
  <2> QED BY <1>1, <1>3, <2>1, ReadsAre
<1>4. ASSUME NEW t \in Pairs, WordsFrom(text, Here, <<t[1], t[2]>>) PROVE FALSE
  <2>1. t[2] # "("
    BY DEF Pairs
  <2>2. t \in TwoWords(w, c)
    BY <1>2, <1>4, <2>1 DEF TwoWords
  <2> QED BY <2>2 DEF NoneJoins, c
<1>5. ASSUME NEW t \in Triples, WordsFrom(text, Here, <<t[1], t[2], t[3]>>) PROVE FALSE
  <2>1. t[2] # "(" /\ t[3] # "("
    BY DEF Triples
  <2>2. t \in ThreeWords(w, c)
    BY <1>3, <1>5, <2>1 DEF ThreeWords
  <2> QED BY <2>2 DEF NoneJoins, c
<1>6. ASSUME WordsFrom(text, Here, <<"IS", "NOT", "DISTINCT", "FROM">>) PROVE FALSE
  <2>1. /\ ReadsIn(text, Nth(text, Here, 1)) = "IS" /\ ReadsIn(text, Nth(text, Here, 2)) = "NOT"
        /\ ReadsIn(text, Nth(text, Here, 3)) = "DISTINCT" /\ ReadsIn(text, Nth(text, Here, 4)) = "FROM"
    BY <1>6 DEF WordsFrom
  <2>2. "NOT" # "(" /\ "DISTINCT" # "(" /\ "FROM" # "("
    OBVIOUS
  <2>3. WordAt(Second(c)) = "NOT" /\ WordAt(Third(c)) = "DISTINCT" /\ WordAt(Fourth(c)) = "FROM"
    BY <1>1, <2>1, <2>2, ReadsAre
  <2>4. NotDistinct(w, c)
    BY <1>1, <2>1, <2>3 DEF NotDistinct
  <2> QED BY <2>4 DEF NoneJoins, c
<1>7. ASSUME WordsFrom(text, Here, <<"WITH", "(", "PARTITIONS">>) PROVE FALSE
  <2>1. /\ ReadsIn(text, Nth(text, Here, 1)) = "WITH" /\ ReadsIn(text, Nth(text, Here, 2)) = "("
        /\ ReadsIn(text, Nth(text, Here, 3)) = "PARTITIONS"
    BY <1>7 DEF WordsFrom
  <2>2. "PARTITIONS" # "(" /\ "(" \notin Letters
    BY Zenon DEF Letters, Keywords
  <2>3. Ch(Second(c)) = "(" /\ WordAt(Third(c)) = "PARTITIONS"
    BY <1>1, <2>1, <2>2, ReadsAre
  <2>4. Parenthesis(c) = Second(c)
    BY <2>2, <2>3 DEF Parenthesis
  <2>5. Partitions(c) = Third(c)
    BY <2>4 DEF Partitions, Third
  <2>6. WithPartitions(w, c)
    BY <1>1, <2>1, <2>3, <2>4, <2>5 DEF WithPartitions
  <2> QED BY <2>6 DEF NoneJoins, c
<1>8. ASSUME NEW d \in Compounds, d[1] \notin Keys \cup {"WITH_CHECK"}, WordsFrom(text, Here, d[2])
      PROVE  FALSE
  <2>1. CompoundsAre(d)
    BY CompoundsAreParts
  <2> QED BY <1>4, <1>5, <1>6, <1>7, <1>8, <2>1, Zenon DEF CompoundsAre
<1>10. ASSUME NEW d \in Compounds, d[1] \in Keys, WordsFrom(text, Here, d[2]), ScopeIn(text, Nth(text, Here, 3))
       PROVE  FALSE
  <2>1. d[2] = <<"ASYMMETRIC", "KEY">> \/ d[2] = <<"SYMMETRIC", "KEY">>
    BY <1>10, CompoundWords DEF Keys
  <2>2. PICK v \in {"ASYMMETRIC", "SYMMETRIC"} : d[2] = <<v, "KEY">>
    BY <2>1
  <2>3. w = v /\ WordAt(Second(c)) = "KEY"
    BY <1>2, <1>10, <2>2
  <2>4. Two(Third(c)) = <<":", ":">>
    BY <1>1, <1>10, InThisText DEF ScopeIn, Two
  <2>5. KeyOfGrant(w, c)
    BY <2>3, <2>4 DEF KeyOfGrant, Grants
  <2> QED BY <2>5 DEF NoneJoins, c
<1>9. ASSUME WordsFrom(text, Here, <<"WITH", "CHECK">>) PROVE ReadsIn(text, Nth(text, Here, 3)) = "OPTION"
  <2>1. w = "WITH" /\ WordAt(Second(c)) = "CHECK"
    <3>1. "CHECK" # "("
      OBVIOUS
    <3> QED BY <1>2, <1>9, <3>1
  <2>2. WordAt(Third(c)) = "OPTION"
    BY <2>1 DEF NoneJoins, WithCheck, c
  <2>3. Ch(Third(c)) # "("
    BY <2>2 DEF WordAt, NoWord
  <2> QED BY <1>1, <2>2, <2>3, InTheText, InThisText DEF ReadsIn
<1> QED BY <1>8, <1>9, <1>10 DEF Unjoined

(* Nothing is asked behind a token that is no compound keyword.            *)
LEMMA OtherFits == \A type : type \notin CompoundTypes => \A next : Fits(text, type, next)
BY DEF CompoundTypes, Keys, Fits

(* A word that does not join: it is its characters.                        *)
LEMMA PlainExact ==
    ASSUME LexInv, ~ Finished, NEW w, AtKeyword(w), NEW type, type \notin CompoundTypes, type # "SCOPE",
           Unjoined(text, Here)
    PROVE  ExactIn(text, Token(type, Here + 1, Start))
<1> DEFINE token == Token(type, Here + 1, Start)
<1>1. Here \in Nat /\ Here + 1 \in Nat /\ CharIn(text, Here) \notin Blanks
      /\ ReadsIn(text, Here) = w /\ CharIn(text, Here) = w
  BY WordsBehind, InThisText DEF AtKeyword
<1>2. token.type = type /\ token.from = Here /\ token.to = Here
  BY <1>1 DEF Token
<1>3. /\ \A c \in Compounds : type # c[1]
      /\ \A next : Fits(text, type, next)
  BY CompoundTypesAre, OtherFits
<1>5. ~ ScopeIn(text, Here)
  <2>1. CharIn(text, Here) # ":"
    BY <1>1 DEF AtKeyword, Keywords
  <2> QED BY <2>1 DEF ScopeIn
<1> HIDE DEF token
<1>4. ExactIn(text, token)
  BY <1>1, <1>2, <1>3, <1>5 DEF ExactIn
<1> QED BY <1>4 DEF token

LEMMA KeywordExact ==
    ASSUME LexInv, ~ Finished, NEW w, AtKeyword(w)
    PROVE  LET found == checkCompoundKeyword(w, CursorAt(Here + 1)) IN
           ExactIn(text, Token(found.type, found.end, Start))
<1> DEFINE c == CursorAt(Here + 1)
           X == checkCompoundKeyword(w, c)
           Exact == ExactIn(text, Token(X.type, X.end, Start))
<1>1. \/ TwoWords(w, c) # {} /\ X = Joined((CHOOSE t \in TwoWords(w, c) : TRUE)[3], Second(c) + 1, c)
      \/ ThreeWords(w, c) # {} /\ X = Joined((CHOOSE t \in ThreeWords(w, c) : TRUE)[4], Third(c) + 1, c)
      \/ KeyOfGrant(w, c) /\ X = Found(Grants[w], Second(c) + 1, readTo(c, Third(c)))
      \/ WithCheck(w, c) /\ X = Joined("WITH_CHECK", Second(c) + 1, c)
      \/ NotDistinct(w, c) /\ X = Joined("IS_NOT_DISTINCT_FROM", Fourth(c) + 1, c)
      \/ WithPartitions(w, c) /\ X = Joined("WITH_PARTITIONS", Partitions(c) + 1, c)
      \/ NoneJoins(w, c) /\ X = Restored(w, c)
  BY DEF checkCompoundKeyword, NoneJoins
<1> SUFFICES Exact
  OBVIOUS
<1>2. \A type, end : X = Joined(type, end, c) => X.type = type /\ X.end = end
  BY DEF Joined, Found
<1> HIDE DEF X
<1>3. w \in Keywords
  BY DEF AtKeyword
<1>4. CASE TwoWords(w, c) # {} /\ X = Joined((CHOOSE t \in TwoWords(w, c) : TRUE)[3], Second(c) + 1, c)
  <2> DEFINE t == CHOOSE t \in TwoWords(w, c) : TRUE
  <2>1. t \in TwoWords(w, c)
    BY <1>4
  <2>2. X = Joined(t[3], Second(c) + 1, c)
    BY <1>4
  <2> HIDE DEF t
  <2>3. t \in Pairs /\ t[1] = w /\ t[2] = WordAt(Second(c))
    BY <2>1 DEF TwoWords
  <2>4. w # "OPTION" /\ t[2] # NoWord /\ t[3] \in Independent
    BY <2>3, PairsHead
  <2>5. \A d \in Compounds : t[3] = d[1] => d[2] = <<w, t[2]>>
    BY <2>3, PairWords
  <2>6. /\ t[3] \in CompoundTypes /\ t[3] # "WITH_PARTITIONS"
        /\ Fits(text, t[3], SkipIn(text, Second(c) + 1))
    BY <2>4, IndependentFits DEF Independent
  <2>7. ExactIn(text, Token(t[3], Second(c) + 1, Start))
    BY <2>3, <2>4, <2>5, <2>6, PairExact, Zenon
  <2> QED BY <1>2, <2>2, <2>7
<1>5. CASE ThreeWords(w, c) # {} /\ X = Joined((CHOOSE t \in ThreeWords(w, c) : TRUE)[4], Third(c) + 1, c)
  <2> DEFINE t == CHOOSE t \in ThreeWords(w, c) : TRUE
  <2>1. t \in ThreeWords(w, c)
    BY <1>5
  <2>2. X = Joined(t[4], Third(c) + 1, c)
    BY <1>5
  <2> HIDE DEF t
  <2>3. t \in Triples /\ t[1] = w /\ t[2] = WordAt(Second(c)) /\ t[3] = WordAt(Third(c))
    BY <2>1 DEF ThreeWords
  <2>4. w # "OPTION" /\ t[2] # NoWord /\ t[3] # NoWord /\ t[4] \in Independent
    BY <2>3, PairsHead
  <2>5. \A d \in Compounds : t[4] = d[1] => d[2] = <<w, t[2], t[3]>>
    BY <2>3, TripleWords
  <2>6. Third(c) = skipWhitespace(Second(c) + 1)
    BY DEF Third
  <2>7. ExactIn(text, Token(t[4], Third(c) + 1, Start))
    BY <2>3, <2>4, <2>5, <2>6, TripleExact
  <2> QED BY <1>2, <2>2, <2>7
<1>6. CASE KeyOfGrant(w, c) /\ X = Found(Grants[w], Second(c) + 1, readTo(c, Third(c)))
  <2>1. w \in {"ASYMMETRIC", "SYMMETRIC"} /\ WordAt(Second(c)) = "KEY"
    BY <1>6 DEF KeyOfGrant, Grants
  <2>2. "KEY" # NoWord /\ w # "OPTION"
    BY <2>1, Zenon DEF NoWord
  <2>3. Grants[w] \in CompoundTypes /\ Grants[w] # "WITH_CHECK" /\ Grants[w] # "WITH_PARTITIONS"
    BY <2>1 DEF Grants, CompoundTypes
  <2>4. \A d \in Compounds : Grants[w] = d[1] => d[2] = <<w, "KEY">>
    BY <2>1, CompoundWords DEF Grants
  <2>5. Fits(text, Grants[w], SkipIn(text, Second(c) + 1))
    <3>1. Two(Third(c)) = <<":", ":">>
      BY <1>6 DEF KeyOfGrant
    <3>2. Third(c) = SkipIn(text, Second(c) + 1)
      BY InTheText DEF Third
    <3>3. ScopeIn(text, SkipIn(text, Second(c) + 1))
      BY <3>1, <3>2, InThisText DEF ScopeIn, Two
    <3> QED BY <2>3, <3>3 DEF Fits
  <2>6. ExactIn(text, Token(Grants[w], Second(c) + 1, Start))
    BY <2>1, <2>2, <2>3, <2>4, <2>5, PairExact, Zenon
  <2>7. X.type = Grants[w] /\ X.end = Second(c) + 1
    BY <1>6 DEF Found
  <2> QED BY <2>6, <2>7
<1>7. CASE WithCheck(w, c) /\ X = Joined("WITH_CHECK", Second(c) + 1, c)
  <2>1. w = "WITH" /\ WordAt(Second(c)) = "CHECK" /\ WordAt(Third(c)) # "OPTION"
    BY <1>7 DEF WithCheck
  <2>2. "CHECK" # NoWord /\ w # "OPTION"
    BY <2>1, Zenon DEF NoWord
  <2>3. \A d \in Compounds : "WITH_CHECK" = d[1] => d[2] = <<w, "CHECK">>
    BY <2>1, CompoundWords
  <2>4. ReadsIn(text, SkipIn(text, Second(c) + 1)) # "OPTION"
    <3>1. Third(c) = SkipIn(text, Second(c) + 1)
      BY InTheText DEF Third
    <3>2. "OPTION" # "("
      OBVIOUS
    <3> QED BY <2>1, <3>1, <3>2, ReadsAre
  <2>6. /\ "WITH_CHECK" \in CompoundTypes /\ "WITH_CHECK" # "WITH_PARTITIONS"
        /\ Fits(text, "WITH_CHECK", SkipIn(text, Second(c) + 1))
    BY <2>4 DEF CompoundTypes, Fits, Keys
  <2>5. ExactIn(text, Token("WITH_CHECK", Second(c) + 1, Start))
    BY <2>1, <2>2, <2>3, <2>6, PairExact, Zenon
  <2> QED BY <1>2, <1>7, <2>5
<1>8. CASE NotDistinct(w, c) /\ X = Joined("IS_NOT_DISTINCT_FROM", Fourth(c) + 1, c)
  <2>1. /\ w = "IS" /\ WordAt(Second(c)) = "NOT" /\ WordAt(Third(c)) = "DISTINCT"
        /\ WordAt(Fourth(c)) = "FROM"
    BY <1>8 DEF NotDistinct
  <2>2. "NOT" # NoWord /\ "DISTINCT" # NoWord /\ "FROM" # NoWord /\ w # "OPTION"
    BY <2>1, Zenon DEF NoWord
  <2>6. "IS_NOT_DISTINCT_FROM" \in Independent
    BY DEF Independent, CompoundTypes, Keys
  <2>3. \A d \in Compounds : "IS_NOT_DISTINCT_FROM" = d[1] => d[2] = <<w, "NOT", "DISTINCT", "FROM">>
    BY <2>1, CompoundWords
  <2>4. Third(c) = skipWhitespace(Second(c) + 1) /\ Fourth(c) = skipWhitespace(Third(c) + 1)
    BY DEF Third, Fourth
  <2>5. ExactIn(text, Token("IS_NOT_DISTINCT_FROM", Fourth(c) + 1, Start))
    BY <2>1, <2>2, <2>3, <2>4, <2>6, FourExact
  <2> QED BY <1>2, <1>8, <2>5
<1>9. CASE WithPartitions(w, c) /\ X = Joined("WITH_PARTITIONS", Partitions(c) + 1, c)
  <2>1. w = "WITH"
    BY <1>9 DEF WithPartitions
  <2>2. ExactIn(text, Token("WITH_PARTITIONS", Partitions(c) + 1, Start))
    BY <1>9, <2>1, PartitionsExact
  <2> QED BY <1>2, <1>9, <2>2
<1>10. CASE NoneJoins(w, c) /\ X = Restored(w, c)
  <2>1. X.type = w /\ X.end = Here + 1
    BY <1>10 DEF Restored, Found, CursorAt
  <2>2. w \notin CompoundTypes /\ w # "SCOPE"
    BY <1>3 DEF Keywords, CompoundTypes
  <2>3. Unjoined(text, Here)
    BY <1>10, KeywordUnjoined
  <2> QED BY <2>1, <2>2, <2>3, PlainExact
<1> QED BY <1>1, <1>4, <1>5, <1>6, <1>7, <1>8, <1>9, <1>10

(* Words that are no keywords are not looked behind.                       *)
LEMMA NameAlone ==
    ASSUME NEW c
    PROVE  checkCompoundKeyword("IDENT", c) = Restored("IDENT", c)
<1>1. \A t \in Pairs : t[1] # "IDENT"
  BY DEF Pairs
<1>2. \A t \in Triples : t[1] # "IDENT"
  BY DEF Triples
<1>3. TwoWords("IDENT", c) = {} /\ ThreeWords("IDENT", c) = {}
  BY <1>1, <1>2 DEF TwoWords, ThreeWords
<1>4. ~ KeyOfGrant("IDENT", c) /\ ~ WithCheck("IDENT", c) /\ ~ NotDistinct("IDENT", c) /\ ~ WithPartitions("IDENT", c)
  BY DEF KeyOfGrant, Grants, WithCheck, NotDistinct, WithPartitions
<1> QED BY <1>3, <1>4 DEF checkCompoundKeyword

LEMMA WordExact ==
    ASSUME LexInv, ~ Finished, WordToken
    PROVE  \E type, end, c : Return(type, end, Start, c) /\ ExactIn(text, Token(type, end, Start))
<1>1. text \in Seq(Characters) /\ Len(text) \in Nat /\ Here \in Nat \ {0} /\ Here <= Len(text) + 1
  BY StartIs DEF LexInv
<1> DEFINE p == readIdentifier(Here)
           found == checkCompoundKeyword(LookupIdent(Here, p), readTo(Start, p))
<1>2. Ch(Here) \in Letters /\ Return(found.type, found.end, Start, found.cursor)
  BY DEF WordToken
<1>3. p \in Here..(Len(text) + 1) /\ p > Here
  BY <1>1, <1>2, IdentifierIs
<1>4. p \in Nat /\ Here <= p
  BY <1>1, <1>3
<1>5. readTo(Start, p) = CursorAt(p)
  BY <1>4, BehindStart
<1>6. Ch(Here) \notin Blanks \cup {"("}
  BY <1>2 DEF Letters, Keywords, Blanks
<1> SUFFICES ExactIn(text, Token(found.type, found.end, Start))
  BY <1>2
<1>7. CASE p = Here + 1 /\ Ch(Here) \in Keywords
  <2>1. LookupIdent(Here, p) = Ch(Here)
    BY <1>7 DEF LookupIdent
  <2>2. AtKeyword(Ch(Here))
    BY <1>7 DEF AtKeyword
  <2>3. found = checkCompoundKeyword(Ch(Here), CursorAt(Here + 1))
    BY <1>5, <1>7, <2>1
  <2> HIDE DEF found
  <2> QED BY <2>2, <2>3, KeywordExact
<1>8. CASE ~ (p = Here + 1 /\ Ch(Here) \in Keywords)
  <2>1. LookupIdent(Here, p) = "IDENT"
    BY <1>8 DEF LookupIdent
  <2>2. found = Restored("IDENT", CursorAt(p))
    BY <1>5, <2>1, NameAlone
  <2>3. found.type = "IDENT" /\ found.end = p
    BY <2>2 DEF Restored, Found, CursorAt
  <2> DEFINE token == Token("IDENT", p, Start)
  <2>4. token.type = "IDENT" /\ token.from = Here /\ token.to = p - 1
    BY DEF Token
  <2>5. /\ \A c \in Compounds : "IDENT" # c[1]
        /\ \A next : Fits(text, "IDENT", next)
        /\ ~ ScopeIn(text, Here)
    <3>1. "IDENT" \notin CompoundTypes
      BY DEF CompoundTypes
    <3>2. CharIn(text, Here) # ":"
      BY <1>2, InThisText DEF Letters, Keywords
    <3> QED BY <3>1, <3>2, CompoundTypesAre, OtherFits DEF ScopeIn
  <2>6. CharIn(text, Here) \notin Blanks \cup {"("}
    BY <1>6, InThisText
  <2>7. CASE p = Here + 1
    <3>1. Ch(Here) \notin Keywords
      BY <1>8, <2>7
    <3>2. ReadsIn(text, Here) = Ch(Here)
      <4>1. WordAt(Here) = Ch(Here)
        BY <1>2, <2>7 DEF WordAt
      <4> QED BY <2>6, <4>1, InTheText DEF ReadsIn
    <3>3. Unjoined(text, Here)
      <4>1. ASSUME NEW d \in Compounds, WordsFrom(text, Here, d[2]) PROVE FALSE
        <5>1. 1 \in DOMAIN d[2] /\ d[2][1] \in Keywords
          <6>1. 1 \in DOMAIN d[2]
            BY DEF Compounds
          <6> QED BY <6>1, CompoundTypesAre
        <5>2. ReadsIn(text, Nth(text, Here, 1)) = d[2][1]
          BY <4>1, <5>1 DEF WordsFrom
        <5> QED BY <3>1, <3>2, <5>1, <5>2 DEF Nth
      <4>2. ~ WordsFrom(text, Here, <<"WITH", "CHECK">>)
        <5>1. ReadsIn(text, Nth(text, Here, 1)) # "WITH"
          BY <3>1, <3>2 DEF Nth, Keywords
        <5> QED BY <5>1 DEF WordsFrom
      <4> QED BY <4>1, <4>2 DEF Unjoined
    <3>4. token.to = Here
      BY <1>1, <2>4, <2>7
    <3>5. ReadsIn(text, Here) = CharIn(text, Here)
      BY <3>2, InThisText
    <3> HIDE DEF token
    <3>6. ExactIn(text, token)
      BY <2>4, <2>5, <2>6, <3>3, <3>4, <3>5 DEF ExactIn
    <3> HIDE DEF found
    <3> QED BY <2>3, <3>6 DEF token
  <2>8. CASE p # Here + 1
    <3>1. Here + 1 \in (Here + 1)..(p - 1)
      BY <1>1, <1>3, <1>4, <2>8
    <3>2. Ch(Here + 1) \in Letters \cup Digits \cup {"#", "$"}
      <4>1. NUL \notin Letters \cup Digits \cup {"#", "$"}
        BY DEF NUL, Letters, Keywords, Digits
      <4>2. \A j \in Here..(p - 1) : Ch(j) \in Letters \cup Digits \cup {"#", "$"}
        BY <1>1, <4>1, BehindIs DEF readIdentifier
      <4> QED BY <1>1, <1>4, <3>1, <4>2
    <3>3. CharIn(text, Here + 1) \notin Blanks
      BY <3>2, InThisText DEF Letters, Keywords, Digits, Blanks
    <3>4. Longer(text, token)
      <4>1. Here + 1 \in SolidIn(text, token)
        BY <1>1, <2>4, <3>1, <3>3 DEF SolidIn, DroppedIn
      <4> QED BY <1>1, <2>4, <4>1 DEF Longer
    <3>5. ReadsIn(text, Here) # "OPTION"
      <4>1. WordAt(Here) = NoWord
        BY <2>8 DEF WordAt
      <4>2. NoWord # "OPTION"
        BY Zenon DEF NoWord
      <4> QED BY <2>6, <4>1, <4>2, InTheText DEF ReadsIn
    <3> HIDE DEF token
    <3>6. ExactIn(text, token)
      BY <2>4, <2>5, <2>6, <3>4, <3>5 DEF ExactIn
    <3> HIDE DEF found
    <3> QED BY <2>3, <3>6 DEF token
  <2> QED BY <2>7, <2>8
<1> QED BY <1>7, <1>8

(* Tokens that begin with a sign, a mark or a digit are no words.          *)
LEMMA SignExact ==
    ASSUME LexInv, ~ Finished, NEW type, NEW end, NEW place, Ch(Here) \notin Bare, type \notin CompoundTypes,
           type = "SCOPE" <=> Two(Here) = <<":", ":">>
    PROVE  ExactIn(text, Token(type, end, place))
<1> DEFINE token == Token(type, end, place)
<1>1. token.type = type /\ token.from = Here
  BY DEF Token
<1>2. CharIn(text, Here) \notin Blanks /\ CharIn(text, Here) \notin Bare
  BY StartIs, InThisText
<1>3. \A c \in Compounds : type # c[1]
  BY CompoundTypesAre
<1>4. ReadsIn(text, Here) # "OPTION"
  <2>1. "OPTION" \in Bare /\ "OPTION" # "(" /\ "OPTION" # NoWord
    BY Zenon DEF Bare, Letters, Keywords, NoWord
  <2>2. ReadsIn(text, Here) \in {"(", CharIn(text, Here), NoWord}
    BY Zenon DEF ReadsIn, WordIn
  <2> QED BY <1>2, <2>1, <2>2
<1>6. type = "SCOPE" <=> ScopeIn(text, Here)
  BY InThisText DEF ScopeIn, Two
<1>7. \A next : Fits(text, type, next)
  BY OtherFits
<1> HIDE DEF token
<1>5. ExactIn(text, token)
  BY <1>1, <1>2, <1>3, <1>4, <1>6, <1>7 DEF ExactIn
<1> QED BY <1>5 DEF token

LEMMA ParenthesisExact ==
    ASSUME LexInv, ~ Finished, NEW place, NEW type, Ch(Here) = "(", type \notin CompoundTypes, type # "SCOPE"
    PROVE  ExactIn(text, Token(type, Here + 1, place))
<1> DEFINE token == Token(type, Here + 1, place)
<1>1. token.type = type /\ token.from = Here /\ token.to = Here
  BY StartIs DEF Token
<1>2. CharIn(text, Here) \notin Blanks /\ CharIn(text, Here) = "("
  BY StartIs, InThisText
<1>3. \A c \in Compounds : type # c[1]
  BY CompoundTypesAre
<1>4. ReadsIn(text, Here) = "(" /\ "(" \notin Keywords /\ "(" # "WITH" /\ "(" # "OPTION"
  BY <1>2 DEF ReadsIn, Keywords
<1>5. Unjoined(text, Here)
  <2>1. ASSUME NEW d \in Compounds, WordsFrom(text, Here, d[2]) PROVE FALSE
    <3>1. 1 \in DOMAIN d[2]
      BY DEF Compounds
    <3>2. ReadsIn(text, Nth(text, Here, 1)) = d[2][1]
      BY <2>1, <3>1 DEF WordsFrom
    <3> QED BY <1>4, <3>2, CompoundTypesAre DEF Nth
  <2>2. ~ WordsFrom(text, Here, <<"WITH", "CHECK">>)
    <3>1. ReadsIn(text, Nth(text, Here, 1)) # "WITH"
      BY <1>4 DEF Nth
    <3> QED BY <3>1 DEF WordsFrom
  <2> QED BY <2>1, <2>2 DEF Unjoined
<1>7. ~ ScopeIn(text, Here) /\ \A next : Fits(text, type, next)
  BY <1>2, OtherFits DEF ScopeIn
<1> HIDE DEF token
<1>6. ExactIn(text, token)
  BY <1>1, <1>2, <1>3, <1>4, <1>5, <1>7 DEF ExactIn
<1> QED BY <1>6 DEF token

Exactly == \E type, end, place, c : Return(type, end, place, c) /\ ExactIn(text, Token(type, end, place))

LEMMA EmitExact ==
    ASSUME LexInv, ~ Finished, NEW type, NEW end, Emit(type, end), Ch(Here) \notin Bare, type \notin CompoundTypes,
           type # "SCOPE", Two(Here) # <<":", ":">>
    PROVE  Exactly
BY SignExact DEF Emit, Exactly

LEMMA LiteralExact ==
    ASSUME LexInv, ~ Finished, NEW type, NEW i, NEW end, Literal(type, i, end),
           Ch(Here) \notin Bare, type \notin CompoundTypes,
           type # "SCOPE", Two(Here) # <<":", ":">>
    PROVE  Exactly
<1>1. Ch(end) # NUL => Exactly
  BY EmitExact DEF Literal
<1>2. Ch(end) = NUL => Return(type, end, Start, readTo(Start, end))
  BY DEF Literal
<1> QED BY <1>1, <1>2, SignExact DEF Exactly

LEMMA SignsAreNotBare ==
    /\ \A d \in Doubles : d[1] \notin Bare /\ d[3] \notin CompoundTypes
    /\ \A s \in Singles : s[1] \notin Bare \/ s[1] = "("
    /\ \A s \in Singles : s[2] \notin CompoundTypes /\ s[2] # "SCOPE"
    /\ \A d \in Doubles : d[3] = "SCOPE" <=> d[1] = ":" /\ d[2] = ":"
    /\ <<":", ":", "SCOPE">> \in Doubles
<1>1. ASSUME NEW d \in Doubles PROVE d[1] \notin Bare /\ d[3] \notin CompoundTypes
  <2>1. d[1] \in {"+", "-", "*", "/", "%", "&", "|", "^", "!", "<", ">", ":"}
    BY DEF Doubles
  <2>2. d[1] \notin Bare
    BY <2>1 DEF Bare, Letters, Keywords
  <2>3. d[3] \notin CompoundTypes
    BY DoublesAre DEF CompoundTypes
  <2> QED BY <2>2, <2>3
<1>2. ASSUME NEW s \in Singles PROVE s[1] \notin Bare \/ s[1] = "("
  <2> DEFINE Signs == {"+", "-", "*", "/", "%", "&", "|", "^", "~", "=", "!", "<",
                       ">", ",", ";", "(", ")", "]", ".", ":", "?", "{"}
  <2>1. \E c \in Signs : \E t : s = <<c, t>>
    BY Zenon DEF Singles
  <2>2. \A c \in Signs : c \notin Bare \/ c = "("
    BY DEF Bare, Letters, Keywords
  <2> HIDE DEF Signs
  <2>3. PICK c \in Signs : \E t : s = <<c, t>>
    BY <2>1
  <2>4. s[1] = c
    BY <2>3
  <2> QED BY <2>2, <2>4
<1>3. ASSUME NEW s \in Singles PROVE s[2] \notin CompoundTypes /\ s[2] # "SCOPE"
  BY SinglesAre DEF CompoundTypes
<1>4. ASSUME NEW d \in Doubles PROVE d[3] = "SCOPE" <=> d[1] = ":" /\ d[2] = ":"
  BY DEF Doubles
<1>5. <<":", ":", "SCOPE">> \in Doubles
  BY Zenon DEF Doubles
<1> QED BY <1>1, <1>2, <1>3, <1>4, <1>5

LEMMA NextExact ==
    ASSUME LexInv, NextToken
    PROVE  Exactly
<1>1. ~ Finished
  BY NextSteps DEF Stepped, Return
<1>2. LiteralTypes \cap CompoundTypes = {} /\ "SCOPE" \notin LiteralTypes
  BY DEF LiteralTypes, CompoundTypes
<1>10. Ch(Here) # ":" => Two(Here) # <<":", ":">>
  BY DEF Two
<1>3. CASE OperatorToken
  <2>1. ASSUME NEW d \in Doubles, Two(Here) = <<d[1], d[2]>>,
               Return(d[3], Here + 2, readTo(Start, Here + 1), readTo(Start, Here + 2))
        PROVE  Exactly
    <3>1. Ch(Here) = d[1]
      BY <2>1 DEF Two
    <3>3. d[3] = "SCOPE" <=> Two(Here) = <<":", ":">>
      BY <2>1, SignsAreNotBare DEF Two
    <3>2. ExactIn(text, Token(d[3], Here + 2, readTo(Start, Here + 1)))
      BY <1>1, <3>1, <3>3, SignsAreNotBare, SignExact
    <3> QED BY <2>1, <3>2 DEF Exactly
  <2>2. ASSUME NEW s \in Singles, Ch(Here) = s[1], Emit(s[2], Here + 1),
               \A d \in Doubles : Two(Here) # <<d[1], d[2]>>
        PROVE  Exactly
    <3>1. CASE s[1] = "("
      <4>1. ExactIn(text, Token(s[2], Here + 1, Start))
        BY <1>1, <2>2, <3>1, SignsAreNotBare, ParenthesisExact
      <4> QED BY <2>2, <4>1 DEF Emit, Exactly
    <3>2. CASE s[1] # "("
      <4> DEFINE d == <<":", ":", "SCOPE">>
      <4>1. d \in Doubles /\ d[1] = ":" /\ d[2] = ":"
        BY SignsAreNotBare
      <4>2. Two(Here) # <<":", ":">>
        BY <2>2, <4>1
      <4> QED BY <1>1, <2>2, <3>2, <4>2, SignsAreNotBare, EmitExact
    <3> QED BY <3>1, <3>2
  <2>3. \/ \E d \in Doubles :
             /\ Two(Here) = <<d[1], d[2]>>
             /\ Return(d[3], Here + 2, readTo(Start, Here + 1), readTo(Start, Here + 2))
        \/ \E s \in Singles : /\ Ch(Here) = s[1] /\ Emit(s[2], Here + 1)
                              /\ \A d \in Doubles : Two(Here) # <<d[1], d[2]>>
    BY <1>3 DEF OperatorToken
  <2> QED BY <2>1, <2>2, <2>3
<1>4. CASE CommentToken
  <2>1. Ch(Here) \in {"-", "/"} /\ \E end : Emit("COMMENT", end)
    BY <1>4 DEF CommentToken, Two
  <2>2. Ch(Here) \notin Bare /\ Ch(Here) # ":" /\ "COMMENT" \notin CompoundTypes /\ "COMMENT" # "SCOPE"
    BY <1>2, <2>1 DEF Bare, Letters, Keywords, LiteralTypes
  <2> QED BY <1>1, <1>10, <2>1, <2>2, EmitExact
<1>5. CASE QuotedToken
  <2>1. /\ Ch(Here) \in {"[", Quote, "'", "n"}
        /\ \E type \in {"IDENT", "STRING", "NSTRING"} : \E i, end : Literal(type, i, end)
    BY <1>5, Zenon DEF QuotedToken, Two, Quote
  <2>2. Quote \notin Bare /\ Quote # ":"
    BY Zenon DEF Bare, Letters, Keywords, Quote
  <2>3. "[" \notin Bare /\ "'" \notin Bare /\ "n" \notin Bare
    BY DEF Bare, Letters, Keywords
  <2>4. {"IDENT", "STRING", "NSTRING"} \subseteq LiteralTypes
    BY DEF LiteralTypes
  <2>5. Ch(Here) # ":"
    BY <2>1, <2>2
  <2> QED BY <1>1, <1>2, <1>10, <2>1, <2>2, <2>3, <2>4, <2>5, LiteralExact
<1>6. CASE NumberToken
  <2>1. /\ Ch(Here) \in {".", "$", "0", "1"}
        /\ \E type \in {"FLOAT", "MONEY_LIT", "BINARY", "INT"} : \E end : Emit(type, end)
    BY <1>6 DEF NumberToken, Two, Digits
  <2>2. Ch(Here) \notin Bare /\ Ch(Here) # ":"
    BY <2>1 DEF Bare, Letters, Keywords
  <2>3. {"FLOAT", "MONEY_LIT", "BINARY", "INT"} \subseteq LiteralTypes
    BY DEF LiteralTypes
  <2> QED BY <1>1, <1>2, <1>10, <2>1, <2>2, <2>3, EmitExact
<1>7. CASE NameToken
  <2>1. /\ Ch(Here) \in {"@", "$", "#"}
        /\ \E type \in {"TEMPVAR", "VARIABLE", "SYSVAR", "IDENT"} : \E end : Emit(type, end)
    BY <1>7 DEF NameToken, Two
  <2>2. Ch(Here) \notin Bare /\ Ch(Here) # ":"
    BY <2>1 DEF Bare, Letters, Keywords
  <2>3. {"TEMPVAR", "VARIABLE", "SYSVAR", "IDENT"} \subseteq LiteralTypes
    BY DEF LiteralTypes
  <2> QED BY <1>1, <1>2, <1>10, <2>1, <2>2, <2>3, EmitExact
<1>8. CASE WordToken
  BY <1>1, <1>8, WordExact DEF Exactly
<1>9. CASE EOFToken
  <2>1. Ch(Here) = NUL /\ Return("EOF", Here, Start, readChar(Start))
    BY <1>9 DEF EOFToken
  <2>2. Ch(Here) \notin Bare /\ Ch(Here) # ":" /\ "EOF" \notin CompoundTypes /\ "EOF" # "SCOPE"
    BY <2>1 DEF Bare, Letters, Keywords, NUL, CompoundTypes
  <2>3. ExactIn(text, Token("EOF", Here, Start))
    BY <1>1, <1>10, <2>2, SignExact
  <2> QED BY <2>1, <2>3 DEF Exactly
<1> QED BY <1>3, <1>4, <1>5, <1>6, <1>7, <1>8, <1>9 DEF NextToken

-----------------------------------------------------------------------------
(* White space passed over twice is passed over once.                      *)
LEMMA SkipOver ==
    ASSUME text \in Seq(Characters), NEW i \in Nat \ {0}, NEW q \in Nat \ {0}, i <= q, q <= Len(text) + 1,
           \A j \in i..(q - 1) : Ch(j) \in Blanks
    PROVE  skipWhitespace(q) = skipWhitespace(i)
<1> DEFINE a == skipWhitespace(i)
           b == skipWhitespace(q)
<1>1. Len(text) \in Nat /\ i <= Len(text) + 1
  OBVIOUS
<1>2. /\ a \in i..(Len(text) + 1)
      /\ \A j \in i..(a - 1) : Ch(j) \in Blanks
      /\ Ch(a) \notin Blanks
  BY <1>1, SkipIs
<1>3. /\ b \in q..(Len(text) + 1)
      /\ \A j \in q..(b - 1) : Ch(j) \in Blanks
      /\ Ch(b) \notin Blanks
  BY <1>1, SkipIs
<1> HIDE DEF a, b
<1>4. ~ (a < q)
  BY <1>1, <1>2
<1>5. ~ (a < b)
  BY <1>1, <1>2, <1>3, <1>4
<1>6. ~ (b < a)
  BY <1>1, <1>2, <1>3
<1>7. a = b
  BY <1>1, <1>2, <1>3, <1>5, <1>6
<1> QED BY <1>7 DEF a, b

(* Each token is what its words say, and the next one is the next word.     *)
Adjacent(x, s) ==
    \A t \in DOMAIN s : t + 1 \in DOMAIN s => s[t + 1].from = SkipIn(x, s[t].to + 1)
CompoundInv ==
    /\ \A t \in DOMAIN tokens : ExactIn(text, tokens[t])
    /\ Adjacent(text, tokens)
    /\ tokens # <<>> /\ ~ Ended(tokens) =>
           SkipIn(text, cursor.position) = SkipIn(text, tokens[Len(tokens)].to + 1)

LEMMA InitCompound == Init => CompoundInv
BY DEF Init, CompoundInv, Adjacent

LEMMA StepCompound ==
    ASSUME LexInv, CompoundInv, NextToken
    PROVE  CompoundInv'
<1>1. PICK type \in Types, end \in Nat, c \in Cursors : \E place :
          /\ Reading(type, end, place, c.position)
          /\ Return(type, end, place, c)
  BY NextSteps DEF Stepped
<1> DEFINE q == c.position
<1>2. PICK place : Reading(type, end, place, q) /\ Return(type, end, place, c)
  BY <1>1
<1>20. q \in Nat
  BY DEF Cursors
<1> HIDE DEF q
<1> DEFINE new == Token(type, end, place)
           n == Len(tokens) + 1
<1>3. ~ Finished /\ ~ Ended(tokens) /\ text' = text /\ cursor' = c /\ tokens' = Append(tokens, new)
  BY <1>2, InThisText DEF Return
<1>4. /\ text \in Seq(Characters) /\ Len(text) \in Nat
      /\ tokens \in Seq(Tokens) /\ Len(tokens) \in Nat /\ DOMAIN tokens = 1..Len(tokens)
  BY DEF LexInv
<1>5. new.from = Here /\ new.to + 1 = end /\ new.type = type
  BY DEF Token
<1>6. PICK type2, end2, place2, c2 : /\ Return(type2, end2, place2, c2)
                                     /\ ExactIn(text, Token(type2, end2, place2))
  BY NextExact DEF Exactly
<1>7. tokens' = Append(tokens, Token(type2, end2, place2))
  BY <1>6 DEF Return
<1> HIDE DEF new
<1>8. /\ DOMAIN tokens' = 1..n /\ tokens'[n] = new /\ Len(tokens') = n /\ tokens' # <<>>
      /\ \A t \in 1..Len(tokens) : tokens'[t] = tokens[t]
  BY <1>3, <1>4
<1>9. ExactIn(text, new)
  <2>1. tokens'[n] = Token(type2, end2, place2)
    BY <1>4, <1>7
  <2> QED BY <1>6, <1>8, <2>1
<1>10. \A t \in DOMAIN tokens' : ExactIn(text, tokens'[t])
  <2>1. ASSUME NEW t \in 1..n PROVE ExactIn(text, tokens'[t])
    <3>1. CASE t = n
      BY <1>8, <1>9, <3>1
    <3>2. CASE t # n
      <4>1. t \in 1..Len(tokens)
        BY <1>4, <3>2
      <4> QED BY <1>4, <1>8, <4>1 DEF CompoundInv
    <3> QED BY <3>1, <3>2
  <2> QED BY <1>8, <2>1
<1>11. Here = SkipIn(text, cursor.position)
  BY InTheText DEF Here, Start, readTo
<1>12. Adjacent(text, tokens')
  <2>1. ASSUME NEW t \in 1..n, t + 1 \in 1..n PROVE tokens'[t + 1].from = SkipIn(text, tokens'[t].to + 1)
    <3>1. t \in 1..Len(tokens) /\ tokens'[t] = tokens[t]
      BY <1>4, <1>8, <2>1
    <3>2. CASE t + 1 = n
      <4>1. t = Len(tokens) /\ tokens # <<>>
        <5>1. t = Len(tokens)
          <6>1. Len(tokens) \in Nat /\ t + 1 = Len(tokens) + 1
            BY <1>4, <3>2
          <6>2. t \in Int
            BY <1>4, <2>1
          <6> QED BY <6>1, <6>2
        <5>2. t \in DOMAIN tokens
          BY <1>4, <3>1
        <5>3. tokens # <<>>
          <6> SUFFICES ASSUME tokens = <<>> PROVE FALSE
            OBVIOUS
          <6>1. DOMAIN tokens = {}
            OBVIOUS
          <6> QED BY <5>2, <6>1
        <5> QED BY <5>1, <5>3
      <4>2. SkipIn(text, cursor.position) = SkipIn(text, tokens[t].to + 1)
        BY <1>3, <4>1 DEF CompoundInv
      <4> QED BY <1>5, <1>8, <1>11, <3>1, <3>2, <4>2
    <3>3. CASE t + 1 # n
      <4>1. t + 1 \in 1..Len(tokens) /\ tokens'[t + 1] = tokens[t + 1]
        BY <1>4, <1>8, <2>1, <3>3
      <4> QED BY <1>4, <3>1, <4>1 DEF CompoundInv, Adjacent
    <3> QED BY <3>2, <3>3
  <2> QED BY <1>8, <2>1 DEF Adjacent
<1>13. ~ Ended(tokens') => SkipIn(text, cursor'.position) = SkipIn(text, tokens'[Len(tokens')].to + 1)
  <2> SUFFICES ASSUME ~ Ended(tokens')
               PROVE  SkipIn(text, cursor'.position) = SkipIn(text, tokens'[Len(tokens')].to + 1)
    OBVIOUS
  <2>1. type # "EOF"
    BY <1>5, <1>8 DEF Ended
  <2>2. /\ Here < end /\ q <= Len(text) + 1 /\ end <= q
        /\ \A i \in end..(q - 1) : Ch(i) \in Blanks
    BY <1>2, <2>1 DEF Reading
  <2>3. Here \in Nat \ {0}
    BY <1>3, StartIs
  <2>4. end \in Nat \ {0} /\ q \in Nat \ {0}
    BY <1>20, <2>2, <2>3
  <2>5. skipWhitespace(q) = skipWhitespace(end)
    BY <1>4, <2>2, <2>4, SkipOver
  <2>6. cursor'.position = q
    BY <1>3 DEF q
  <2> QED BY <1>5, <1>8, <2>5, <2>6, InTheText
<1> QED BY <1>3, <1>10, <1>12, <1>13 DEF CompoundInv

LEMMA NextCompound == LexInv /\ CompoundInv /\ [Next]_vars => CompoundInv'
<1> SUFFICES ASSUME LexInv, CompoundInv, [Next]_vars PROVE CompoundInv'
  OBVIOUS
<1>1. CASE NextToken
  BY <1>1, StepCompound
<1>2. CASE UNCHANGED vars
  BY <1>2 DEF vars, CompoundInv
<1> QED BY <1>1, <1>2 DEF Next

(* A token that is one word and white space is the word.                   *)
LEMMA SpellsOne ==
    ASSUME NEW x, NEW token, token.from \in Nat, token.to \in Nat, ExactIn(x, token),
           NEW w \in Bare, SpellsIn(x, token, <<w>>)
    PROVE  /\ token.to = token.from
           /\ ReadsIn(x, token.from) = w
           /\ Unjoined(x, token.from)
<1>1. DOMAIN <<w>> = {1} /\ <<w>>[1] = w
  OBVIOUS
<1>2. PICK at \in [{1} -> SolidIn(x, token)] : /\ SolidIn(x, token) = {at[k] : k \in {1}}
                                               /\ CharIn(x, at[1]) = w
  BY <1>1 DEF SpellsIn
<1>3. SolidIn(x, token) = {at[1]} /\ at[1] \in SolidIn(x, token)
  BY <1>2
<1>4. at[1] \in token.from..token.to
  BY <1>3 DEF SolidIn
<1>5. token.from \in SolidIn(x, token)
  BY <1>4 DEF SolidIn, DroppedIn, ExactIn
<1>6. CharIn(x, token.from) = w
  BY <1>2, <1>3, <1>5
<1>7. ~ Longer(x, token)
  BY <1>3, <1>5 DEF Longer
<1> QED BY <1>6, <1>7 DEF ExactIn

(* The words of a compound keyword, at most four, are bare.                *)
LEMMA WordsAreBare ==
    ASSUME NEW words, \/ \E c \in Compounds : words = c[2]
                      \/ words = <<"WITH", "CHECK">>
    PROVE  /\ \E n \in 1..4 : DOMAIN words = 1..n
           /\ \A k \in DOMAIN words : words[k] \in Bare
<1> DEFINE Short == (\E n \in 1..4 : DOMAIN words = 1..n) /\ \A k \in DOMAIN words : words[k] \in Bare
<1>1. ASSUME NEW a \in Bare, NEW b \in Bare, words = <<a, b>> PROVE Short
  <2>1. DOMAIN words = 1..2 /\ 2 \in 1..4 /\ \A k \in 1..2 : words[k] \in Bare
    BY <1>1
  <2> QED BY <2>1
<1>2. ASSUME NEW a \in Bare, NEW b \in Bare, NEW c \in Bare, words = <<a, b, c>> PROVE Short
  <2>1. DOMAIN words = 1..3 /\ 3 \in 1..4 /\ \A k \in 1..3 : words[k] \in Bare
    BY <1>2
  <2> QED BY <2>1
<1>3. ASSUME NEW a \in Bare, NEW b \in Bare, NEW c \in Bare, NEW d \in Bare, words = <<a, b, c, d>> PROVE Short
  <2>1. DOMAIN words = 1..4 /\ 4 \in 1..4 /\ \A k \in 1..4 : words[k] \in Bare
    BY <1>3
  <2> QED BY <2>1
<1>4. /\ {"END", "CONVERSATION", "TRUNCATE", "TABLE", "CREATE", "RULE", "BEGIN", "ATOMIC", "WITH",
          "XMLNAMESPACES", "NOCHECK", "NEXT", "VALUE", "FOR", "IS", "DISTINCT", "FROM", "XML", "SCHEMA"} \subseteq Bare
      /\ {"COLLECTION", "NOT", "CHECK", "ASYMMETRIC", "KEY", "SYMMETRIC", "(", "PARTITIONS"} \subseteq Bare
  BY DEF Bare, Letters, Keywords
<1>5. \/ \E a \in Bare, b \in Bare : words = <<a, b>>
      \/ \E a \in Bare, b \in Bare, c \in Bare : words = <<a, b, c>>
      \/ \E a \in Bare, b \in Bare, c \in Bare, d \in Bare : words = <<a, b, c, d>>
  <2>1. CASE words = <<"WITH", "CHECK">>
    BY <1>4, <2>1
  <2>2. ASSUME NEW e \in Compounds, words = e[2]
        PROVE  \/ \E a \in Bare, b \in Bare : words = <<a, b>>
               \/ \E a \in Bare, b \in Bare, c \in Bare : words = <<a, b, c>>
               \/ \E a \in Bare, b \in Bare, c \in Bare, d \in Bare : words = <<a, b, c, d>>
    BY <1>4, <2>2 DEF Compounds
  <2> QED BY <2>1, <2>2
<1> HIDE DEF Short
<1>6. Short
  BY <1>1, <1>2, <1>3, <1>5
<1> QED BY <1>6 DEF Short

(* Tokens that are such words, one after the other.                        *)
LEMMA FollowIs ==
    ASSUME LexInv, CompoundInv, NEW t \in DOMAIN tokens,
           NEW words, \E n \in 1..4 : DOMAIN words = 1..n,
           \A k \in DOMAIN words : words[k] \in Bare,
           Follow(t, words)
    PROVE  /\ WordsFrom(text, tokens[t].from, words)
           /\ Unjoined(text, tokens[t].from)
           /\ \A k \in DOMAIN words : tokens[t + k - 1].from = Nth(text, tokens[t].from, k)
<1>1. tokens \in Seq(Tokens) /\ DOMAIN tokens = 1..Len(tokens) /\ t \in Nat
  BY DEF LexInv
<1> DEFINE At(k) == tokens[t + k - 1]
           i == tokens[t].from
<1>2. ASSUME NEW k \in DOMAIN words
      PROVE  /\ t + k - 1 \in DOMAIN tokens
             /\ At(k).to = At(k).from
             /\ ReadsIn(text, At(k).from) = words[k]
             /\ Unjoined(text, At(k).from)
  <2>1. t + k - 1 \in DOMAIN tokens /\ SpellsIn(text, At(k), <<words[k]>>)
    BY InTheText DEF Follow
  <2>2. At(k) \in Tokens /\ ExactIn(text, At(k))
    BY <1>1, <2>1 DEF CompoundInv
  <2>3. At(k).from \in Nat /\ At(k).to \in Nat
    BY <2>2 DEF Tokens
  <2> HIDE DEF At
  <2>4. /\ At(k).to = At(k).from /\ ReadsIn(text, At(k).from) = words[k]
        /\ Unjoined(text, At(k).from)
    BY <2>1, <2>2, <2>3, SpellsOne
  <2> QED BY <2>1, <2>4
<1>3. ASSUME NEW k \in DOMAIN words, k \in Nat, k >= 1, k + 1 \in DOMAIN words
      PROVE  At(k + 1).from = NextIn(text, At(k).from)
  <2>1. t + k - 1 \in DOMAIN tokens /\ (t + k - 1) + 1 = t + (k + 1) - 1 /\ t + (k + 1) - 1 \in DOMAIN tokens
    BY <1>1, <1>2, <1>3
  <2>2. tokens[(t + k - 1) + 1].from = SkipIn(text, tokens[t + k - 1].to + 1)
    BY <2>1 DEF CompoundInv, Adjacent
  <2>3. tokens[t + k - 1].to = tokens[t + k - 1].from
    BY <1>2
  <2> QED BY <2>1, <2>2, <2>3 DEF NextIn
<1>4. PICK n \in 1..4 : DOMAIN words = 1..n
  OBVIOUS
<1>5. At(1).from = i
  BY <1>1
<1> HIDE DEF At, i
<1>6. At(1).from = Nth(text, i, 1)
  BY <1>5 DEF Nth
<1>7. 2 \in DOMAIN words => At(2).from = Nth(text, i, 2)
  <2> SUFFICES ASSUME 2 \in DOMAIN words PROVE At(2).from = Nth(text, i, 2)
    OBVIOUS
  <2>1. 1 \in DOMAIN words /\ 1 + 1 = 2
    BY <1>4
  <2>2. At(2).from = NextIn(text, At(1).from)
    BY <1>3, <2>1
  <2> QED BY <1>5, <2>2 DEF Nth
<1>8. 3 \in DOMAIN words => At(3).from = Nth(text, i, 3)
  <2> SUFFICES ASSUME 3 \in DOMAIN words PROVE At(3).from = Nth(text, i, 3)
    OBVIOUS
  <2>1. 2 \in DOMAIN words /\ 2 + 1 = 3
    BY <1>4
  <2>2. At(3).from = NextIn(text, At(2).from)
    BY <1>3, <2>1
  <2> QED BY <1>7, <2>1, <2>2 DEF Nth
<1>9. 4 \in DOMAIN words => At(4).from = Nth(text, i, 4)
  <2> SUFFICES ASSUME 4 \in DOMAIN words PROVE At(4).from = Nth(text, i, 4)
    OBVIOUS
  <2>1. 3 \in DOMAIN words /\ 3 + 1 = 4
    BY <1>4
  <2>2. 3 \in Nat /\ 3 >= 1
    OBVIOUS
  <2>3. At(3 + 1).from = NextIn(text, At(3).from)
    BY <1>3, <2>1, <2>2, Zenon
  <2>4. At(4).from = NextIn(text, At(3).from)
    BY <2>1, <2>3, Zenon
  <2> QED BY <1>8, <2>1, <2>4 DEF Nth
<1>10. ASSUME NEW k \in DOMAIN words PROVE At(k).from = Nth(text, i, k)
  <2>1. k \in {1, 2, 3, 4}
    BY <1>4
  <2> QED BY <1>6, <1>7, <1>8, <1>9, <2>1
<1>11. WordsFrom(text, i, words)
  BY <1>2, <1>10 DEF WordsFrom
<1>12. Unjoined(text, i)
  <2>1. 1 \in DOMAIN words
    BY <1>4
  <2> QED BY <1>2, <1>5, <2>1
<1> QED BY <1>10, <1>11, <1>12 DEF At, i

(* The token behind two words stands where the third word is looked for.   *)
LEMMA ThirdToken ==
    ASSUME LexInv, CompoundInv, NEW t \in DOMAIN tokens,
           NEW words, DOMAIN words = 1..2, \A k \in DOMAIN words : words[k] \in Bare,
           Follow(t, words), t + 2 \in DOMAIN tokens
    PROVE  /\ tokens[t + 2].from = Nth(text, tokens[t].from, 3)
           /\ WordsFrom(text, tokens[t].from, words)
           /\ Unjoined(text, tokens[t].from)
<1>1. tokens \in Seq(Tokens) /\ DOMAIN tokens = 1..Len(tokens) /\ t \in Nat
  BY DEF LexInv
<1>2. (\E n \in 1..4 : DOMAIN words = 1..n) /\ 2 \in DOMAIN words
  <2>1. 2 \in 1..4
    OBVIOUS
  <2> QED BY <2>1
<1>3. /\ WordsFrom(text, tokens[t].from, words) /\ Unjoined(text, tokens[t].from)
      /\ tokens[t + 2 - 1].from = Nth(text, tokens[t].from, 2)
  BY <1>2, FollowIs
<1>4. t + 1 \in DOMAIN tokens /\ t + 2 - 1 = t + 1 /\ (t + 1) + 1 = t + 2
  BY <1>1
<1>5. tokens[t + 1].to = tokens[t + 1].from
  <2>1. Spells(tokens[t + 2 - 1], <<words[2]>>) /\ words[2] \in Bare
    BY <1>2 DEF Follow
  <2>2. SpellsIn(text, tokens[t + 1], <<words[2]>>)
    BY <1>4, <2>1, InTheText
  <2>3. ExactIn(text, tokens[t + 1]) /\ tokens[t + 1] \in Tokens
    BY <1>1, <1>4 DEF CompoundInv
  <2>4. tokens[t + 1].from \in Nat /\ tokens[t + 1].to \in Nat
    BY <2>3 DEF Tokens
  <2> QED BY <2>1, <2>2, <2>3, <2>4, SpellsOne
<1>6. tokens[t + 2].from = SkipIn(text, tokens[t + 1].to + 1)
  BY <1>4 DEF CompoundInv, Adjacent
<1> QED BY <1>3, <1>4, <1>5, <1>6 DEF Nth, NextIn

LEMMA CompoundExact == LexInv /\ CompoundInv => CompoundsAreExact
<1> SUFFICES ASSUME LexInv, CompoundInv PROVE CompoundsAreExact
  OBVIOUS
<1>1. tokens \in Seq(Tokens) /\ DOMAIN tokens = 1..Len(tokens)
  BY DEF LexInv
<1>2. ASSUME NEW t \in DOMAIN tokens
      PROVE  /\ ExactIn(text, tokens[t]) /\ tokens[t] \in Tokens
             /\ tokens[t].from \in Nat /\ tokens[t].to \in Nat /\ t \in Nat
  <2>1. tokens[t] \in Tokens /\ t \in Nat
    BY <1>1
  <2>2. tokens[t].from \in Nat /\ tokens[t].to \in Nat
    BY <2>1 DEF Tokens
  <2>3. ExactIn(text, tokens[t])
    BY DEF CompoundInv
  <2> QED BY <2>1, <2>2, <2>3
<1>3. ASSUME NEW t \in DOMAIN tokens, NEW c \in Compounds
      PROVE  /\ tokens[t].type = c[1] => Spells(tokens[t], c[2])
             /\ c[1] \notin Keys \cup {"WITH_CHECK"} => ~ Follow(t, c[2])
             /\ c[1] \in Keys /\ Follow(t, c[2]) /\ t + 2 \in DOMAIN tokens => tokens[t + 2].type # "SCOPE"
  <2>0. (\E n \in 1..4 : DOMAIN c[2] = 1..n) /\ \A k \in DOMAIN c[2] : c[2][k] \in Bare
    BY WordsAreBare
  <2>1. tokens[t].type = c[1] => Spells(tokens[t], c[2])
    BY <1>2, InTheText DEF ExactIn
  <2>2. ASSUME c[1] \notin Keys \cup {"WITH_CHECK"}, Follow(t, c[2]) PROVE FALSE
    <3>1. WordsFrom(text, tokens[t].from, c[2]) /\ Unjoined(text, tokens[t].from)
      BY <2>0, <2>2, FollowIs
    <3> QED BY <2>2, <3>1 DEF Unjoined
  <2>3. ASSUME c[1] \in Keys, Follow(t, c[2]), t + 2 \in DOMAIN tokens
        PROVE  tokens[t + 2].type # "SCOPE"
    <3>1. c[2] = <<"ASYMMETRIC", "KEY">> \/ c[2] = <<"SYMMETRIC", "KEY">>
      BY <2>3, CompoundWords DEF Keys
    <3>2. DOMAIN c[2] = 1..2
      BY <3>1
    <3>3. /\ tokens[t + 2].from = Nth(text, tokens[t].from, 3)
          /\ WordsFrom(text, tokens[t].from, c[2]) /\ Unjoined(text, tokens[t].from)
      BY <2>0, <2>3, <3>2, ThirdToken
    <3>4. ~ ScopeIn(text, tokens[t + 2].from)
      BY <2>3, <3>3 DEF Unjoined
    <3> QED BY <1>2, <2>3, <3>4 DEF ExactIn
  <2> QED BY <2>1, <2>2, <2>3
<1>4. ASSUME NEW t \in DOMAIN tokens, t + 1 \in DOMAIN tokens
      PROVE  Fits(text, tokens[t].type, tokens[t + 1].from)
  <2>1. tokens[t + 1].from = SkipIn(text, tokens[t].to + 1)
    BY <1>4 DEF CompoundInv, Adjacent
  <2> QED BY <1>2, <2>1 DEF ExactIn
<1>5. ASSUME NEW t \in DOMAIN tokens, tokens[t].type = "WITH_CHECK", t + 1 \in DOMAIN tokens,
             Spells(tokens[t + 1], <<"OPTION">>)
      PROVE  FALSE
  <2>1. "OPTION" \in Bare
    BY DEF Bare, Letters, Keywords
  <2>2. ReadsIn(text, tokens[t + 1].from) = "OPTION"
    BY <1>2, <1>5, <2>1, SpellsOne, InTheText
  <2> QED BY <1>4, <1>5, <2>2 DEF Fits
<1>6. ASSUME NEW t \in DOMAIN tokens, tokens[t].type \in Keys, t + 1 \in DOMAIN tokens
      PROVE  tokens[t + 1].type = "SCOPE"
  <2>1. ScopeIn(text, tokens[t + 1].from)
    BY <1>4, <1>6 DEF Fits
  <2> QED BY <1>2, <1>6, <2>1 DEF ExactIn
<1>7. ASSUME NEW t \in DOMAIN tokens, Follow(t, <<"WITH", "CHECK">>), t + 2 \in DOMAIN tokens
      PROVE  Spells(tokens[t + 2], <<"OPTION">>)
  <2> DEFINE words == <<"WITH", "CHECK">>
             next == tokens[t + 2]
  <2>1. DOMAIN words = 1..2 /\ \A k \in DOMAIN words : words[k] \in Bare
    BY WordsAreBare
  <2>2. Follow(t, words)
    BY <1>7
  <2> HIDE DEF words
  <2>3. /\ next.from = Nth(text, tokens[t].from, 3)
        /\ WordsFrom(text, tokens[t].from, words) /\ Unjoined(text, tokens[t].from)
    BY <1>7, <2>1, <2>2, ThirdToken
  <2>4. ReadsIn(text, Nth(text, tokens[t].from, 3)) = "OPTION"
    BY <2>3 DEF Unjoined, words
  <2>5. ReadsIn(text, next.from) = "OPTION" /\ next.to = next.from /\ next.from \in Nat
    BY <1>2, <1>7, <2>3, <2>4 DEF ExactIn
  <2>6. CharIn(text, next.from) = "OPTION"
    BY <2>5 DEF ReadsIn, WordIn, NoWord
  <2> HIDE DEF next
  <2>7. SolidIn(text, next) = {next.from}
    <3>1. "OPTION" \notin Blanks
      BY DEF Blanks
    <3>2. next.from..next.to = {next.from} /\ (next.from + 1)..next.to = {}
      BY <2>5
    <3>3. DroppedIn(text, next) = {}
      BY <3>2 DEF DroppedIn
    <3> QED BY <2>6, <3>1, <3>2, <3>3 DEF SolidIn
  <2>8. SpellsIn(text, next, <<"OPTION">>)
    <3> DEFINE at == [k \in {1} |-> next.from]
    <3>1. DOMAIN <<"OPTION">> = {1} /\ <<"OPTION">>[1] = "OPTION"
      OBVIOUS
    <3>2. at \in [{1} -> SolidIn(text, next)] /\ SolidIn(text, next) = {at[k] : k \in {1}} /\ at[1] = next.from
      BY <2>7
    <3> HIDE DEF at
    <3>3. \A k \in {1} : CharIn(text, at[k]) = <<"OPTION">>[k] /\ (k > 1 => at[k - 1] < at[k])
      BY <2>6, <3>1, <3>2
    <3> QED BY <3>1, <3>2, <3>3 DEF SpellsIn
  <2> QED BY <2>8, InTheText DEF next
<1> QED BY <1>3, <1>5, <1>6, <1>7, Zenon DEF CompoundsAreExact

(* A compound keyword is its words and nothing else (but the name that     *)
(* WITH_PARTITIONS drops), and wherever its words follow each other, over  *)
(* any white space, they are taken together: [A]SYMMETRIC KEY in front of  *)
(* :: only, WITH CHECK not in front of OPTION (checkCompoundKeyword and    *)
(* its lookahead).                                                         *)
THEOREM CompoundKeywordsAreExact == Spec => []CompoundsAreExact
<1> QED BY CursorIsCounted, InitCompound, NextCompound, CompoundExact, PTL DEF Spec
=============================================================================
