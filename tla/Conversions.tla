------------------------------ MODULE Conversions ------------------------------
(***************************************************************************)
(* Data types, and the built-in functions with a syntax of their own: type *)
(* conversions, TRIM, CURSOR, NEXT VALUE FOR and full-text search.         *)
(***************************************************************************)
EXTENDS Windows

(* name {.name} [( n [, n] )]: never nil, a missing parenthesis is reported. *)
(* Only the type XML has a name with dots in the parentheses.              *)
parseDataType ==
    /\ At("parseDataType")
    /\ LET name  == ListEnd(pos, "DOT")
           size  == name + 2
           last  == CASE Cur = "XML" /\ name = pos                      -> ListEnd(size, "DOT")
                      [] Tok(size) # "MAX" /\ Tok(size + 1) = "COMMA" -> size + 2
                      [] OTHER                                          -> size
       IN  IF Tok(name + 1) = "LPAREN" THEN ReturnExpecting("RPAREN", "DataType", <<>>, last - pos)
                                       ELSE ReturnNew("DataType", pos, <<>>, name - pos)

(* [TRY_]CAST ( expr AS type )                                             *)
parseCastExpression ==
    \/ /\ At("parseCastExpression")
       /\ Require(0, <<"LPAREN">>, CallExpression(2, "parseCastExpression.Expression", <<>>, LOWEST))
    \/ /\ At("parseCastExpression.Expression")
       /\ Require(0, <<"AS">>, Call(2, "parseCastExpression.TargetType", Got, "parseDataType"))
    \/ /\ At("parseCastExpression.TargetType")
       /\ Require(0, <<"RPAREN">>, ReturnNew("Conversion", Top.at, Got, 1))

(* [TRY_]CONVERT ( type, expr [, style] )                                  *)
parseConvertExpression ==
    \/ /\ At("parseConvertExpression")
       /\ Require(0, <<"LPAREN">>, Call(2, "parseConvertExpression.TargetType", <<>>, "parseDataType"))
    \/ /\ At("parseConvertExpression.TargetType")
       /\ Require(0, <<"COMMA">>, CallExpression(2, "parseConvertExpression.Expression", Got, LOWEST))
    \/ /\ At("parseConvertExpression.Expression")
       /\ IF Peek = "COMMA" THEN CallExpression(2, "parseConvertExpression.Style", Got, LOWEST)
          ELSE Require(0, <<"RPAREN">>, ReturnNew("Conversion", Top.at, Got, 1))
    \/ /\ At("parseConvertExpression.Style")
       /\ Require(0, <<"RPAREN">>, ReturnNew("Conversion", Top.at, GotIfAny, 1))

(* [TRY_]PARSE ( expr AS type [USING culture] )                            *)
parseParseExpression ==
    \/ /\ At("parseParseExpression")
       /\ Require(0, <<"LPAREN">>, CallExpression(2, "parseParseExpression.Expression", <<>>, LOWEST))
    \/ /\ At("parseParseExpression.Expression")
       /\ Require(0, <<"AS">>, Call(2, "parseParseExpression.TargetType", Got, "parseDataType"))
    \/ /\ At("parseParseExpression.TargetType")
       /\ IF Peek = "USING" THEN CallExpression(2, "parseParseExpression.Culture", Got, LOWEST)
          ELSE Require(0, <<"RPAREN">>, ReturnNew("Conversion", Top.at, Got, 1))
    \/ /\ At("parseParseExpression.Culture")
       /\ Require(0, <<"RPAREN">>, ReturnNew("Conversion", Top.at, GotIfAny, 1))

(* TRIM ( [LEADING | TRAILING | BOTH] [chars FROM] expr ): the three words *)
(* are no keywords, and a name or string that reads like one is taken for  *)
(* it.                                                                     *)
parseTrimExpression ==
    \/ /\ At("parseTrimExpression")
       /\ \E k \in IF Tok(pos + 2) \in {"IDENT", "STRING", "NSTRING"} THEN {2, 3} ELSE {2} :
             Require(0, <<"LPAREN">>, CallExpression(k, "parseTrimExpression.First", <<>>, LOWEST))
    \/ /\ At("parseTrimExpression.First")
       /\ IF Peek = "FROM" THEN CallExpression(2, "parseTrimExpression.Expression", GotIfAny, LOWEST)
          ELSE Require(0, <<"RPAREN">>, ReturnNew("Trim", Top.at, Got, 1))
    \/ /\ At("parseTrimExpression.Expression")
       /\ Require(0, <<"RPAREN">>, ReturnNew("Trim", Top.at, Got, 1))

(* CURSOR options FOR SELECT: where FOR is missing the word that is no     *)
(* option is passed over and there is no SELECT.                           *)
CursorOptions == {"LOCAL", "GLOBAL", "FORWARD_ONLY", "SCROLL", "STATIC", "KEYSET", "DYNAMIC",
                  "FAST_FORWARD", "READ_ONLY", "SCROLL_LOCKS", "OPTIMISTIC", "TYPE_WARNING"}
parseCursorOptions(i) == First({j \in i..(i + Len(input)) : Tok(j) \notin CursorOptions}) - pos
parseCursorExpression ==
    \/ /\ At("parseCursorExpression")
       /\ LET k == parseCursorOptions(pos + 1) IN
          IF Tok(pos + k) = "FOR"
          THEN Call(k + 1, "parseCursorExpression.ForSelect", <<>>, "parseSelectStatement")
          ELSE ReturnNew("CursorExpression", Top.at, <<>>, k)
    \/ /\ At("parseCursorExpression.ForSelect")
       /\ ReturnNew("CursorExpression", Top.at, GotIfAny, 0)

(* NEXT VALUE FOR name, and the same as one token of the lexer's.          *)
parseNextValueFor ==
    /\ At("parseNextValueFor")
    /\ Require(0, <<"VALUE", "FOR">>, ReturnNew("NextValueFor", Top.at, <<>>, ListEnd(pos + 3, "DOT") - pos))
parseNextValueForCompound ==
    \/ /\ At("parseNextValueForCompound")
       /\ LET k == ListEnd(pos + 1, "DOT") - pos IN
          IF Tok(pos + k + 1) = "OVER"
          THEN Call(k + 1, "parseNextValueForCompound.Over", <<>>, "parseOverClause")
          ELSE ReturnNew("NextValueFor", Top.at, <<>>, k)
    \/ /\ At("parseNextValueForCompound.Over")
       /\ ReturnNew("NextValueFor", Top.at, GotIfAny, 0)

(* What stands in front of the search term, whose parenthesis is at i: a   *)
(* column, or columns in parentheses up to the first that closes, with or  *)
(* without a comma.  CONTAINSTABLE and FREETEXTTABLE have a table first.   *)
PastComma(i) == IF Tok(i) = "COMMA" THEN i + 1 ELSE i
ColumnsEnd(i) == PastComma(IF Tok(i) = "LPAREN" THEN FirstIn(i + 1, {"RPAREN"}) + 1 ELSE i + 1)
SearchTermAt(table) ==
    IF table THEN ColumnsEnd(PastComma(pos + 3)) ELSE ColumnsEnd(pos + 2)

(* function ( [table,] columns, expr [, [LANGUAGE] word] [)]: nobody       *)
(* misses the parenthesis that closes it.                                  *)
FullText(fn, term, table) ==
    \/ /\ At(fn)
       /\ Require(0, <<"LPAREN">>,
                  CallExpression(SearchTermAt(table) - pos, term, <<>>, LOWEST))
    \/ /\ At(term)
       /\ LET language == CASE table \/ Peek # "COMMA"      -> 0
                            [] Tok(pos + 2) = "LANGUAGE"  -> 3
                            [] OTHER                        -> 2
              close == IF Tok(pos + language + 1) = "RPAREN" THEN 1 ELSE 0
          IN  ReturnNew("FullText", Top.at, GotIfAny, language + close)
parseContainsExpression ==
    FullText("parseContainsExpression", "parseContainsExpression.SearchTerm", FALSE)
parseFreetextExpression ==
    FullText("parseFreetextExpression", "parseFreetextExpression.SearchTerm", FALSE)
parseContainsTableExpression ==
    FullText("parseContainsTableExpression", "parseContainsTableExpression.SearchTerm", TRUE)
parseFreetextTableExpression ==
    FullText("parseFreetextTableExpression", "parseFreetextTableExpression.SearchTerm", TRUE)

ConversionStep ==
    \/ parseDataType \/ parseCastExpression \/ parseConvertExpression \/ parseParseExpression
    \/ parseTrimExpression \/ parseCursorExpression
    \/ parseNextValueFor \/ parseNextValueForCompound
    \/ parseContainsExpression \/ parseFreetextExpression
    \/ parseContainsTableExpression \/ parseFreetextTableExpression
=============================================================================
