----------------------------- MODULE JsonWriter -----------------------------
(***************************************************************************)
(* Json::FastWriter, StyledWriter and StyledStreamWriter.  A document is a *)
(* sequence of lexemes: brackets, separators, values, comments, and the    *)
(* spaces ("sp") and ends of line ("nl") that layout is made of.  How a    *)
(* number and a text are spelled is in the last part, over characters.     *)
(***************************************************************************)
EXTENDS JsonValue

CONSTANT RightMargin    \* rightMargin_

Lex(t) == [t |-> t, n |-> 0]
LexOf(t, n) == [t |-> t, n |-> n]

(* Kinds of comment: C style on one line, with an end of line, with a DOS  *)
(* end of line; C++ style, whose text ends its line, with LF or with CR    *)
Comments == {"c", "cLF", "cCR", "cpp", "cppCR"}
HoldsNewLine(l) == l.t \in {"nl", "cLF", "cCR", "cpp", "cppCR"}

(* The text of a value that is neither an array nor an object *)
ScalarLexeme(v) ==
  CASE v.type \in {"int", "uint"} -> LexOf("number", v.num)
    [] v.type = "real" -> LexOf("real", v.num)
    [] v.type = "string" -> LexOf("text", v.num)
    [] v.type = "boolean" -> Lex(IF v.num = 1 THEN "true" ELSE "false")
    [] OTHER -> Lex("null")

Joined(parts, separator) ==
  FlattenSeq([i \in DOMAIN parts |-> IF i = 1 THEN parts[i] ELSE separator \o parts[i]])

Elements(v) == [i \in 1..Size(v) |-> Lookup(v, i - 1)]

RECURSIVE FastValue(_)
FastValue(v) ==
  LET names == GetMemberNames(v)
      Member(n) == <<LexOf("text", n), Lex(":")>> \o FastValue(v.map[n])
  IN  CASE v.type = "array" ->
             <<Lex("[")>> \o Joined([i \in 1..Size(v) |-> FastValue(Elements(v)[i])], <<Lex(",")>>) \o <<Lex("]")>>
        [] v.type = "object" ->
             <<Lex("{")>> \o Joined([i \in DOMAIN names |-> Member(names[i])], <<Lex(",")>>) \o <<Lex("}")>>
        [] OTHER -> <<ScalarLexeme(v)>>

FastWrite(root) == FastValue(root) \o <<Lex("nl")>>

-----------------------------------------------------------------------------
(* normalizeEOL() leaves LF as the only end of line.                       *)
NormalizeEOL(text) ==
  [i \in DOMAIN text |-> Lex(CASE text[i].t = "cCR" -> "cLF" [] text[i].t = "cppCR" -> "cpp" [] OTHER -> text[i].t)]

HasComment(v, placement) == v.comments[placement] # <<>>

WriteCommentBefore(doc, v) ==
  IF HasComment(v, "before") THEN doc \o NormalizeEOL(v.comments["before"]) \o <<Lex("nl")>> ELSE doc

WriteCommentAfter(doc, v) ==
  doc \o (IF HasComment(v, "sameLine") THEN <<Lex("sp")>> \o NormalizeEOL(v.comments["sameLine"]) ELSE <<>>)
      \o (IF HasComment(v, "after") THEN <<Lex("nl")>> \o NormalizeEOL(v.comments["after"]) \o <<Lex("nl")>>
          ELSE <<>>)

(* indentString_: nothing, or spaces *)
Indentation(depth) == IF depth > 0 THEN <<Lex("sp")>> ELSE <<>>

(* StyledWriter::writeIndent() looks at the last character *)
WriteIndent(doc, depth) ==
  CASE doc = <<>> -> Indentation(depth)
    [] Last(doc).t = "sp" -> doc
    [] Last(doc).t \in {"nl", "cpp"} -> doc \o Indentation(depth)
    [] OTHER -> doc \o <<Lex("nl")>> \o Indentation(depth)

(* StyledStreamWriter::writeIndent() cannot *)
StreamIndent(doc, depth) == doc \o <<Lex("nl")>> \o Indentation(depth)

Indent(stream, doc, depth) == IF stream THEN StreamIndent(doc, depth) ELSE WriteIndent(doc, depth)

-----------------------------------------------------------------------------
(* isMultineArray().  Elements that are scalars or empty are written into  *)
(* childValues_ while the length of a single line is counted: a text is    *)
(* three characters long, anything else one.                               *)
HasNested(v) == \E i \in 1..Size(v) : Size(Elements(v)[i]) > 0
ChildValuesKept(v) == Size(v) * 3 < RightMargin /\ ~HasNested(v)
LineLength(v) ==
  4 + (Size(v) - 1) * 2
    + FoldSeq(LAMBDA x, n : n + (IF x.type = "string" THEN 3 ELSE Len(FastValue(x))), 0, Elements(v))
IsMultilineArray(v) == ~ChildValuesKept(v) \/ LineLength(v) >= RightMargin

(* writeValue() and writeArrayValue().  A member is written with its name, *)
(* an element on a line of its own, and comments around both.              *)
RECURSIVE StyledValue(_, _, _, _)

(* A child goes out between its comments, with a comma before the last of  *)
(* them unless it is the last child.                                       *)
StyledChild(stream, doc, depth, v, head, isLast) ==
  LET opened == Indent(stream, WriteCommentBefore(doc, v), depth) \o head
      written == StyledValue(stream, opened, depth, v)
  IN  WriteCommentAfter(IF isLast THEN written ELSE Append(written, Lex(",")), v)

StyledChildren(stream, doc, depth, children, heads) ==
  FoldLeft(LAMBDA d, i : StyledChild(stream, d, depth, children[i], heads[i], i = Len(children)),
           doc, [i \in DOMAIN children |-> i])

StyledBlock(stream, doc, depth, open, close, children, heads) ==
  LET opened == Append(Indent(stream, doc, depth), Lex(open))
  IN  Append(Indent(stream, StyledChildren(stream, opened, depth + 1, children, heads), depth), Lex(close))

SingleLine(v) ==
  <<Lex("["), Lex("sp")>>
    \o Joined([i \in 1..Size(v) |-> FastValue(Elements(v)[i])], <<Lex(","), Lex("sp")>>)
    \o <<Lex("sp"), Lex("]")>>

StyledValue(stream, doc, depth, v) ==
  LET names == GetMemberNames(v)
  IN  CASE Size(v) = 0 -> doc \o FastValue(v)
        [] v.type = "array" /\ ~IsMultilineArray(v) -> doc \o SingleLine(v)
        [] v.type = "array" /\ IsMultilineArray(v) ->
             StyledBlock(stream, doc, depth, "[", "]", Elements(v), [i \in 1..Size(v) |-> <<>>])
        [] v.type = "object" ->
             StyledBlock(stream, doc, depth, "{", "}", [i \in DOMAIN names |-> v.map[names[i]]],
                         [i \in DOMAIN names |-> <<LexOf("text", names[i]), Lex("sp"), Lex(":"), Lex("sp")>>])

Styled(stream, root) ==
  Append(WriteCommentAfter(StyledValue(stream, WriteCommentBefore(<<>>, root), 0, root), root), Lex("nl"))

StyledWrite(root) == Styled(FALSE, root)
StreamWrite(root) == Styled(TRUE, root)

-----------------------------------------------------------------------------
(* Spelling, in ASCII codes                                                *)
Minus == 45
Dot == 46
Quote == 34
Backslash == 92
Digit(d) == 48 + d

RECURSIVE UintToString(_)
UintToString(n) == IF n < 10 THEN <<Digit(n)>> ELSE Append(UintToString(n \div 10), Digit(n % 10))

(* -value wraps for minInt, and UInt(value) is its magnitude all the same *)
ValueToString(n) == IF n < 0 THEN <<Minus>> \o UintToString(-n) ELSE UintToString(n)

(* a / b to the nearest number, to the even one of two *)
Rounded(a, b) ==
  LET twice == 2 * (a % b)
      up == twice > b \/ (twice = b /\ (a \div b) % 2 = 1)
  IN  (a \div b) + (IF up THEN 1 ELSE 0)

(* "%#.16g": sixteen significant digits, zeros included, of a double of 53 *)
(* bits; four here, of 13 bits.  Both are one digit short of what tells    *)
(* every double from the next.  Numbers that take an exponent are left     *)
(* out.                                                                    *)
Significant == 4
Places(abs) == Significant - Len(UintToString(abs \div Parts))

Printed(number) ==
  LET abs == IF number < 0 THEN -number ELSE number
      places == Places(abs)
      digits == Rounded(abs * 10^places, Parts)
      fraction == [i \in 1..places |-> Digit((digits \div 10^(places - i)) % 10)]
  IN  (IF number < 0 THEN <<Minus>> ELSE <<>>) \o UintToString(digits \div 10^places) \o <<Dot>> \o fraction

(* The zeros at the end go, but for one *)
DoubleToString(number) ==
  LET text == Printed(number)
      lastNonzero == CHOOSE i \in DOMAIN text :
                       text[i] # Digit(0) /\ \A j \in (i + 1)..Len(text) : text[j] = Digit(0)
  IN  IF Last(text) # Digit(0) THEN text ELSE SubSeq(text, 1, lastNonzero + 1)

IsControlCharacter(c) == c > 0 /\ c <= 31

(* \b \t \n \f \r and their letters *)
Escapes == (8 :> 98) @@ (9 :> 116) @@ (10 :> 110) @@ (12 :> 102) @@ (13 :> 114)
HexDigit(d) == IF d < 10 THEN Digit(d) ELSE 55 + d

EscapeOf(c) ==
  CASE c \in {Quote, Backslash} -> <<Backslash, c>>
    [] c \in DOMAIN Escapes -> <<Backslash, Escapes[c]>>
    [] IsControlCharacter(c) /\ c \notin DOMAIN Escapes ->
         <<Backslash, 117, HexDigit(0), HexDigit(0), HexDigit(c \div 16), HexDigit(c % 16)>>
    [] OTHER -> <<c>>

(* valueToQuotedString() ends at the first NUL *)
CString(text) == IF 0 \in Range(text) THEN SubSeq(text, 1, SelectInSeq(text, LAMBDA c : c = 0) - 1) ELSE text
ValueToQuotedString(text) ==
  LET chars == CString(text)
  IN  <<Quote>> \o FlattenSeq([i \in DOMAIN chars |-> EscapeOf(chars[i])]) \o <<Quote>>
=============================================================================
