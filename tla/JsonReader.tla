----------------------------- MODULE JsonReader -----------------------------
(***************************************************************************)
(* Json::Reader, which takes a client's packet apart.  A document is a     *)
(* sequence of lexemes, as in module JsonWriter; a step of the reader is a *)
(* call of readToken() and what readValue(), readObject(), readArray() and *)
(* recoverFromError() do with the token.  Their activations are the frames *)
(* of calls, whose paths are the pointers of nodes_.                       *)
(***************************************************************************)
EXTENDS JsonWriter

CONSTANT Docs    \* documents

VARIABLES strict,          \* features_: strictMode(), or all()
          doc,             \* document_
          current,         \* current_: lexemes already read
          calls,           \* activations, the innermost last
          root,            \* the value that is filled
          errors,          \* number of errors_
          commentsBefore,  \* commentsBefore_
          lastValue,       \* lastValue_: <<path>>, or <<>> for 0
          lastValueEnd,    \* lastValueEnd_
          result           \* what parse() has returned: "none", "ok", "failed"

readerVars == <<strict, doc, current, calls, root, errors, commentsBefore, lastValue, lastValueEnd, result>>

AllowComments == ~strict
StrictRoot == strict

Call(stage, path) == [stage |-> stage, path |-> path, name |-> 0, until |-> "end"]

ReaderInit ==
  /\ strict \in BOOLEAN
  /\ doc \in Docs
  /\ current = 0
  /\ calls = <<Call("value", <<>>)>>
  /\ root = Null
  /\ errors = 0 /\ commentsBefore = <<>>
  /\ lastValue = <<>> /\ lastValueEnd = 0
  /\ result = "none"

-----------------------------------------------------------------------------
(* skipSpaces(), readToken(): spaces are skipped, a NUL or the end of the  *)
(* document is the end of the stream.  collectComments_ is as              *)
(* allowComments_.                                                         *)
NextAt(pos) ==
  CHOOSE p \in (pos + 1)..(Len(doc) + 1) :
    /\ \A j \in (pos + 1)..(p - 1) : doc[j].t \in {"sp", "nl"}
    /\ p <= Len(doc) => doc[p].t \notin {"sp", "nl"}

Token == LET p == NextAt(current)
         IN  IF p > Len(doc) \/ doc[p].t = "nul" THEN Lex("end") ELSE doc[p]
AfterToken == IF NextAt(current) > Len(doc) THEN Len(doc) ELSE NextAt(current)

IsComment == Token.t \in Comments

(* readComment(): where a comment belongs *)
OnSameLine ==
  /\ lastValue # <<>>
  /\ \A j \in (lastValueEnd + 1)..(NextAt(current) - 1) : ~HoldsNewLine(doc[j])
  /\ Token.t \in {"c", "cpp", "cppCR"}

(* The value at a path, and the root with another value there *)
At(v, path) == FoldLeft(LAMBDA node, k : node.map[k], v, path)

RECURSIVE SetAt(_, _, _)
SetAt(v, path, x) ==
  IF path = <<>> THEN x ELSE [v EXCEPT !.map[Head(path)] = SetAt(@, Tail(path), x)]

(* addComment() *)
AddComment(tree) ==
  IF IsComment /\ AllowComments /\ OnSameLine
  THEN SetAt(tree, lastValue[1], SetComment(At(tree, lastValue[1]), "sameLine", <<Token>>))
  ELSE tree
CommentsAfterToken ==
  IF IsComment /\ AllowComments /\ ~OnSameLine
  THEN commentsBefore \o (IF commentsBefore = <<>> THEN <<>> ELSE <<Lex("nl")>>) \o <<Token>>
  ELSE commentsBefore

Top == Last(calls)
InStage(stage) == calls # <<>> /\ Top.stage = stage
Below == Front(calls)
Goto(stage) == Append(Below, [Top EXCEPT !.stage = stage])

(* recoverFromError(): the activation reads on to its closing bracket *)
Recover(until) == Append(Below, [Top EXCEPT !.stage = "recover", !.until = until])

(* readValue() returns: its caller goes on, or skips to the end of its own *)
(* array or object.                                                        *)
ReturnOk ==
  IF Below = <<>> THEN <<Call("tail", <<>>)>>
  ELSE Append(Front(Below), [Last(Below) EXCEPT !.stage = IF @ = "member" THEN "comma" ELSE "separator"])

ReturnFailed ==
  IF Below = <<>> THEN <<[Call("tail", <<>>) EXCEPT !.until = "failed"]>>
  ELSE Append(Front(Below), [Last(Below) EXCEPT !.stage = "recover",
                                                !.until = IF Last(Below).stage = "member" THEN "}" ELSE "]"])

(* A value is complete: lastValue_ and lastValueEnd_ are set *)
ValueEnds(pos) ==
  /\ lastValue' = IF AllowComments THEN <<Top.path>> ELSE lastValue
  /\ lastValueEnd' = IF AllowComments THEN pos ELSE lastValueEnd
SameLast == UNCHANGED <<lastValue, lastValueEnd>>

(* What every step does: the token is consumed, with its comment *)
ReadToken == current' = AfterToken /\ UNCHANGED <<strict, doc, result>>

-----------------------------------------------------------------------------
(* skipCommentTokens() *)
SkipComment ==
  /\ (InStage("value") \/ InStage("tail")) /\ IsComment /\ AllowComments
  /\ ReadToken
  /\ root' = AddComment(root) /\ commentsBefore' = CommentsAfterToken
  /\ UNCHANGED <<calls, errors>> /\ SameLast

(* readValue() attaches the comments it skipped *)
Commented ==
  IF commentsBefore = <<>> THEN root
  ELSE SetAt(root, Top.path, SetComment(At(root, Top.path), "before", commentsBefore))
AssignCurrent(x) == SetAt(Commented, Top.path, Assign(At(Commented, Top.path), x))

(* Numbers are spelled in characters.  Their digits are read as long as    *)
(* ten times them cannot overflow; a longer number is a double.            *)
Value10(digits) == FoldLeft(LAMBDA n, c : 10 * n + (c - 48), 0, digits)
IsDigit(c) == c \in 48..57

(* sscanf("%lf"): the double nearest to a decimal number.  From 2^e on     *)
(* doubles are 2^e parts apart.                                            *)
Apart(whole) == IF whole = 0 THEN 1 ELSE 2 ^ (CHOOSE e \in 0..9 : 2^e <= whole /\ whole < 2^(e + 1))
Scanned(text) ==
  LET dot == SelectInSeq(text, LAMBDA c : c = Dot)
      places == IF dot = 0 THEN 0 ELSE Len(text) - dot
      digits == Value10(SelectSeq(text, IsDigit))
      apart == Apart(digits \div 10^places)
      abs == apart * Rounded(digits * Parts, 10^places * apart)
  IN  IF text[1] = Minus THEN -abs ELSE abs

(* Mutant: the bound is not that of a number about to grow by a digit *)
ThresholdLate(isNegative) == IF isNegative THEN MaxInt + 1 ELSE MaxUInt

Threshold(isNegative) == (IF isNegative THEN MaxInt + 1 ELSE MaxUInt) \div 10

IsDouble(text) ==
  LET digits == SelectSeq(text, IsDigit)
      isNegative == text[1] = Minus
  IN  \/ \E i \in DOMAIN text : text[i] \in {Dot, 101, 69, 43} \/ (text[i] = Minus /\ i > 1)
      \/ \E i \in DOMAIN digits : Value10(SubSeq(digits, 1, i - 1)) >= Threshold(isNegative)

DecodeNumber(text) ==
  LET isNegative == text[1] = Minus
      n == Value10(SelectSeq(text, IsDigit)) % (MaxUInt + 1)
  IN  CASE IsDouble(text) -> Make("real", Scanned(text))
        [] ~IsDouble(text) /\ isNegative -> Make("int", -(IF n > MaxInt THEN n - MaxUInt - 1 ELSE n))
        [] ~IsDouble(text) /\ ~isNegative -> Make(IF n <= MaxInt THEN "int" ELSE "uint", n)

(* decodeDouble() copies a text of at most bufferSize characters into a    *)
(* buffer of that size and puts a NUL behind it, in the buffer or not.     *)
BufferSize == 32
NulOutside(text) == IsDouble(text) /\ Len(text) <= BufferSize /\ Len(text) \notin 0..(BufferSize - 1)

(* A number is what its text is read as *)
Decoded(token) ==
  CASE token.t = "number" -> DecodeNumber(ValueToString(token.n))
    [] token.t = "real" -> DecodeNumber(DoubleToString(token.n))
    [] token.t = "text" -> Make("string", token.n)
    [] token.t = "true" -> Make("boolean", 1)
    [] token.t = "false" -> Make("boolean", 0)
    [] token.t = "null" -> Null

ScalarTokens == {"number", "real", "text", "true", "false", "null"}
BadScalars == {"badNumber", "badText"}

ReadScalar ==
  /\ InStage("value") /\ Token.t \in ScalarTokens
  /\ ReadToken /\ commentsBefore' = <<>>
  /\ root' = AssignCurrent(Decoded(Token))
  /\ calls' = ReturnOk
  /\ UNCHANGED errors
  /\ ValueEnds(AfterToken)

(* decodeNumber() or decodeString() finds an error *)
ReadBadScalar ==
  /\ InStage("value") /\ Token.t \in BadScalars
  /\ ReadToken /\ commentsBefore' = <<>>
  /\ root' = Commented
  /\ errors' = errors + 1
  /\ calls' = ReturnFailed
  /\ ValueEnds(AfterToken)

(* "value, object or array expected" leaves lastValue_ where it was *)
ReadNoValue ==
  /\ InStage("value")
  /\ Token.t \notin ScalarTokens \cup BadScalars \cup {"{", "["}
  /\ ~(IsComment /\ AllowComments)
  /\ ReadToken /\ commentsBefore' = <<>>
  /\ root' = Commented
  /\ errors' = errors + 1
  /\ calls' = ReturnFailed
  /\ SameLast

BeginObject ==
  /\ InStage("value") /\ Token.t = "{"
  /\ ReadToken /\ commentsBefore' = <<>>
  /\ root' = AssignCurrent(OfType("object"))
  /\ calls' = Goto("name")
  /\ UNCHANGED errors /\ SameLast

(* An array that ends at once is seen before a token is read: a comment    *)
(* between its brackets is not.                                            *)
BeginArray ==
  /\ InStage("value") /\ Token.t = "["
  /\ LET array == AssignCurrent(OfType("array"))
         close == NextAt(AfterToken)
         isEmpty == close <= Len(doc) /\ doc[close].t = "]"
     IN  /\ current' = IF isEmpty THEN close ELSE AfterToken
         /\ root' = IF isEmpty THEN array
                    ELSE SetAt(array, Top.path, Reference(At(array, Top.path), "array", 0))
         /\ calls' = IF isEmpty THEN ReturnOk ELSE Append(Goto("element"), Call("value", Append(Top.path, 0)))
         /\ IF isEmpty THEN ValueEnds(close) ELSE SameLast
  /\ commentsBefore' = <<>>
  /\ UNCHANGED <<strict, doc, errors, result>>

-----------------------------------------------------------------------------
(* readObject(): the name of a member, or the end of an object without one *)
EndsWithoutName == Token.t = "}" /\ Top.name = 0

ReadName ==
  /\ InStage("name") /\ ReadToken
  /\ root' = AddComment(root) /\ commentsBefore' = CommentsAfterToken
  /\ \/ /\ IsComment
        /\ UNCHANGED <<calls, errors>> /\ SameLast
     \/ /\ EndsWithoutName
        /\ calls' = ReturnOk
        /\ UNCHANGED errors /\ ValueEnds(AfterToken)
     \/ /\ Token.t = "text"
        /\ calls' = Append(Below, [Top EXCEPT !.stage = "colon", !.name = Token.n])
        /\ UNCHANGED errors /\ SameLast
     \/ /\ ~IsComment /\ ~EndsWithoutName /\ Token.t # "text"
        /\ calls' = Recover("}")
        /\ errors' = errors + 1 /\ SameLast

ReadColon ==
  /\ InStage("colon") /\ ReadToken
  /\ commentsBefore' = CommentsAfterToken
  /\ IF Token.t = ":"
     THEN /\ root' = SetAt(root, Top.path, Reference(At(root, Top.path), "object", Top.name))
          /\ calls' = Append(Goto("member"), Call("value", Append(Top.path, Top.name)))
          /\ UNCHANGED errors
     ELSE /\ root' = AddComment(root)
          /\ calls' = Recover("}")
          /\ errors' = errors + 1
  /\ SameLast

(* Once a comment stands where the comma is expected, any token will do.   *)
ReadComma ==
  /\ (InStage("comma") \/ InStage("commaOrAny")) /\ ReadToken
  /\ root' = AddComment(root) /\ commentsBefore' = CommentsAfterToken
  /\ \/ /\ Token.t = "}"
        /\ calls' = ReturnOk
        /\ UNCHANGED errors /\ ValueEnds(AfterToken)
     \/ /\ IsComment
        /\ calls' = Goto("commaOrAny")
        /\ UNCHANGED errors /\ SameLast
     \/ /\ Token.t = "," \/ (InStage("commaOrAny") /\ Token.t # "}" /\ ~IsComment)
        /\ calls' = Goto("name")
        /\ UNCHANGED errors /\ SameLast
     \/ /\ InStage("comma") /\ Token.t \notin {"}", ","} \cup Comments
        /\ calls' = Recover("}")
        /\ errors' = errors + 1 /\ SameLast

(* readArray(): badTokenType is never true, so that any token separates    *)
ReadSeparator ==
  /\ InStage("separator") /\ ReadToken
  /\ commentsBefore' = CommentsAfterToken
  /\ UNCHANGED errors
  /\ \/ /\ IsComment
        /\ root' = AddComment(root)
        /\ UNCHANGED calls /\ SameLast
     \/ /\ Token.t = "]"
        /\ calls' = ReturnOk
        /\ UNCHANGED root /\ ValueEnds(AfterToken)
     \/ /\ ~IsComment /\ Token.t # "]"
        /\ LET index == Size(At(root, Top.path))
           IN  /\ root' = SetAt(root, Top.path, Reference(At(root, Top.path), "array", index))
               /\ calls' = Append(Goto("element"), Call("value", Append(Top.path, index)))
        /\ SameLast

(* Mutant: recovery looks for its bracket only *)
StopsAtBracket(token, until) == token.t = until

(* recoverFromError() *)
StopsAt(token, until) == token.t = until \/ token.t = "end"

SkipInRecovery ==
  /\ InStage("recover") /\ ReadToken
  /\ root' = AddComment(root) /\ commentsBefore' = CommentsAfterToken
  /\ IF StopsAt(Token, Top.until)
     THEN calls' = ReturnFailed /\ ValueEnds(AfterToken)
     ELSE UNCHANGED calls /\ SameLast
  /\ UNCHANGED errors

(* parse() ends with the comments after the value, and strictRoot_ *)
EndParse ==
  /\ InStage("tail") /\ ~(IsComment /\ AllowComments)
  /\ current' = AfterToken
  /\ root' = IF AllowComments /\ commentsBefore # <<>>
             THEN SetComment(root, "after", commentsBefore) ELSE root
  /\ LET refused == StrictRoot /\ ~IsArray(root) /\ ~IsObject(root)
     IN  /\ errors' = IF refused THEN errors + 1 ELSE errors
         /\ result' = IF refused \/ Top.until = "failed" THEN "failed" ELSE "ok"
  /\ calls' = <<>>
  /\ UNCHANGED <<strict, doc, commentsBefore>> /\ SameLast

ReaderNext ==
  \/ SkipComment \/ ReadScalar \/ ReadBadScalar \/ ReadNoValue
  \/ BeginObject \/ BeginArray \/ ReadName \/ ReadColon \/ ReadComma
  \/ ReadSeparator \/ SkipInRecovery \/ EndParse

-----------------------------------------------------------------------------
(* Spelling of texts and code points *)

(* readString(): the position of the closing quote, a backslash hides one  *)
RECURSIVE ReadString(_, _)
ReadString(text, i) ==
  CASE i > Len(text) -> 0
    [] i <= Len(text) /\ text[i] = Quote -> i
    [] i <= Len(text) /\ text[i] # Quote -> ReadString(text, IF text[i] = Backslash THEN i + 2 ELSE i + 1)

(* codePointToUTF8() *)
CodePointToUTF8(cp) ==
  LET Low(k) == 128 + ((cp \div (64 ^ k)) % 64)
  IN  CASE cp <= 127 -> <<cp>>
        [] cp > 127 /\ cp <= 2047 -> <<192 + ((cp \div 64) % 32), Low(0)>>
        [] cp > 2047 /\ cp <= 65535 -> <<224 + ((cp \div 4096) % 16), Low(1), Low(0)>>
        [] cp > 65535 -> <<240 + ((cp \div 262144) % 8), Low(2), Low(1), Low(0)>>

HexValue(c) ==
  CASE c \in 48..57 -> c - 48 [] c \in 97..102 -> c - 87 [] c \in 65..70 -> c - 55 [] OTHER -> -1

(* decodeUnicodeEscapeSequence(): four digits from position i, or -1 *)
Hex4(text, i) ==
  IF Len(text) < i + 3 \/ \E j \in i..(i + 3) : HexValue(text[j]) < 0 THEN -1
  ELSE FoldLeft(LAMBDA n, c : 16 * n + HexValue(c), 0, SubSeq(text, i, i + 3))

(* decodeUnicodeCodePoint(): the code point, and the characters it took;   *)
(* the second half of a pair is not looked at closely                      *)
DecodeCodePoint(text, i) ==
  LET high == Hex4(text, i)
      isPair == high \in 55296..56319
      low == IF Len(text) >= i + 9 /\ text[i + 4] = Backslash /\ text[i + 5] = 117 THEN Hex4(text, i + 6) ELSE -1
  IN  CASE high < 0 \/ (isPair /\ low < 0) -> [cp |-> -1, taken |-> 0]
        [] high >= 0 /\ ~isPair -> [cp |-> high, taken |-> 4]
        [] isPair /\ low >= 0 -> [cp |-> 65536 + (high % 1024) * 1024 + (low % 1024), taken |-> 10]

(* decodeString() of what is between the quotes: <<text>>, or <<>> for a   *)
(* bad escape sequence                                                     *)
RECURSIVE DecodeString(_)
Prefixed(chars, rest) == IF rest = <<>> THEN <<>> ELSE <<chars \o rest[1]>>
DecodeEscape(text) ==
  LET e == text[2]
      point == DecodeCodePoint(text, 3)
  IN  CASE e \in {Quote, 47, Backslash} -> Prefixed(<<e>>, DecodeString(SubSeq(text, 3, Len(text))))
        [] e \in Range(Escapes) ->
             Prefixed(<<CHOOSE c \in DOMAIN Escapes : Escapes[c] = e>>, DecodeString(SubSeq(text, 3, Len(text))))
        [] e = 117 /\ point.cp >= 0 ->
             Prefixed(CodePointToUTF8(point.cp), DecodeString(SubSeq(text, 3 + point.taken, Len(text))))
        [] OTHER -> <<>>
DecodeString(text) ==
  CASE text = <<>> -> <<<<>>>>
    [] text # <<>> /\ text[1] = Quote -> <<<<>>>>
    [] text # <<>> /\ text[1] = Backslash -> IF Len(text) = 1 THEN <<>> ELSE DecodeEscape(text)
    [] OTHER -> Prefixed(<<text[1]>>, DecodeString(Tail(text)))

-----------------------------------------------------------------------------
(* parse() says no exactly when it has an error to show.                   *)
ErrorsTellResult == result # "none" => ((result = "ok") <=> (errors = 0))

Reaches(v, path) ==
  \A i \in DOMAIN path :
    LET node == At(v, SubSeq(path, 1, i - 1)) IN path[i] \in DOMAIN node.map

(* The pointers of nodes_ and lastValue_ point into the value being read,  *)
(* whatever the document and however often a name comes.                   *)
PointersStayInRoot ==
  /\ \A i \in DOMAIN calls : Reaches(root, calls[i].path)
  /\ \A i \in DOMAIN lastValue : Reaches(root, lastValue[i])
=============================================================================
