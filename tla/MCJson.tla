------------------------------- MODULE MCJson -------------------------------
(***************************************************************************)
(* jsoncpp, for TLC: `job` is what a behaviour is about, a value in use, a *)
(* document that is read, or a spelling that is written and read back.     *)
(***************************************************************************)
EXTENDS JsonPath

VARIABLES job, spelling

jsonVars == <<job, spelling, valueVars, readerVars>>

Int1 == Make("int", 1)
Text1 == Make("string", 1)
ArrayOf(s) == [OfType("array") EXCEPT !.map = [i \in 0..(Len(s) - 1) |-> s[i + 1]]]
ObjectOf(m) == [OfType("object") EXCEPT !.map = m]

(* Some ways a value is commented *)
Commentings(v) ==
  {v, SetComment(v, "before", <<Lex("c")>>), SetComment(v, "sameLine", <<Lex("cppCR")>>),
   SetComment(SetComment(v, "before", <<Lex("cpp"), Lex("nl"), Lex("cCR")>>), "sameLine", <<Lex("c")>>)}

Inner == {Null, Int1, Make("boolean", 1), OfType("array"), ArrayOf(<<Text1>>),
          ArrayOf(<<Int1, Int1, Int1>>), ObjectOf(0 :> Int1)}
MCValues ==
  Inner \cup {Text1, Make("real", -3 * Half), ArrayOf(<<Text1, Text1>>), Put(Null, "array", 1, Int1)}
    \cup {ArrayOf(<<a, b>>) : a \in Commentings(Int1), b \in Inner}
    \cup {ArrayOf(<<a, b>>) : a \in Inner, b \in Commentings(ArrayOf(<<Int1>>))}
    \cup {ObjectOf((0 :> a) @@ (1 :> b)) : a \in Commentings(Int1), b \in Inner}
    \cup {ObjectOf((1 :> a) @@ (2 :> b)) : a \in Inner, b \in Commentings(ObjectOf(2 :> Null))}
    \cup UNION {Commentings(v) : v \in {Int1, ObjectOf(1 :> Text1), ArrayOf(<<Int1, Int1, Int1>>)}}

(* What the writers write, and the same with one lexeme lost, changed or   *)
(* added                                                                   *)
Written(v) == {FastWrite(v), StyledWrite(v), StreamWrite(v)}
Lexemes == {Lex(t) : t \in {"{", "}", "[", "]", ",", ":", "c", "cLF", "nul", "bad", "badText", "badNumber"}}
             \cup {LexOf("text", 0), LexOf("text", 1), LexOf("number", 1)}
Edited(d) ==
  {RemoveAt(d, i) : i \in DOMAIN d}
    \cup {[d EXCEPT ![i] = l] : i \in DOMAIN d, l \in Lexemes}
    \cup {InsertAt(d, i, l) : i \in DOMAIN d, l \in Lexemes}
Broken == UNION {Edited(FastWrite(v)) : v \in {ArrayOf(<<Int1, ObjectOf(1 :> ArrayOf(<<Int1>>))>>),
                                               ObjectOf((0 :> ArrayOf(<<Int1>>)) @@ (1 :> ObjectOf(1 :> Int1)))}}
Short == UNION {[1..n -> Lexemes] : n \in 0..2}
MCDocs == Short \cup UNION {Written(v) : v \in MCValues} \cup Broken

Chars == {1, 10, 31, Quote, 47, Backslash, 97, 117, 200}
(* Parts of a path, [0], .[12], .a, .% and .[%], and the parameters a path *)
(* is given                                                                *)
FixedParts == (<<Open, 48, Close>> :> IndexArg(0)) @@ (<<Dot, Open, 49, 50, Close>> :> IndexArg(12))
                @@ (<<Dot, 97>> :> KeyArg(<<97>>))
NamePart == <<Dot, Percent>>
IndexPart == <<Dot, Open, Percent, Close>>
KindOf == (NamePart :> "key") @@ (IndexPart :> "index")
Paths == UNION {[1..n -> DOMAIN FixedParts \cup DOMAIN KindOf] : n \in 0..3}
PathText(path) == FlattenSeq(path)
NoParameters == <<NoArg, NoArg, NoArg>>
Parameters == {<<KeyArg(<<112>>), KeyArg(<<113>>), IndexArg(2)>>, <<IndexArg(1), KeyArg(<<112>>), KeyArg(<<113>>)>>}

(* What a path is read as: a parameter is the first one that was given, if *)
(* it is of the kind, or nothing, and the bracket after [% is a name.      *)
ReadParts(path, in) ==
  FlattenSeq([i \in DOMAIN path |->
    CASE path[i] \in DOMAIN FixedParts -> <<FixedParts[path[i]]>>
      [] path[i] = NamePart -> AddPathInArg(in, "key")
      [] path[i] = IndexPart -> Append(AddPathInArg(in, "index"), KeyArg(<<Close>>))])

(* What value.h says: each parameter stands for the next one that is given *)
IsParameter(part) == part \in DOMAIN KindOf
Position(path, i) == Cardinality({j \in 1..i : IsParameter(path[j])})
IsGiven(path, in) == \A i \in DOMAIN path : IsParameter(path[i]) => in[Position(path, i)].kind = KindOf[path[i]]
DocumentedParts(path, in) ==
  [i \in DOMAIN path |-> IF IsParameter(path[i]) THEN in[Position(path, i)] ELSE FixedParts[path[i]]]

Spell(kind, n, chars) == [kind |-> kind, n |-> n, chars |-> chars]
Spellings ==
  {Spell("int", n, <<>>) : n \in MinInt..MaxUInt}
    \cup {Spell("real", Half * n, <<>>) : n \in (2 * MinInt - 4)..(2 * MaxUInt + 4)}
    \cup {Spell("real", sign * 2^e * (Parts + 61 * k), <<>>) : sign \in {-1, 1}, e \in 0..7, k \in 0..67}
    \cup {Spell("long", n, <<>>) : n \in {4, BufferSize - 1, BufferSize, BufferSize + 1}}
    \cup {Spell("text", 0, s) : s \in UNION {[1..k -> Chars \cup {0}] : k \in 0..3}}
    \cup {Spell("code", n, <<>>) :
            n \in {1, 127, 128, 2047, 2048, 4095, 4096, 55295, 57344, 65535, 65536, 131071, 262143, 262144, 1114111}}
    \cup {Spell("path", 0, PathText(path)) : path \in Paths}

NoSpelling == Spell("text", 0, <<>>)
Init == /\ ValueInit /\ ReaderInit
        /\ \/ job = "value" /\ spelling = NoSpelling /\ doc = <<>> /\ strict
           \/ job = "read" /\ spelling = NoSpelling
           \/ job = "spell" /\ doc = <<>> /\ strict /\ spelling \in Spellings

Next == \/ job = "value" /\ ValueNext /\ UNCHANGED <<job, spelling, readerVars>>
        \/ job = "read" /\ ReaderNext /\ UNCHANGED <<job, spelling, valueVars>>

JsonSpec == /\ Init /\ [][Next]_jsonVars
            /\ WF_jsonVars(job = "read" /\ ReaderNext /\ UNCHANGED <<job, spelling, valueVars>>)

-----------------------------------------------------------------------------
(* A value without its comments, with the holes of its arrays filled, and  *)
(* with the types a reader gives to numbers                                *)
RECURSIVE Bare(_)
Bare(v) ==
  LET map == IF v.type = "array" THEN [i \in 0..(Size(v) - 1) |-> Bare(Lookup(v, i))]
             ELSE [k \in DOMAIN v.map |-> Bare(v.map[k])]
  IN  [v EXCEPT !.map = map, !.comments = NoComments]

(* What any of the writers writes is read back as the value it was, with   *)
(* whatever comments stand in it.                                          *)
WrittenIsRead ==
  job = "read" /\ result # "none" =>
    \A v \in MCValues :
      doc \in Written(v) /\ (strict => doc = FastWrite(v) /\ (IsArray(v) \/ IsObject(v)))
        => result = "ok" /\ Bare(root) = Bare(v)

(* parse() ends, also when it has to recover in the middle of a document.  *)
ParseEnds == (job = "read") ~> (result # "none")

(* The code point that a UTF-8 sequence stands for, and the escape of one *)
Utf8Value(bytes) ==
  LET n == Len(bytes)
      lead == IF n = 1 THEN bytes[1] ELSE bytes[1] - (256 - 2 ^ (8 - n))
  IN  FoldLeft(LAMBDA v, b : 64 * v + (b - 128), lead, Tail(bytes))
EscapeOfPoint(n) ==
  LET Hex(h) == <<Backslash, 117>> \o [i \in 1..4 |-> HexDigit((h \div (16 ^ (4 - i))) % 16)]
  IN  IF n < 65536 THEN Hex(n)
      ELSE Hex(55296 + (n - 65536) \div 1024) \o Hex(56320 + ((n - 65536) % 1024))

(* A real is read back as one that differs by at most one in the last      *)
(* digit that was written, as itself when its digits were all written or   *)
(* doubles are further apart than that digit tells, and it is written with *)
(* the same text again: what the first writing loses is all that is ever   *)
(* lost.  No text of a writer fills decodeDouble()'s buffer.               *)
RealKeepsItsText(n) ==
  LET text == DoubleToString(n)
      v == DecodeNumber(text)
      abs == IF n < 0 THEN -n ELSE n
      off == IF n < v.num THEN v.num - n ELSE n - v.num
      scale == 10 ^ Places(abs)
  IN  /\ v.type = "real" /\ off * scale <= Parts
      /\ (abs * scale) % Parts = 0 \/ Apart(abs \div Parts) * scale > Parts => v.num = n
      /\ DoubleToString(v.num) = text
      /\ ~NulOutside(text)

(* Every integer that is written is read back as the same number, as an    *)
(* int if it fits and is not one of the last below minInt / 10 * 10, every *)
(* real as above, every text up to its first NUL, and the escape of a code *)
(* point as its UTF-8.  The one text that makes decodeDouble() write       *)
(* outside its buffer is a double of exactly bufferSize characters.        *)
SpelledIsRead ==
  CASE spelling.kind = "int" ->
         LET v == DecodeNumber(ValueToString(spelling.n))
         IN  /\ AsDouble(v) = <<Parts * spelling.n>>
             /\ spelling.n \in -MaxInt..MaxInt /\ v.type # "int" => spelling.n <= -10 * Threshold(TRUE)
    [] spelling.kind = "real" -> RealKeepsItsText(spelling.n)
    [] spelling.kind = "long" ->
         LET text == [i \in 1..(spelling.n - 3) |-> Digit(0)] \o <<Digit(1), Dot, Digit(5)>>
         IN  DecodeNumber(text) = Make("real", 3 * Half) /\ (NulOutside(text) <=> spelling.n = BufferSize)
    [] spelling.kind = "text" ->
         LET quoted == ValueToQuotedString(spelling.chars)
         IN  /\ ReadString(quoted, 2) = Len(quoted)
             /\ DecodeString(SubSeq(quoted, 2, Len(quoted) - 1)) = <<CString(spelling.chars)>>
    [] spelling.kind = "path" -> TRUE
    [] spelling.kind = "code" ->
         \A bytes \in {DecodeString(EscapeOfPoint(spelling.n))} : Utf8Value(bytes[1]) = spelling.n

(* What a path is read as, and when that is what value.h says: with no     *)
(* parameter but one name.                                                 *)
PathIsRead(path, in) ==
  /\ MakePath(PathText(path), in) = ReadParts(path, in)
  /\ IsGiven(path, in) =>
       (ReadParts(path, in) = DocumentedParts(path, in)
          <=> IndexPart \notin Range(path) /\ Position(path, Len(path)) <= 1)

(* make() leaves a node where resolve() finds it, and making another path  *)
(* moves or loses nothing.  With a default, resolve() finds what there is  *)
(* only by names: an index that is valid gives the default, and one that   *)
(* is not gives null.                                                      *)
MadeIsFound(args) ==
  LET made == MakeNode(Null, args)
      filled == SetAt(made, [i \in DOMAIN args |-> args[i].key], Int1)
      Some(kind) == \E i \in DOMAIN args : args[i].kind = kind
  IN  /\ Resolve(made, args) = <<Null>>
      /\ ResolveOr(filled, args, Text1) = IF Some("index") THEN Text1 ELSE Int1
      /\ ResolveOr(Null, args, Text1) = IF Some("key") THEN Text1 ELSE Null
      /\ \A other \in {ReadParts(path, NoParameters) : path \in Paths} :
           Resolve(filled, other) # <<>> =>
             LET both == MakeNode(filled, other)
             IN  Resolve(both, args) = <<Int1>> /\ Resolve(both, other) = Resolve(filled, other)

PathsReachWhatTheyMake ==
  spelling.kind = "path" =>
    \A path \in Paths : PathText(path) = spelling.chars =>
      \A in \in Parameters : PathIsRead(path, in) /\ MadeIsFound(ReadParts(path, in))

(* A value keeps what was put in it: an array with holes is as good as a   *)
(* list until resize() meets a hole, comparison is a strict order,         *)
(* conversions keep the number or throw, where isConvertibleTo() is wrong  *)
(* is known exactly, and iterators come to every entry once.               *)
ValueSound == SparseIsDense /\ OrderIsStrict /\ ConversionsKeepNumber /\ IteratorsReachAll

(* Any document: the result agrees with the errors, the pointers of the    *)
(* reader stay inside the tree it builds, and what a writer wrote is read  *)
(* back.                                                                   *)
ReaderSound == ErrorsTellResult /\ PointersStayInRoot /\ WrittenIsRead

(* Integers, texts and code points survive being spelled and read, at      *)
(* every limit of their types; a real loses digits once, and no more than  *)
(* the writer has; paths find what they made, and are read and resolved as *)
(* value.h says except in the cases above.                                 *)
SpellingSound == SpelledIsRead /\ PathsReachWhatTheyMake
=============================================================================
