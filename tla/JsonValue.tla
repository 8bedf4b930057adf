----------------------------- MODULE JsonValue -----------------------------
(***************************************************************************)
(* Json::Value, the values the server builds its answers from and finds    *)
(* in a client's packets.  A value has a type, a number, the entries of    *)
(* its map_ and its comments.  Texts and member names are numbers in the   *)
(* order of strcmp(), 0 the empty one; an array keeps a map from the       *)
(* indices that were ever used, so that it may have holes.  A double has a *)
(* significand of 13 bits, and is counted in parts of 2^-12: the numbers   *)
(* from 1 on, and the coarser ones below.  Callers use a value as its type *)
(* allows: what the assertions on types do to the server is in module      *)
(* UserManager.                                                            *)
(***************************************************************************)
EXTENDS Integers, Sequences, FiniteSets, SequencesExt

CONSTANTS MaxInt,       \* Value::maxInt
          MaxIndex,     \* bound: the largest index used
          MemberNames   \* names of members: natural numbers

ASSUME JsonValueAssumption == MaxInt \in Nat /\ MaxIndex \in Nat /\ MemberNames \subseteq Nat

MinInt == -(MaxInt + 1)
MaxUInt == 2 * MaxInt + 1
Parts == 4096
Half == Parts \div 2

VARIABLES value,    \* a value under the operations below
          asList,   \* what its caller has put there: a list, or names and values
          aborted   \* the assertion of resize() failed

valueVars == <<value, asList, aborted>>

Placements == {"before", "sameLine", "after"}
NoComments == [p \in Placements |-> <<>>]
Rank == [null |-> 0, int |-> 1, uint |-> 2, real |-> 3,
         string |-> 4, boolean |-> 5, array |-> 6, object |-> 7]

(* The constructors: value_.string_ of Value(stringValue) is 0 *)
Make(type, num) == [type |-> type, num |-> num, map |-> <<>>, comments |-> NoComments]
NoText == -1
OfType(type) == Make(type, IF type = "string" THEN NoText ELSE 0)
Null == OfType("null")

(* operator=(): a copy is made and swapped in, but swap() leaves the       *)
(* comments of both sides where they are                                   *)
Assign(target, other) == [other EXCEPT !.comments = target.comments]

SetComment(v, placement, text) == [v EXCEPT !.comments[placement] = text]

-----------------------------------------------------------------------------
(* Order and equality.  Maps are compared by their number of entries, then *)
(* entry by entry in the order of their keys.                              *)
RECURSIVE Less(_, _)
EntryLess(m, k, w, j) == k < j \/ (k = j /\ Less(m[k], w[j]))

MapLess(m, w) ==
  LET ks == SetToSortSeq(DOMAIN m, <)
      js == SetToSortSeq(DOMAIN w, <)
      Lt(i) == EntryLess(m, ks[i], w, js[i])
      Gt(i) == EntryLess(w, js[i], m, ks[i])
  IN  \E i \in DOMAIN ks : Lt(i) /\ \A j \in 1..(i - 1) : ~Lt(j) /\ ~Gt(j)

Less(a, b) ==
  LET delta == Rank[a.type] - Rank[b.type]
      entries == Cardinality(DOMAIN a.map) - Cardinality(DOMAIN b.map)
  IN  \/ delta < 0
      \/ delta = 0 /\ a.type \notin {"null", "array", "object"} /\ a.num < b.num
      \/ delta = 0 /\ a.type \in {"array", "object"}
         /\ (entries < 0 \/ (entries = 0 /\ MapLess(a.map, b.map)))

RECURSIVE Equal(_, _)
Equal(a, b) ==
  /\ a.type = b.type
  /\ a.type \in {"array", "object"} =>
       /\ DOMAIN a.map = DOMAIN b.map
       /\ \A k \in DOMAIN a.map : Equal(a.map[k], b.map[k])
  /\ a.type \notin {"array", "object"} => a.num = b.num

-----------------------------------------------------------------------------
(* Conversions: <<result>>, or <<>> when the conversion throws.            *)
Truncate(parts) == IF parts >= 0 THEN parts \div Parts ELSE -((-parts) \div Parts)

AsInt(v) ==
  CASE v.type \in {"null", "int", "boolean"} -> <<v.num>>
    [] v.type = "uint" /\ v.num < MaxInt -> <<v.num>>
    [] v.type = "real" /\ v.num >= Parts * MinInt /\ v.num <= Parts * MaxInt -> <<Truncate(v.num)>>
    [] OTHER -> <<>>

AsUInt(v) ==
  CASE v.type \in {"null", "uint", "boolean"} -> <<v.num>>
    [] v.type = "int" /\ v.num >= 0 -> <<v.num>>
    [] v.type = "real" /\ v.num >= 0 /\ v.num <= Parts * MaxUInt -> <<Truncate(v.num)>>
    [] OTHER -> <<>>

AsDouble(v) ==
  CASE v.type \in {"null", "int", "uint", "boolean"} -> <<Parts * v.num>>
    [] v.type = "real" -> <<v.num>>
    [] OTHER -> <<>>

AsBool(v) ==
  CASE v.type = "string" -> v.num > 0
    [] v.type \in {"array", "object"} -> v.map # <<>>
    [] OTHER -> v.num # 0

(* asString(): "true" and "false" are texts like any other *)
BooleanText(b) == MaxInt + b
AsString(v) ==
  CASE v.type = "null" -> <<0>>
    [] v.type = "string" -> <<IF v.num = NoText THEN 0 ELSE v.num>>
    [] v.type = "boolean" -> <<BooleanText(v.num)>>
    [] OTHER -> <<>>

IsConvertibleTo(v, other) ==
  \/ v.type = "null"
  \/ v.type = other
  \/ other = "null" /\ ~AsBool(v)
  \/ v.type \in {"int", "uint", "real", "boolean"} /\
       \/ other \in {"real", "string", "boolean"}
       \/ v.type = "boolean" /\ other \in {"int", "uint"}
       \/ v.type = "int" /\ other = "uint" /\ v.num >= 0
       \/ v.type = "uint" /\ other = "int" /\ v.num <= MaxInt
       \/ v.type = "real" /\ other = "int" /\ v.num >= Parts * MinInt /\ v.num <= Parts * MaxInt
       \/ v.type = "real" /\ other = "uint" /\ v.num >= 0 /\ v.num <= Parts * MaxUInt

-----------------------------------------------------------------------------
(* Arrays and objects                                                      *)
Size(v) ==
  CASE v.type = "array" /\ v.map # <<>> -> 1 + CHOOSE k \in DOMAIN v.map : \A j \in DOMAIN v.map : j <= k
    [] v.type = "object" -> Cardinality(DOMAIN v.map)
    [] OTHER -> 0

IsArray(v) == v.type \in {"null", "array"}
IsObject(v) == v.type \in {"null", "object"}

(* Mutant: an empty array is left without the element *)
ReferenceLate(v, type, key) ==
  LET w == IF v.type = "null" THEN Assign(v, OfType(type)) ELSE v
  IN  IF key \in DOMAIN w.map \/ (type = "array" /\ w.map = <<>>) THEN w
      ELSE [w EXCEPT !.map = [k \in DOMAIN w.map \cup {key} |->
                                IF k \in DOMAIN w.map THEN w.map[k] ELSE Null]]

(* operator[](): a null value becomes an array or an object, and a key     *)
(* that is not there gets a null value                                     *)
Reference(v, type, key) ==
  LET w == IF v.type = "null" THEN Assign(v, OfType(type)) ELSE v
  IN  IF key \in DOMAIN w.map THEN w
      ELSE [w EXCEPT !.map = [k \in DOMAIN w.map \cup {key} |->
                                IF k \in DOMAIN w.map THEN w.map[k] ELSE Null]]

Put(v, type, key, x) ==
  LET w == Reference(v, type, key)
  IN  [w EXCEPT !.map[key] = Assign(@, x)]

(* The const operator[](), get() and isMember() *)
Has(v, key) == key \in DOMAIN v.map
Lookup(v, key) == IF Has(v, key) THEN v.map[key] ELSE Null
Get(v, key, default) == IF Has(v, key) THEN v.map[key] ELSE default

(* Mutant: the next index is taken from the number of entries *)
AppendToCount(v, x) == Put(v, "array", Cardinality(DOMAIN v.map), x)

AppendTo(v, x) == Put(v, "array", Size(v), x)

Erase(v, keys) == [v EXCEPT !.map = [k \in DOMAIN v.map \ keys |-> v.map[k]]]

ResizeTo(v, n) ==
  LET w == IF v.type = "null" THEN Assign(v, OfType("array")) ELSE v
  IN  CASE n = 0 -> [w EXCEPT !.map = <<>>]
        [] n > Size(w) -> Reference(w, "array", n - 1)
        [] OTHER -> Erase(w, n..(Size(w) - 1))

GetMemberNames(v) == SetToSortSeq(DOMAIN v.map, <)

-----------------------------------------------------------------------------
(* A caller works on a value.  asList is what it believes to be there: a   *)
(* function on 0..n-1 for an array, on names for an object.                *)
Scalars == {Null, Make("int", 1)}
Numbers == {Make("int", n) : n \in {MinInt, -1, 0, 1, MaxInt}}
             \cup {Make("uint", n) : n \in {0, MaxInt - 1, MaxInt, MaxInt + 1, MaxUInt}}
             \cup {Make("real", n) : n \in {Parts * MinInt - Half, Parts * MinInt, -3 * Half, 0, Half,
                                           Parts * MaxInt, Parts * MaxInt + Half, Parts * MaxUInt + Half}}

ValueInit == value = Null /\ asList = <<>> /\ aborted = FALSE

Padded(f, n) == [i \in 0..(n - 1) |-> IF i \in DOMAIN f THEN f[i] ELSE Null]

AppendValue ==
  /\ IsArray(value) /\ Size(value) <= MaxIndex
  /\ \E x \in Scalars :
       /\ value' = AppendTo(value, x)
       /\ asList' = [Padded(asList, Size(value) + 1) EXCEPT ![Size(value)] = x]
  /\ UNCHANGED aborted

AssignScalar ==
  /\ \E x \in Numbers \cup {OfType(type) : type \in DOMAIN Rank} \cup {Make("string", 0), Make("boolean", 1)} :
       value' = Assign(value, x)
  /\ asList' = <<>>
  /\ UNCHANGED aborted

SetAtIndex ==
  /\ IsArray(value)
  /\ \E i \in 0..MaxIndex, x \in Scalars :
       /\ value' = Put(value, "array", i, x)
       /\ asList' = [Padded(asList, IF i < Cardinality(DOMAIN asList) THEN Cardinality(DOMAIN asList) ELSE i + 1)
                       EXCEPT ![i] = x]
  /\ UNCHANGED aborted

(* A step that shrinks an array with a hole below the new size fails its   *)
(* own assertion.                                                          *)
ResizeValue ==
  /\ IsArray(value)
  /\ \E n \in 0..(MaxIndex + 1) :
       /\ value' = ResizeTo(value, n)
       /\ asList' = Padded(asList, n)
       /\ aborted' = (Size(value') # n)

SetMember ==
  /\ IsObject(value)
  /\ \E n \in MemberNames, x \in Scalars :
       /\ value' = Put(value, "object", n, x)
       /\ asList' = [k \in DOMAIN asList \cup {n} |-> IF k = n THEN x ELSE asList[k]]
  /\ UNCHANGED aborted

RemoveMember ==
  /\ value.type = "object"
  /\ \E n \in MemberNames :
       /\ value' = IF Has(value, n) THEN Erase(value, {n}) ELSE value
       /\ asList' = [k \in DOMAIN asList \ {n} |-> asList[k]]
  /\ UNCHANGED aborted

ClearValue ==
  /\ value.type \in {"array", "object"}
  /\ value' = [value EXCEPT !.map = <<>>]
  /\ asList' = <<>>
  /\ UNCHANGED aborted

ValueNext ==
  /\ ~aborted
  /\ \/ AssignScalar \/ AppendValue \/ SetAtIndex \/ ResizeValue
     \/ SetMember \/ RemoveMember \/ ClearValue

-----------------------------------------------------------------------------
(* A sparse map is as good as a list: size() and operator[] show what the  *)
(* caller put there, nulls in between, and getMemberNames() the members.   *)
(* Two things show the holes: get() answers with the default for one, and  *)
(* resize() to a size with no entry in its last place leaves fewer         *)
(* elements, so that the assertion fails there and nowhere else.           *)
SparseIsDense ==
  LET length == Cardinality(DOMAIN asList)
      Default == Make("int", 0)
  IN  /\ aborted <=> value.type = "array" /\ Size(value) # length
      /\ value.type = "array" =>
           /\ aborted <=> length # 0 /\ ~Has(value, length - 1)
           /\ Size(value) <= length /\ DOMAIN asList = 0..(length - 1)
           /\ \A i \in 0..MaxIndex :
                 /\ Lookup(value, i) = IF i < length THEN asList[i] ELSE Null
                 /\ i < length => (Get(value, i, Default) = asList[i] <=> Has(value, i))
      /\ value.type = "object" =>
           asList = [n \in Range(GetMemberNames(value)) |-> Get(value, n, Default)]

Samples == Numbers \cup {OfType(type) : type \in DOMAIN Rank}
             \cup {Put(Null, "array", 0, Make("int", 1)), Put(Null, "array", 1, Null),
                   Put(Put(Null, "array", 0, Make("int", 1)), "array", 1, Null),
                   Put(Null, "object", 1, Put(Null, "array", 1, Null)),
                   Put(Null, "object", 1, Put(Null, "array", 0, Make("real", 1)))}

(* operator<() and operator==() order all values: of two exactly one is    *)
(* less, or they are equal, whatever they hold; and less is transitive.    *)
OrderIsStrict ==
  \A w \in Samples :
    /\ Cardinality({c \in {1, 2, 3} : \/ c = 1 /\ Less(value, w)
                                      \/ c = 2 /\ Equal(value, w)
                                      \/ c = 3 /\ Less(w, value)}) = 1
    /\ \A u \in Samples : Less(value, w) /\ Less(w, u) => Less(value, u)

(* Conversions by the type they are to *)
Converted(v) == [int |-> AsInt(v), uint |-> AsUInt(v), real |-> AsDouble(v), string |-> AsString(v)]

(* No conversion wraps: what asInt() and asUInt() return is the number,    *)
(* without its fraction, and within its range.  isConvertibleTo() tells    *)
(* which conversions throw, but for two it promises in vain: a number to a *)
(* string, and an unsigned maxInt to an int.                               *)
ConversionsKeepNumber ==
  LET parts == AsDouble(value)
      Misjudged == {t \in DOMAIN Converted(value) :
                      IsConvertibleTo(value, t) # (Converted(value)[t] # <<>>)}
  IN  /\ \A r \in Range(AsInt(value)) : r = Truncate(parts[1]) /\ r \in MinInt..MaxInt
      /\ \A r \in Range(AsUInt(value)) : r = Truncate(parts[1]) /\ r \in 0..MaxUInt
      /\ "string" \in Misjudged <=> value.type \in {"int", "uint", "real"}
      /\ "int" \in Misjudged <=> value.type = "uint" /\ value.num = MaxInt
      /\ Misjudged \subseteq {"string", "int"}
=============================================================================
