------------------------------ MODULE JsonPath ------------------------------
(***************************************************************************)
(* Json::ValueIterator and Json::Path, the two ways through a value other  *)
(* than its operators.  An iterator is a position in the order of the      *)
(* map's keys; current_ of a null iterator is never looked at.  A path is  *)
(* a text in ASCII codes, and names in it are numbered by their codes.     *)
(***************************************************************************)
EXTENDS JsonReader

NullIterator == [at |-> 0, isNull |-> TRUE]
IteratorAt(i) == [at |-> i, isNull |-> FALSE]
HasMap(v) == v.type \in {"array", "object"}

Begin(v) == IF HasMap(v) THEN IteratorAt(1) ELSE NullIterator

End(v) == IF HasMap(v) THEN IteratorAt(Len(GetMemberNames(v)) + 1) ELSE NullIterator

Increment(it) == [it EXCEPT !.at = @ + 1]
Decrement(it) == [it EXCEPT !.at = @ - 1]
IsEqual(a, b) == IF a.isNull THEN b.isNull ELSE a.at = b.at

(* copy(): isNull_ stays what it was *)
CopyTo(it, other) == [it EXCEPT !.at = other.at]

(* it - other: the steps from it to other *)
ComputeDistance(it, other) == IF it.isNull /\ other.isNull THEN 0 ELSE other.at - it.at

KeyAt(v, it) == GetMemberNames(v)[it.at]
Deref(v, it) == v.map[KeyAt(v, it)]
IteratorKey(v, it) == Make(IF v.type = "object" THEN "string" ELSE "int", KeyAt(v, it))
IteratorIndex(v, it) == IF v.type = "object" THEN MaxUInt ELSE KeyAt(v, it)
IteratorName(v, it) == IF v.type = "object" THEN KeyAt(v, it) ELSE 0

(* for ( it = v.begin(); it != v.end(); ++it ), and back with --it; a walk *)
(* that leaves the map is cut                                              *)
RECURSIVE Walk(_, _)
Walk(v, it) ==
  IF IsEqual(it, End(v)) \/ it.at > Len(GetMemberNames(v)) THEN <<it>>
  ELSE <<it>> \o Walk(v, Increment(it))

RECURSIVE WalkBack(_, _)
WalkBack(v, it) ==
  IF IsEqual(it, Begin(v)) THEN <<it>> ELSE Append(WalkBack(v, Decrement(it)), it)

-----------------------------------------------------------------------------
(* Path.  Its arguments are indices and keys.                              *)
Open == 91
Close == 93
Percent == 37

IndexArg(n) == [kind |-> "index", key |-> n]
NameOf(chars) == FoldLeft(LAMBDA n, c : 128 * n + c, 0, chars)
KeyArg(chars) == [kind |-> "key", key |-> NameOf(chars)]
NoArg == [kind |-> "none", key |-> 0]

(* addPathInArg(): the iterator over the arguments is never moved, and one *)
(* of the wrong kind is passed over in silence                             *)
AddPathInArg(in, kind) == IF in[1].kind = kind THEN <<in[1]>> ELSE <<>>

(* The characters at the front of a text that pass a test *)
While(text, Test(_)) ==
  SubSeq(text, 1, CHOOSE n \in 0..Len(text) : /\ \A i \in 1..n : Test(text[i])
                                              /\ n < Len(text) => ~Test(text[n + 1]))
Without(text, prefix) == SubSeq(text, Len(prefix) + 1, Len(text))

(* makePath(): the character after an index is skipped whatever it is,     *)
(* and the % of a parameter is not                                         *)
RECURSIVE MakePath(_, _)
MakeIndex(text, in) ==
  LET isParameter == text # <<>> /\ text[1] = Percent
      digits == While(text, IsDigit)
      arg == IF isParameter THEN AddPathInArg(in, "index") ELSE <<IndexArg(Value10(digits) % (MaxUInt + 1))>>
      left == IF isParameter THEN text ELSE Without(text, digits)
  IN  arg \o MakePath(IF left = <<>> THEN <<>> ELSE Tail(left), in)
MakeName(text, in) ==
  LET name == While(text, LAMBDA c : c \notin {Open, Dot})
  IN  <<KeyArg(name)>> \o MakePath(Without(text, name), in)

MakePath(text, in) ==
  CASE text = <<>> -> <<>>
    [] text # <<>> /\ text[1] = Open -> MakeIndex(Tail(text), in)
    [] text # <<>> /\ text[1] = Percent -> AddPathInArg(in, "key") \o MakePath(Tail(text), in)
    [] text # <<>> /\ text[1] = Dot -> MakePath(Tail(text), in)
    [] OTHER -> MakeName(text, in)

TypeFor(arg) == IF arg.kind = "index" THEN "array" ELSE "object"

(* resolve(): <<node>>, or <<>> when an operator[] throws *)
Resolve(v, args) ==
  LET Follow(node, arg) ==
        IF node = <<>> \/ node[1].type \notin {"null", TypeFor(arg)} THEN <<>> ELSE <<Lookup(node[1], arg.key)>>
  IN  FoldLeft(Follow, <<v>>, args)

(* resolve() with a default: an index that is valid gives the default      *)
ResolveOr(v, args, default) ==
  LET Fails(node, arg) ==
        \/ arg.kind = "index" /\ (~IsArray(node) \/ arg.key < Size(node))
        \/ arg.kind = "key" /\ (~IsObject(node) \/ ~Has(node, arg.key))
      Follow(node, arg) ==
        IF node = <<>> \/ Fails(node[1], arg) THEN <<>> ELSE <<Lookup(node[1], arg.key)>>
      node == FoldLeft(Follow, <<v>>, args)
  IN  IF node = <<>> THEN default ELSE node[1]

(* make(), where no operator[] throws *)
RECURSIVE MakeNode(_, _)
MakeNode(v, args) ==
  IF args = <<>> THEN v
  ELSE [Reference(v, TypeFor(args[1]), args[1].key) EXCEPT !.map[args[1].key] = MakeNode(@, Tail(args))]

-----------------------------------------------------------------------------
(* Between begin() and end() an iterator comes to every entry once, in the *)
(* order of the keys and with the key, forward and back, also when an      *)
(* array has holes and when there is nothing to come to; and it can be set *)
(* back to begin().                                                        *)
IteratorsReachAll ==
  LET entries == IF HasMap(value) THEN Cardinality(DOMAIN value.map) ELSE 0
      walk == Walk(value, Begin(value))
  IN  /\ Len(walk) = entries + 1
      /\ ComputeDistance(Begin(value), End(value)) = entries
      /\ WalkBack(value, End(value)) = walk
      /\ IsEqual(CopyTo(End(value), Begin(value)), Begin(value))
      /\ \A k \in DOMAIN value.map : \E i \in 1..entries :
           k = IF value.type = "array" THEN IteratorIndex(value, walk[i]) ELSE IteratorName(value, walk[i])
      /\ \A i \in 1..entries : Deref(value, walk[i]) = Lookup(value, IteratorKey(value, walk[i]).num)
=============================================================================
