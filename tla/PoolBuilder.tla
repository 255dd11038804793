----------------------------- MODULE PoolBuilder -----------------------------
(***************************************************************************)
(* The interning constant pool builder (src/classfile/poolbuilder.go).      *)
(*                                                                         *)
(* A builder is its slots, of which the first is the hole at index 0 and an *)
(* empty one the second half of an 8-byte constant, the sticky error and    *)
(* one map from symbolic keys to indices for the ten of the code.  Every    *)
(* operation returns the builder and the index.                             *)
(***************************************************************************)
EXTENDS ClassWords

CONSTANTS MaxPoolIndex,   \* 65534 in the code
          MaxUtf8         \* 65535 in the code: bytes in one Utf8 constant

ASSUME PoolLimits ==
  /\ MaxPoolIndex \in Nat /\ 1 <= MaxPoolIndex /\ MaxPoolIndex <= 65534
  /\ MaxUtf8 \in Nat /\ 1 <= MaxUtf8 /\ MaxUtf8 <= 65535

newPoolBuilder == [slots |-> << <<>> >>, err |-> FALSE, ids |-> << >>]

fail(p) == [p EXCEPT !.err = TRUE]

(* Mutant of cells: no slot is kept for the second half. *)
cellsNoHalf(b, wide) == <<b>>

cells(b, wide)    == IF wide THEN <<b, <<>> >> ELSE <<b>>
grown(p, b, wide) == [p EXCEPT !.slots = @ \o cells(b, wide)]

(* Mutant of add: the last index is never used. *)
addOneShort(p, b, wide) ==
  LET need == IF wide THEN 2 ELSE 1
  IN IF p.err THEN [p |-> p, i |-> 0]
     ELSE IF Len(p.slots) + need > MaxPoolIndex THEN [p |-> fail(p), i |-> 0]
     ELSE [p |-> grown(p, b, wide), i |-> Len(p.slots)]
add(p, b, wide) ==
  LET need == IF wide THEN 2 ELSE 1
  IN IF p.err THEN [p |-> p, i |-> 0]
     ELSE IF Len(p.slots) + need - 1 > MaxPoolIndex THEN [p |-> fail(p), i |-> 0]
     ELSE [p |-> grown(p, b, wide), i |-> Len(p.slots)]

(* Mutant of remember: the index is not kept. *)
rememberNot(ids, key, i) == ids
remember(ids, key, i) == [k \in DOMAIN ids \cup {key} |-> IF k = key THEN i ELSE ids[k]]

intern(p, key, Make(_)) ==
  IF key \in DOMAIN p.ids THEN [p |-> p, i |-> p.ids[key]]
  ELSE LET x == Make(p) IN [x EXCEPT !.p.ids = remember(@, key, x.i)]

(* The entries of a string and of constants that name others.               *)
utf8Entry(s)        == u1(Tag.Utf8) \o u2(Len(Encode(s))) \o Encode(s)
ref1(tag, a)        == u1(tag) \o u2(a)
ref2(tag, a, b)     == u1(tag) \o u2(a) \o u2(b)
addRef1(tag, x)     == add(x.p, ref1(tag, x.i), FALSE)
addRef2(tag, x, y)  == add(y.p, ref2(tag, x.i, y.i), FALSE)

(* A constant over the byte limit fails before it is entered in the map.    *)
UTF8(p, s) ==
  IF <<"utf8", s>> \notin DOMAIN p.ids /\ EncodedLen(s) > MaxUtf8 THEN [p |-> fail(p), i |-> 0]
  ELSE intern(p, <<"utf8", s>>, LAMBDA q : add(q, utf8Entry(s), FALSE))

Class(p, s)      == intern(p, <<"class", s>>, LAMBDA q : addRef1(Tag.Class, UTF8(q, s)))
String(p, s)     == intern(p, <<"string", s>>, LAMBDA q : addRef1(Tag.String, UTF8(q, s)))
MethodType(p, s) == intern(p, <<"methodType", s>>, LAMBDA q : addRef1(Tag.MethodType, UTF8(q, s)))

NameAndType(p, name, descriptor) ==
  intern(p, <<"nat", name, descriptor>>,
         LAMBDA q : With(UTF8(q, name), LAMBDA n : addRef2(Tag.NameAndType, n, UTF8(n.p, descriptor))))

memberRef(p, tag, owner, name, descriptor) ==
  intern(p, <<"ref", tag, owner, name, descriptor>>,
         LAMBDA q : With(Class(q, owner), LAMBDA c : addRef2(tag, c, NameAndType(c.p, name, descriptor))))

(* Numbers are keyed on their bits: +0.0 and -0.0 are two constants.        *)
Integer(p, v) == intern(p, <<"int", v>>, LAMBDA q : add(q, u1(Tag.Integer) \o u4(v), FALSE))
Float(p, v)  == intern(p, <<"float", v>>, LAMBDA q : add(q, u1(Tag.Float) \o u4(v), FALSE))
Long(p, v)   == intern(p, <<"long", v>>, LAMBDA q : add(q, u1(Tag.Long) \o u4(v[1]) \o u4(v[2]), TRUE))
Double(p, v) == intern(p, <<"double", v>>, LAMBDA q : add(q, u1(Tag.Double) \o u4(v[1]) \o u4(v[2]), TRUE))

emit(p) == u2(Len(p.slots)) \o FlattenSeq(Tail(p.slots))
=============================================================================
