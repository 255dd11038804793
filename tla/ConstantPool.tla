----------------------------- MODULE ConstantPool -----------------------------
(***************************************************************************)
(* A constant pool under construction (src/classfile/poolbuilder.go): the   *)
(* interning calls in any order, past the failure too, since errors are     *)
(* sticky and callers look at Err only at the end.                          *)
(*                                                                         *)
(* A constant is named by its key, the kind and the symbolic values, as in  *)
(* PoolBuilder.                                                             *)
(***************************************************************************)
EXTENDS PoolBuilder

CONSTANTS
  Text,     \* strings
  Pair,     \* name and descriptor
  Member,   \* tag, owner, name and descriptor
  Half,     \* numbers of 4 bytes, as u4 takes them
  Full,     \* numbers of 8 bytes: two of them
  MaxLate   \* bound: calls made after a failure

RefTags == {Tag.Fieldref, Tag.Methodref, Tag.InterfaceMethodref}

ASSUME PoolInputs ==
  /\ Pair \subseteq Text \X Text /\ Member \subseteq RefTags \X Text \X Text \X Text
  /\ MaxLate \in Nat

VARIABLES
  pool,    \* the PoolBuilder
  given,   \* history: constants asked for before a failure, and the index returned
  late     \* calls made after a failure

vars == <<pool, given, late>>

Init == pool = newPoolBuilder /\ given = {} /\ late = 0

(* A call returns x for the constant called key. *)
Returns(key, x) ==
  /\ pool.err => late < MaxLate
  /\ pool' = x.p
  /\ given' = IF pool.err THEN given ELSE given \cup {<<key, x.i>>}
  /\ late' = IF pool.err THEN late + 1 ELSE late

CallUTF8       == \E s \in Text : Returns(<<"utf8", s>>, UTF8(pool, s))
CallClass      == \E s \in Text : Returns(<<"class", s>>, Class(pool, s))
CallString     == \E s \in Text : Returns(<<"string", s>>, String(pool, s))
CallMethodType == \E s \in Text : Returns(<<"methodType", s>>, MethodType(pool, s))
CallNameAndType ==
  \E n \in Pair : Returns(<<"nat", n[1], n[2]>>, NameAndType(pool, n[1], n[2]))
CallMemberRef ==
  \E m \in Member : Returns(<<"ref", m[1], m[2], m[3], m[4]>>, memberRef(pool, m[1], m[2], m[3], m[4]))
CallInt    == \E v \in Half : Returns(<<"int", v>>, Integer(pool, v))
CallFloat  == \E v \in Half : Returns(<<"float", v>>, Float(pool, v))
CallLong   == \E v \in Full : Returns(<<"long", v>>, Long(pool, v))
CallDouble == \E v \in Full : Returns(<<"double", v>>, Double(pool, v))

Next ==
  \/ CallUTF8 \/ CallClass \/ CallString \/ CallMethodType \/ CallNameAndType \/ CallMemberRef
  \/ CallInt \/ CallFloat \/ CallLong \/ CallDouble

Spec == Init /\ [][Next]_vars
-----------------------------------------------------------------------------
IsWide(k) == k[1] \in {"long", "double"}
Last_     == Len(pool.slots) - 1

(* Index i of the pool holds entry e. *)
Holds(i, e) == i \in 1..Last_ /\ pool.slots[i + 1] = e

(* Index i of the pool resolves to the constant called k, through every     *)
(* index its entry holds, and both slots of an 8-byte constant are there    *)
(* (JVMS 4.4).                                                              *)
IsUtf8(i, s)      == Holds(i, utf8Entry(s))
IsNamed(i, tag, s) == \E n \in 1..Last_ : Holds(i, ref1(tag, n)) /\ IsUtf8(n, s)
IsNat(i, name, d) == \E n, t \in 1..Last_ : Holds(i, ref2(Tag.NameAndType, n, t)) /\ IsUtf8(n, name) /\ IsUtf8(t, d)
IsRef(i, tag, owner, name, d) ==
  \E c, n \in 1..Last_ : Holds(i, ref2(tag, c, n)) /\ IsNamed(c, Tag.Class, owner) /\ IsNat(n, name, d)
IsWord(i, tag, v) == Holds(i, u1(tag) \o u4(v))
IsPair(i, tag, v) == Holds(i, u1(tag) \o u4(v[1]) \o u4(v[2])) /\ Holds(i + 1, <<>>)
Resolves(i, k) ==
  CASE k[1] = "utf8"       -> IsUtf8(i, k[2])
    [] k[1] = "class"      -> IsNamed(i, Tag.Class, k[2])
    [] k[1] = "string"     -> IsNamed(i, Tag.String, k[2])
    [] k[1] = "methodType" -> IsNamed(i, Tag.MethodType, k[2])
    [] k[1] = "nat"        -> IsNat(i, k[2], k[3])
    [] k[1] = "ref"        -> IsRef(i, k[2], k[3], k[4], k[5])
    [] k[1] = "int"        -> IsWord(i, Tag.Integer, k[2])
    [] k[1] = "float"      -> IsWord(i, Tag.Float, k[2])
    [] k[1] = "long"       -> IsPair(i, Tag.Long, k[2])
    [] k[1] = "double"     -> IsPair(i, Tag.Double, k[2])

(* The constants that k is made of, itself included.                        *)
Utf8s(ss) == {<<"utf8", s>> : s \in ss}
Parts(k) ==
  {k} \cup CASE k[1] \in {"class", "string", "methodType"} -> Utf8s({k[2]})
             [] k[1] = "nat" -> Utf8s({k[2], k[3]})
             [] k[1] = "ref" -> {<<"class", k[3]>>, <<"nat", k[4], k[5]>>} \cup Utf8s({k[3], k[4], k[5]})
             [] OTHER -> {}
TooLong(k) == \E u \in Parts(k) : u[1] = "utf8" /\ EncodedLen(u[2]) > MaxUtf8
Asked      == UNION {Parts(g[1]) : g \in given}

(* An index stays good: as long as nothing failed, every index a call ever  *)
(* returned resolves to the constant it was asked for, whatever was         *)
(* interned since, and one past the last usable index is never returned     *)
(* (PoolBuilder.add, addRef1, addRef2).                                     *)
IndexesStand ==
  ~pool.err => \A g \in given : g[2] \in 1..MaxPoolIndex /\ Resolves(g[2], g[1])

(* Interning: as long as nothing failed, the same constant has the same     *)
(* index however often it is asked for, and two constants never share one,  *)
(* nor the hidden half of an 8-byte constant (the maps of PoolBuilder).     *)
OneEach ==
  ~pool.err => \A g, h \in given :
    /\ g[1] = h[1] <=> g[2] = h[2]
    /\ IsWide(g[1]) => g[2] + 1 # h[2]

(* As long as nothing failed, every slot holds a constant somebody asked    *)
(* for, directly or as a part of one, or the second half of one             *)
(* (PoolBuilder.memberRef and NameAndType intern what they name).           *)
NoWaste ==
  ~pool.err => \A i \in 1..Last_ : \E k \in Asked : Resolves(i, k) \/ (IsWide(k) /\ Resolves(i - 1, k))

(* A call fails only when its constant cannot be held: a string of it is    *)
(* too long, or the slots it needs are not there; the last slot is used     *)
(* (the limits in PoolBuilder.add and UTF8).                                *)
RefusedWithReason ==
  pool.err => \E g \in given :
    /\ g[2] = 0
    /\ TooLong(g[1]) \/ Len(pool.slots) + (IF IsWide(g[1]) THEN 2 ELSE 1) - 1 > MaxPoolIndex
=============================================================================
