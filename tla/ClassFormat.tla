----------------------------- MODULE ClassFormat -----------------------------
(***************************************************************************)
(* The class file format as the JVM specification states it (chapter 4):    *)
(* what a described class looks like in bytes.                              *)
(*                                                                         *)
(* A description has symbolic constants where the file has pool indices.    *)
(* It is written in two steps: into pieces, literal bytes or the hole of an *)
(* index, and then linked with a pool of the constants the holes name.  A   *)
(* constant is its tag and its symbolic operands.                           *)
(***************************************************************************)
EXTENDS ClassWords

Tables ==
  [exceptions |-> <<"class">>,
   inner      |-> <<"class", "class?", "utf8?", "u2">>,
   bootstrap  |-> <<"handle", "arguments">>,
   arguments  |-> <<"u2">>,
   parameters |-> <<"utf8?", "u2">>,
   components |-> <<"utf8", "utf8", "attributes">>,
   lines      |-> <<"u2", "u2">>,
   locals     |-> <<"u2", "u2", "utf8", "utf8", "u2">>,
   handlers   |-> <<"u2", "u2", "u2", "class?">>,
   members    |-> <<"u2", "utf8", "utf8", "attributes">>]

Structure ==
  [SourceFile |-> <<"utf8">>, Signature |-> <<"utf8">>, ConstantValue |-> <<"constant">>,
   Synthetic |-> <<>>, Deprecated |-> <<>>, NestHost |-> <<"class">>, Exceptions |-> <<"exceptions">>,
   NestMembers |-> <<"exceptions">>, PermittedSubclasses |-> <<"exceptions">>,
   EnclosingMethod |-> <<"class", "nat?">>, InnerClasses |-> <<"inner">>,
   BootstrapMethods |-> <<"bootstrap">>, MethodParameters |-> <<"parameters">>,
   Record |-> <<"components">>, LineNumberTable |-> <<"lines">>, LocalVariableTable |-> <<"locals">>,
   LocalVariableTypeTable |-> <<"locals">>, Code |-> <<"u2", "u2", "code", "handlers", "attributes">>]

Lit(bytes)  == <<[k |-> "lit", v |-> bytes]>>
Hole(c)     == <<[k |-> "hole", v |-> c]>>
Sizes(ps)   == [i \in DOMAIN ps |-> IF ps[i].k = "hole" THEN 2 ELSE Len(ps[i].v)]
SizeOf(ps)  == FoldLeft(LAMBDA n, k : n + k, 0, Sizes(ps))
U4(n)       == u4(halves(n))
CodeOf(ins) == FlattenSeq([i \in DOMAIN ins |->
                 Lit(u1(ins[i].op)) \o Hole(<<ins[i].tag, ins[i].owner, ins[i].name, ins[i].descriptor>>)])

RECURSIVE Piece(_, _, _)
Pieces(ks, vs, slack) == FlattenSeq([i \in DOMAIN ks |-> Piece(ks[i], vs[i], slack)])

(* One attribute; the one called slack declares and has a byte too many.    *)
Attribute(a, slack) ==
  LET n == IF a[1] = "Raw" THEN a[2][1] ELSE Word(a[1])
      b == CASE a[1] = "Raw" -> Lit(a[2][2])
             [] a[1] = "StackMapTable" -> Lit(a[2])
             [] OTHER -> Pieces(Structure[a[1]], a[2], slack)
      x == IF a[1] = slack THEN b \o Lit(<<0>>) ELSE b
  IN Hole(<<Tag.Utf8, n>>) \o Lit(U4(SizeOf(x))) \o x

Piece(k, v, slack) ==
  IF k \in DOMAIN Tables
  THEN Lit(IF k = "parameters" THEN u1(Len(v)) ELSE u2(Len(v)))
       \o FlattenSeq([i \in DOMAIN v |-> Pieces(Tables[k], v[i], slack)])
  ELSE CASE k = "u2" -> Lit(u2(v))
         [] k = "attributes" -> Lit(u2(Len(v))) \o FlattenSeq([i \in DOMAIN v |-> Attribute(v[i], slack)])
         [] k = "code" -> Lit(U4(3 * Len(v))) \o CodeOf(v)
         [] k = "utf8" -> Hole(<<Tag.Utf8, v>>)
         [] k = "class" -> Hole(<<Tag.Class, v>>)
         [] k = "constant" -> Hole(v)
         [] k = "handle" -> Hole(<<Tag.MethodHandle>> \o v)
         [] OTHER -> IF v = <<>> THEN Lit(u2(0))
                     ELSE CASE k = "utf8?" -> Hole(<<Tag.Utf8, v>>)
                            [] k = "class?" -> Hole(<<Tag.Class, v>>)
                            [] k = "nat?" -> Hole(<<Tag.NameAndType>> \o v)

AfterPool(c) ==
  Pieces(<<"u2", "class", "class?", "exceptions", "members", "members", "attributes">>,
         <<c.flags, c.name, c.super, c.interfaces, c.fields, c.methods, c.attrs>>, c.slack)

(* The constants a constant's own operands name, and its bytes in the pool. *)
Operands(c) ==
  CASE c[1] \in {Tag.Class, Tag.String, Tag.MethodType, Tag.Module, Tag.Package} -> <<(<<Tag.Utf8, c[2]>>)>>
    [] c[1] = Tag.NameAndType -> <<(<<Tag.Utf8, c[2]>>), <<Tag.Utf8, c[3]>> >>
    [] c[1] \in {Tag.Fieldref, Tag.Methodref, Tag.InterfaceMethodref} ->
         <<(<<Tag.Class, c[2]>>), <<Tag.NameAndType, c[3], c[4]>> >>
    [] c[1] = Tag.MethodHandle -> <<c[3]>>
    [] c[1] \in {Tag.Dynamic, Tag.InvokeDynamic} -> <<(<<Tag.NameAndType, c[3], c[4]>>)>>
    [] OTHER -> <<>>

RECURSIVE Closure(_)
Closure(cs) ==
  LET more == cs \cup UNION {ToSet(Operands(c)) : c \in cs}
  IN IF more = cs THEN cs ELSE Closure(more)

Holes(ps)    == {ps[i].v : i \in {j \in DOMAIN ps : ps[j].k = "hole"}}
Constants(c) == Closure(Holes(AfterPool(c)) \cup c.extra)
Weight(c)    == IF c[1] \in Wide THEN 2 ELSE 1
Slots(cs)    == MapThenSumSet(Weight, cs)

(* The pool: constants in descending order of their tags, so that every     *)
(* operand but a Utf8's points forward.                                     *)
RECURSIVE Ordered(_)
Ordered(cs) ==
  IF cs = {} THEN <<>>
  ELSE LET c == CHOOSE x \in cs : \A y \in cs : x[1] >= y[1] IN <<c>> \o Ordered(cs \ {c})
IndexIn(pool, c) ==
  LET at == CHOOSE i \in DOMAIN pool : pool[i] = c
  IN 1 + FoldLeft(LAMBDA n, d : n + Weight(d), 0, SubSeq(pool, 1, at - 1))
PoolEntry(pool, c) ==
  LET links == FlattenSeq([i \in DOMAIN Operands(c) |-> u2(IndexIn(pool, Operands(c)[i]))])
  IN u1(c[1]) \o
     CASE c[1] = Tag.Utf8 -> u2(Len(Encode(c[2]))) \o Encode(c[2])
       [] c[1] \in {Tag.Integer, Tag.Float} -> u4(c[2])
       [] c[1] \in Wide -> u4(c[2][1]) \o u4(c[2][2])
       [] c[1] = Tag.MethodHandle -> u1(c[2]) \o links
       [] c[1] \in {Tag.Dynamic, Tag.InvokeDynamic} -> u2(c[2]) \o links
       [] OTHER -> links

FileOf(c) ==
  LET pool == Ordered(Constants(c))
      ps   == AfterPool(c)
  IN u4(Magic) \o u2(c.version.minor) \o u2(c.version.major)
     \o u2(1 + Slots(Constants(c))) \o FlattenSeq([i \in DOMAIN pool |-> PoolEntry(pool, pool[i])])
     \o FlattenSeq([i \in DOMAIN ps |-> IF ps[i].k = "lit" THEN ps[i].v ELSE u2(IndexIn(pool, ps[i].v))])
=============================================================================
