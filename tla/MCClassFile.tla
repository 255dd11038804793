----------------------------- MODULE MCClassFile -----------------------------
(***************************************************************************)
(* Calls on a builder whose pool is full after a few of them, and files of  *)
(* other compilers: one attribute of each kind in each place, each version  *)
(* boundary, each kind of constant.                                         *)
(***************************************************************************)
EXTENDS ClassFile

V(a, b)     == [major |-> a, minor |-> b]
SomeVersions == {V(45, 3), V(48, 0), V(50, 0), V(49, 65535)}

(* A letter, NUL with a two-byte character, a three-byte character with a   *)
(* supplementary one: of MaxUtf8 bytes and of one more.                     *)
Plain       == <<97>>
Odd         == <<0, 233>>
Longest     == <<8364, 128512>>
TooLong     == <<8364, 128512, 98>>
SomeNames   == {Plain, Longest}

I           == <<73>>
Alphabet    == {73, 86, 76, 97, 59, 91, 40, 41, 46, 47}
Short       == UNION {[1..n -> Alphabet] : n \in 0..4}
Tried       == Short \cup {<<40>> \o s \o <<86>> : s \in Short}
SomeFields  == {<<25, Odd, I>>, <<17, Plain, <<91, 91, 74>> >>, <<1, Plain, <<86>> >>,
                <<25, Plain, <<Obj>> \o JavaString \o <<Semi>> >>, <<25, Plain, <<Obj, Dim, Semi>> >>}
SomeMethods == {<<1, Plain, <<40, 74, 41, 86>> >>, <<9, Odd, <<40, 74, 74, 41, 73>> >>,
                <<1, Plain, <<40, 74, 74, 41, 86>> >>, <<1025, TooLong, <<40, 41, 86>> >>,
                <<257, Odd, <<40, 76, 97, 41, 59, 41, 73>> >>, <<1025, Plain, <<40, 74, 74, 41, 86>> >>}
SomeFlags   == {33, 1537}
Zero        == <<0, 0>>
MinusZero   == <<32768, 0>>
SomeLiterals == {[tag |-> "Integer", v |-> <<65535, 65535>>], [tag |-> "Float", v |-> MinusZero],
                 [tag |-> "Long", v |-> <<Zero, MinusZero>>], [tag |-> "Double", v |-> <<MinusZero, Zero>>],
                 [tag |-> "String", v |-> Odd]}
Ins(t, n)   == [op |-> 184, tag |-> t, owner |-> Plain, name |-> n, descriptor |-> I]
Body(ins, hs, ls, vs) == [refused |-> FALSE, instrs |-> ins, maxStack |-> 2, maxLocals |-> 1,
                          handlers |-> hs, lines |-> ls, locals |-> vs]
Handler(t)  == [start |-> 0, end |-> 3, handler |-> 0, catchType |-> t]
Variable    == [startPC |-> 0, length |-> 3, name |-> Plain, descriptor |-> I, slot |-> 0]
SomeBodies  == {Body(<<Ins(10, Plain)>>, <<>>, <<>>, <<>>),
                Body(<<Ins(10, Plain), Ins(11, Plain)>>, <<>>, <<>>, <<>>),
                Body(<<Ins(9, Plain)>>, <<Handler(<<>>), Handler(Plain)>>, <<(<<0, 258>>)>>, <<Variable>>),
                [Body(<<>>, <<>>, <<>>, <<>>) EXCEPT !.refused = TRUE]}

-----------------------------------------------------------------------------
Of(v)       == [version |-> v, flags |-> 33, name |-> Plain, super |-> Object, interfaces |-> <<>>,
                fields |-> <<>>, methods |-> <<>>, attrs |-> <<>>, slack |-> "none", extra |-> {}]
Names2      == <<(<<Plain>>), <<Odd>> >>
Unknown     == Attr("Raw", <<Odd, <<1, 2>> >>)
Misplaced(n) == Attr("Raw", <<Word(n), <<0, 9>> >>)
Ref(t, n)   == <<t, Plain, n, I>>
ClassAttrs ==
  {Attr("SourceFile", <<Odd>>), Attr("Signature", <<Plain>>), Attr("Synthetic", <<>>), Attr("Deprecated", <<>>),
   Attr("NestHost", <<Plain>>), Attr("NestMembers", <<Names2>>), Attr("PermittedSubclasses", <<Names2>>),
   Attr("EnclosingMethod", <<Plain, <<>> >>), Attr("EnclosingMethod", <<Plain, <<Odd, I>> >>),
   Attr("InnerClasses", <<(<<(<<Plain, <<>>, <<>>, 9>>), <<Odd, Plain, I, 1>> >>)>>),
   Attr("BootstrapMethods", <<(<<(<<(<<6, Ref(10, Plain)>>), <<(<<7>>), <<8>> >> >>)>>)>>),
   Attr("Record", <<(<<(<<Plain, I, <<Attr("Signature", <<Odd>>)>> >>), <<Odd, I, <<>> >> >>)>>),
   Unknown, Misplaced("Code"), Misplaced("Module"), Misplaced("RuntimeVisibleTypeAnnotations")}
FieldAttrs ==
  {Attr("ConstantValue", <<(<<5, <<Zero, MinusZero>> >>)>>), Attr("ConstantValue", <<(<<8, Odd>>)>>),
   Attr("Signature", <<Plain>>), Attr("Synthetic", <<>>), Attr("Deprecated", <<>>),
   Unknown, Misplaced("SourceFile"), Misplaced("RuntimeVisibleAnnotations")}
Lines       == Attr("LineNumberTable", <<(<<(<<0, 1>>), <<3, 515>> >>)>>)
Vars(n)     == Attr(n, <<(<<(<<0, 3, Plain, I, 256>>)>>)>>)
CodeOfClass(as) == Attr("Code", <<257, 1, <<Ins(11, Odd), Ins(9, Plain)>>, <<(<<0, 3, 3, <<>> >>), <<0, 3, 3, Odd>> >>, as>>)
CodeAttrs ==
  {Lines, Vars("LocalVariableTable"), Vars("LocalVariableTypeTable"), Attr("StackMapTable", <<0, 0>>),
   Unknown, Misplaced("Signature")}
MethodAttrs ==
  {CodeOfClass(<<>>), Attr("Exceptions", <<Names2>>), Attr("MethodParameters", <<(<<(<<Odd, 16>>), <<<<>>, 0>> >>)>>),
   Attr("Signature", <<Odd>>), Attr("Synthetic", <<>>), Unknown, Misplaced("AnnotationDefault"), Misplaced("ConstantValue")}
  \cup {CodeOfClass(<<a>>) : a \in CodeAttrs}
New         == V(69, 0)
OnClass(as)  == [Of(New) EXCEPT !.attrs = as]
OnField(as)  == [Of(New) EXCEPT !.fields = <<(<<25, Odd, I, as>>)>>]
OnMethod(as) == [Of(New) EXCEPT !.methods = <<(<<1, Odd, I, as>>)>>]

(* Every attribute in its place, alone and before another one.              *)
Placed ==
  {OnClass(<<a>>) : a \in ClassAttrs} \cup {OnField(<<a>>) : a \in FieldAttrs} \cup {OnMethod(<<a>>) : a \in MethodAttrs}
  \cup {OnClass(<<a, Unknown, Attr("SourceFile", <<I>>)>>) : a \in {x \in ClassAttrs : x[1] # "SourceFile"}}
  \cup {OnMethod(<<CodeOfClass(<<a, b>>), Attr("Deprecated", <<>>)>>) : a \in CodeAttrs, b \in {Lines, Unknown}}
Slack ==
  {[OnClass(<<a>>) EXCEPT !.slack = a[1]] : a \in {x \in ClassAttrs : x[1] # "Raw"}}
  \cup {[OnField(<<a>>) EXCEPT !.slack = a[1]] : a \in {x \in FieldAttrs : x[1] # "Raw"}}
  \cup {[OnMethod(<<CodeOfClass(<<a>>)>>) EXCEPT !.slack = a[1]] : a \in {x \in CodeAttrs : x[1] \in Debug}}
  \cup {[OnMethod(<<a>>) EXCEPT !.slack = a[1]] : a \in {x \in MethodAttrs : x[1] \notin {"Raw", "Code"}}}

(* Every version boundary and every kind of constant.                       *)
Handles     == {<<15, k, Ref(t, n)>> : k \in {0, 1, 5, 6, 8, 9, 10}, t \in 9..11, n \in {Plain, Init_}}
Kinds       == {<<3, Zero>>, <<4, MinusZero>>, <<6, <<MinusZero, Zero>> >>, <<7, Longest>>, <<8, Plain>>, <<16, I>>,
                <<17, 1, Plain, I>>, <<18, 0, Plain, I>>, <<19, Odd>>, <<20, Odd>>, <<15, 6, Ref(11, Plain)>>}
Constant    == {[Of(V(m, 0)) EXCEPT !.extra = {k}] : m \in {45, 48, 49, 50, 51, 52, 53, 54, 55}, k \in Kinds}
               \cup {[Of(New) EXCEPT !.extra = {k}] : k \in Handles}
               \cup {[Of(New) EXCEPT !.extra = {<<5, <<Zero, Zero>> >>, <<6, <<Zero, Zero>> >>, k}] : k \in Kinds}
Bootstraps  == {[Of(V(m, 0)) EXCEPT !.attrs = <<Attr("BootstrapMethods", <<(<<(<<(<<k, Ref(t, n)>>), <<>> >>)>>)>>)>>] :
                  m \in {51, 52}, k \in {1, 5, 6, 8, 9}, t \in 9..11, n \in {Plain, Init_, Clinit}}
Versioned   == {Of(V(a, b)) : a \in {44, 45, 55, 56, 68, 69, 70, 71}, b \in {0, 1, 65535}}
Supers      == {[Of(New) EXCEPT !.super = <<>>, !.name = n, !.flags = f] : n \in {Plain, Object}, f \in {33, 32768}}

Others      == Placed \cup Slack \cup Constant \cup Bootstraps \cup Versioned \cup Supers
SomeModes   == {{}, {"SkipCode", "SkipDebug"}, {"KeepRaw"}, {"KeepRaw", "SkipCode", "SkipDebug", "AllowPreview"}}
Alone(as)   == Len(as) <= 1 /\ \A i \in DOMAIN as : as[i][1] \notin {"Raw", "Synthetic", "Deprecated"}
Cuttable(c) == /\ c \in Placed /\ Alone(c.attrs)
               /\ \A i \in DOMAIN c.fields : Alone(c.fields[i][4])
               /\ \A i \in DOMAIN c.methods : Alone(c.methods[i][4])
=============================================================================
