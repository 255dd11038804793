------------------------------ MODULE ClassFile ------------------------------
(***************************************************************************)
(* A class file from the calls that describe it, or from another compiler,  *)
(* through damage on the way, to the class that is read from it             *)
(* (src/classfile).                                                         *)
(*                                                                         *)
(* said keeps what the calls said, meant is the description of the class    *)
(* the file should hold.  Another compiler's file follows the format of     *)
(* module ClassFormat.                                                      *)
(***************************************************************************)
EXTENDS ClassBuilder, ClassReader, ClassFormat

CONSTANTS
  MaxCalls,                    \* bound: calls made on one builder
  Versions, Names, FlagSets,   \* arguments of the calls
  FieldArgs, MethodArgs,       \* flags, name and descriptor
  Literals, Bodies,
  Descriptors,                 \* strings tried as descriptors
  Foreign,                     \* descriptions other compilers write down
  ReadModes,                   \* sets of reading modes
  MayCut(_)                    \* which descriptions' files get damaged

VARIABLES builder, said, calls, meant, file, state, mode, result

vars == <<builder, said, calls, meant, file, state, mode, result>>

None == [flags |-> -1]

(* What NewBuilder and the calls so far describe.                           *)
Nothing(name) ==
  [asked |-> {}, version |-> [major |-> Java.v5, minor |-> 0], flags |-> Acc.Public + Acc.Super,
   name |-> name, super |-> Object, interfaces |-> <<>>, fields |-> <<>>, methods |-> <<>>,
   sourceFile |-> <<>>, mentioned |-> {}]

Init ==
  /\ builder = NewBuilder(<<97>>)
  /\ said = Nothing(<<97>>)
  /\ calls = 0
  /\ meant = None
  /\ file = <<>>
  /\ state = "building"
  /\ mode = {}
  /\ result = No

Call(b, s) ==
  /\ state = "building" /\ calls < MaxCalls
  /\ builder' = b /\ said' = s /\ calls' = calls + 1
  /\ UNCHANGED <<meant, file, state, mode, result>>

CallSetVersion == \E v \in Versions :
  Call(SetVersion(builder, v), [said EXCEPT !.asked = @ \cup {v}, !.version = v])
CallSetFlags == \E f \in FlagSets :
  Call([builder EXCEPT !.flags = f], [said EXCEPT !.flags = f])
CallSetSuper == \E n \in Names \cup {<<>>} :
  Call([builder EXCEPT !.super = n], [said EXCEPT !.super = n])
CallAddInterface == \E n \in Names :
  Call([builder EXCEPT !.ifaces = Append(@, n)], [said EXCEPT !.interfaces = Append(@, <<n>>)])
CallSetSourceFile == \E n \in Names :
  Call([builder EXCEPT !.sourceFile = n], [said EXCEPT !.sourceFile = n])

CallField == \E a \in FieldArgs :
  Call(Field(builder, a[1], a[2], a[3]),
       [said EXCEPT !.fields = Append(@, [flags |-> a[1], name |-> a[2], descriptor |-> a[3],
                                          constant |-> <<>>, signature |-> <<>>])])
CallConstant == \E i \in DOMAIN said.fields, c \in Literals :
  Call(setConstant(builder, i, c),
       [said EXCEPT !.fields[i].constant = <<Tag[c.tag], c.v>>, !.mentioned = @ \cup {<<Tag[c.tag], c.v>>}])
CallFieldSignature == \E i \in DOMAIN said.fields, n \in Names :
  Call([builder EXCEPT !.fields[i].signature = n], [said EXCEPT !.fields[i].signature = n])

CallMethod == \E a \in MethodArgs :
  Call(Method(builder, a[1], a[2], a[3]),
       [said EXCEPT !.methods = Append(@, [flags |-> a[1], name |-> a[2], descriptor |-> a[3], body |-> <<>>,
                                           exceptions |-> <<>>, signature |-> <<>>])])
CallThrows == \E i \in DOMAIN said.methods, n \in Names :
  Call([builder EXCEPT !.methods[i].exceptions = Append(@, n)],
       [said EXCEPT !.methods[i].exceptions = Append(@, <<n>>)])
CallMethodSignature == \E i \in DOMAIN said.methods, n \in Names :
  Call([builder EXCEPT !.methods[i].signature = n], [said EXCEPT !.methods[i].signature = n])

(* Callers give a method one body.                                          *)
CallCode == \E i \in DOMAIN said.methods, x \in Bodies :
  /\ said.methods[i].body = <<>>
  /\ Call(Code(builder, i, x), [said EXCEPT !.methods[i].body = <<x>>])

-----------------------------------------------------------------------------
(* The grammar of descriptors (JVMS 4.3) over the class names of JVMS 4.2,  *)
(* or, loose, over every name that has no semicolon.                        *)
Dot   == 46
Slash == 47
Upto(s, k)  == SubSeq(s, 1, k)
IsName(n, loose) ==
  /\ n # <<>>
  /\ \A i \in DOMAIN n : n[i] # Semi
  /\ \/ loose
     \/ /\ \A i \in DOMAIN n : n[i] \notin {Dim, Dot}
        /\ \A i \in 0 .. Len(n) : (i = 0 \/ n[i] = Slash) => i < Len(n) /\ n[i + 1] # Slash
TypeIn(s, loose) ==
  \E k \in 0..MaxDims :
    /\ k < Len(s) /\ \A i \in 1..k : s[i] = Dim
    /\ \/ Len(s) = k + 1 /\ s[k + 1] \in Bases
       \/ s[k + 1] = Obj /\ s[Len(s)] = Semi /\ IsName(SubSeq(s, k + 2, Len(s) - 1), loose)
RECURSIVE TypesIn(_, _)
TypesIn(s, loose) ==
  s = <<>> \/ \E k \in DOMAIN s : TypeIn(Upto(s, k), loose) /\ TypesIn(rest(s, k), loose)
Splits(s, loose) ==
  {k \in DOMAIN s : /\ s[k] = Close /\ TypesIn(SubSeq(s, 2, k - 1), loose)
                    /\ rest(s, k) = <<Void>> \/ TypeIn(rest(s, k), loose)}
MethodIn(s, loose) == s # <<>> /\ s[1] = Open /\ Splits(s, loose) # {}

IsType(s)    == TypeIn(s, FALSE)
IsMethod(s)  == MethodIn(s, FALSE)

(* A descriptor but for a class name that no class can have.                *)
MisnamedType(s)   == TypeIn(s, TRUE) /\ ~IsType(s)
MisnamedMethod(s) == MethodIn(s, TRUE) /\ ~IsMethod(s)

RECURSIVE SlotsIn(_)
SlotsIn(s) ==
  IF s = <<>> THEN 0
  ELSE LET k == CHOOSE j \in DOMAIN s : TypeIn(Upto(s, j), TRUE)
       IN (IF s[1] \in TwoSlots THEN 2 ELSE 1) + SlotsIn(rest(s, k))
Arguments(m) ==
  (IF Has(m.flags, Acc.Static) THEN 0 ELSE 1)
  + SlotsIn(SubSeq(m.descriptor, 2, (CHOOSE k \in Splits(m.descriptor, TRUE) : TRUE) - 1))

Attr(n, v)    == <<n, v>>
Given(n, v)   == IF v = <<>> THEN <<>> ELSE <<Attr(n, <<v>>)>>
CodeAttr(m, x) ==
  Attr("Code", <<x.maxStack, IF MethodIn(m.descriptor, TRUE) THEN Max({x.maxLocals, Arguments(m)}) ELSE 0, x.instrs,
     [i \in DOMAIN x.handlers |->
        <<x.handlers[i].start, x.handlers[i].end, x.handlers[i].handler, x.handlers[i].catchType>>],
     Given("LineNumberTable", x.lines)
     \o Given("LocalVariableTable", [i \in DOMAIN x.locals |->
          <<x.locals[i].startPC, x.locals[i].length, x.locals[i].name, x.locals[i].descriptor, x.locals[i].slot>>])>>)

(* The description of the class the calls describe.                         *)
Description(s) ==
  [version |-> s.version, flags |-> s.flags, name |-> s.name, super |-> s.super,
   interfaces |-> s.interfaces, slack |-> "none", extra |-> {},
   fields |-> [i \in DOMAIN s.fields |->
     <<s.fields[i].flags, s.fields[i].name, s.fields[i].descriptor,
       Given("ConstantValue", s.fields[i].constant) \o Given("Signature", s.fields[i].signature)>>],
   methods |-> [i \in DOMAIN s.methods |->
     <<s.methods[i].flags, s.methods[i].name, s.methods[i].descriptor,
       (IF s.methods[i].body = <<>> THEN <<>> ELSE <<CodeAttr(s.methods[i], s.methods[i].body[1])>>)
       \o Given("Exceptions", s.methods[i].exceptions) \o Given("Signature", s.methods[i].signature)>>],
   attrs |-> Given("SourceFile", s.sourceFile)]

Write ==
  /\ state = "building"
  /\ \E w \in {Bytes(builder)} :
       /\ builder' = w.b
       /\ file' = w.res.v
       /\ state' = IF w.res.ok THEN "written" ELSE "unwritten"
  /\ meant' = Description(said)
  /\ UNCHANGED <<said, calls, mode, result>>

(* A file of another compiler.                                              *)
Import == \E c \in Foreign :
  /\ state = "building" /\ calls = 0
  /\ file' = FileOf(c)
  /\ meant' = c
  /\ state' = IF c.slack = "none" THEN "imported" ELSE "slack"
  /\ UNCHANGED <<builder, said, calls, mode, result>>

(* The file is cut short, or something follows it.                          *)
Damage ==
  /\ state \in {"written", "imported"} /\ MayCut(meant)
  /\ \/ \E k \in 0 .. Len(file) - 1 : file' = SubSeq(file, 1, k)
     \/ file' = Append(file, 0)
  /\ state' = "damaged"
  /\ UNCHANGED <<builder, said, calls, meant, mode, result>>

Read == \E m \in ReadModes :
  /\ state \in {"written", "imported", "damaged", "slack"}
  /\ result' = read(file, m)
  /\ state' = [written |-> "read", imported |-> "read", damaged |-> "readDamaged", slack |-> "readSlack"][state]
  /\ mode' = m
  /\ UNCHANGED <<builder, said, calls, meant, file>>

Next ==
  \/ CallSetVersion \/ CallSetFlags \/ CallSetSuper \/ CallAddInterface \/ CallSetSourceFile
  \/ CallField \/ CallConstant \/ CallFieldSignature
  \/ CallMethod \/ CallThrows \/ CallMethodSignature \/ CallCode
  \/ Write \/ Import \/ Damage \/ Read

Spec == Init /\ [][Next]_vars

-----------------------------------------------------------------------------
(* The rules of JVMS 4.1 to 4.7 that what the calls said breaks; a class    *)
(* that breaks none is legal.  Versions end at 49.0, and a constant needs a *)
(* static final field, as the builder documents; a body is legal when the   *)
(* code writer did not refuse it.                                           *)
Bodiless(f) == Has(f, Acc.Abstract) \/ Has(f, Acc.Native)
Fits(cs)    == /\ Slots(cs) <= MaxPoolIndex
               /\ \A c \in cs : c[1] = Tag.Utf8 => Len(Encode(c[2])) <= MaxUtf8
KindFits(tag, d) ==
  CASE tag = Tag.Integer -> d \in {<<c>> : c \in {66, 67, 73, 83, 90}}
    [] tag = Tag.Float   -> d = <<70>>
    [] tag = Tag.Long    -> d = <<74>>
    [] tag = Tag.Double  -> d = <<68>>
    [] tag = Tag.String  -> d = <<Obj>> \o JavaString \o <<Semi>>
Twins(ms) == \E i, j \in DOMAIN ms : i # j /\ ms[i].name = ms[j].name /\ ms[i].descriptor = ms[j].descriptor
BadField(f) ==
  \/ f.constant # <<>> /\ ~(Has(f.flags, Acc.Static) /\ Has(f.flags, Acc.Final))
  \/ ~TypeIn(f.descriptor, TRUE)
BadMethod(m) ==
  \/ ~MethodIn(m.descriptor, TRUE)
  \/ (m.body = <<>>) # Bodiless(m.flags)
  \/ m.body # <<>> /\ (m.body[1].refused \/ Arguments(m) > MaxArgSlots)
BadInterface(s) ==
  \/ s.super # Object
  \/ \E i \in DOMAIN s.fields : \E a \in {Acc.Public, Acc.Static, Acc.Final} : ~Has(s.fields[i].flags, a)
  \/ \E i \in DOMAIN s.methods : \E a \in {Acc.Public, Acc.Abstract} : ~Has(s.methods[i].flags, a)
Broken(s) ==
  LET fields  == DOMAIN s.fields
      methods == DOMAIN s.methods
      rules   ==
        [version   |-> \E v \in s.asked : v.major \notin Java.v1_0..Java.v5,
         super     |-> s.super = <<>> /\ s.name # Object,
         field     |-> \E i \in fields : BadField(s.fields[i]),
         method    |-> \E i \in methods : BadMethod(s.methods[i]),
         size      |-> \E cs \in {Constants([meant EXCEPT !.extra = s.mentioned])} : ~Fits(cs),
         twins     |-> Twins(s.fields) \/ Twins(s.methods),
         kind      |-> \E i \in fields : /\ s.fields[i].constant # <<>>
                                         /\ ~KindFits(s.fields[i].constant[1], s.fields[i].descriptor),
         arguments |-> \E i \in methods : /\ s.methods[i].body = <<>> /\ MethodIn(s.methods[i].descriptor, TRUE)
                                          /\ Arguments(s.methods[i]) > MaxArgSlots,
         interface |-> Has(s.flags, Acc.Interface) /\ BadInterface(s),
         name      |-> \/ \E i \in fields : MisnamedType(s.fields[i].descriptor)
                       \/ \E i \in methods : MisnamedMethod(s.methods[i].descriptor)]
  IN {r \in DOMAIN rules : rules[r]}

(* Rules the builder leaves to its caller: two members of one name and      *)
(* descriptor, a constant that is not of the field's type, too many         *)
(* arguments of a method without a body, members an interface cannot have,  *)
(* an impossible class name in a descriptor.                                *)
Unchecked == {"twins", "kind", "arguments", "interface", "name"}

(* Legal, and refused: below 56 a minor version of 65535 claims no preview. *)
TakenForPreview(v) == v.major < 56 /\ v.minor = PreviewMinor

(* Bytes yields a file for a legal class, and for no class that breaks a    *)
(* rule the builder looks after, whatever else is wrong with it: an illegal *)
(* call made at any time is not forgotten, and neither a pool filled to its *)
(* last index nor a Utf8 constant of the greatest length is refused         *)
(* (builder.go, PoolBuilder.add and UTF8).  Left out: Unchecked and         *)
(* TakenForPreview.                                                         *)
WrittenIffLegal ==
  LET preview == \E v \in said.asked : TakenForPreview(v)
  IN /\ state = "written" => Broken(said) \subseteq Unchecked /\ ~preview
     /\ state = "unwritten" => ~(Broken(said) \subseteq Unchecked) \/ preview

(* A descriptor parses exactly when the grammar derives it, a class name    *)
(* with a parenthesis in it included, and prints as it was (ParseField,     *)
(* ParseMethod).  The parser does not look into class names: it also takes  *)
(* a descriptor but for a class name that JVMS 4.2 forbids.                 *)
DescriptorsParse ==
  state = "building" /\ calls = 0 => \A s \in Descriptors :
    /\ ParseField(s).ok <=> IsType(s) \/ MisnamedType(s)
    /\ ParseField(s).ok => typeString(ParseField(s).v) = s
    /\ ParseMethod(s).ok <=> IsMethod(s) \/ MisnamedMethod(s)
    /\ ParseMethod(s).ok => methodString(ParseMethod(s).v) = s

-----------------------------------------------------------------------------
(* The class a reader must see in a described file (JVMS 4).                *)
HandleLegal(h, major) ==
  LET forms == CASE h[1] \in {1, 2, 3, 4} -> {Tag.Fieldref}
                 [] h[1] \in {5, 8} -> {Tag.Methodref}
                 [] h[1] = 9 -> {Tag.InterfaceMethodref}
                 [] OTHER -> IF major < Java.v8 THEN {Tag.Methodref} ELSE {Tag.Methodref, Tag.InterfaceMethodref}
  IN /\ h[1] \in 1..9
     /\ h[2][1] \in forms
     /\ IF h[1] = 8 THEN h[2][3] = Init_ ELSE h[1] >= 5 => h[2][3] \notin {Init_, Clinit}
Loadable(c, major) ==
  \/ c[1] \in fieldConstants \cup {Tag.MethodType, Tag.Dynamic}
  \/ c[1] = Tag.Class /\ major >= Java.v5
  \/ c[1] = Tag.MethodHandle /\ HandleLegal(<<c[2], c[3]>>, major)
DefinedIn(t) ==
  CASE t \in {Tag.MethodHandle, Tag.MethodType, Tag.InvokeDynamic} -> Java.v7
    [] t \in {Tag.Module, Tag.Package} -> Java.v9
    [] t = Tag.Dynamic -> Java.v11
    [] OTHER -> Java.v1_0

Each(as, n) == SelectSeq(as, LAMBDA a : a[1] = n)
Only(as, n)    == IF Each(as, n) = <<>> THEN <<>> ELSE Each(as, n)[1][2][1]

Readable(c, m) ==
  LET v == c.version
  IN /\ v.major \in 45..70
     /\ v.major >= 56 => v.minor = 0 \/ (v.minor = 65535 /\ v.major = 69 /\ "AllowPreview" \in m)
     /\ \A k \in Constants(c) : DefinedIn(k[1]) <= v.major
     /\ c.super = <<>> => c.name = Object \/ Has(c.flags, Acc.Module)
     /\ \A i \in DOMAIN Only(c.attrs, "BootstrapMethods") :
          HandleLegal(Only(c.attrs, "BootstrapMethods")[i][1], v.major)

RECURSIVE RawsOf(_)
RawsOf(as) ==
  UNION {CASE as[i][1] = "Raw" -> {as[i]}
           [] as[i][1] = "Code" -> RawsOf(as[i][2][5])
           [] OTHER -> {} : i \in DOMAIN as}
Described(c) == RawsOf(c.attrs) \cup UNION {RawsOf(c.fields[i][4]) : i \in DOMAIN c.fields}
                \cup UNION {RawsOf(c.methods[i][4]) : i \in DOMAIN c.methods}

(* What a mode keeps; a Signature means something only from 49.0 on.        *)
Kept(as, m) == SelectSeq(as, LAMBDA a : /\ "SkipCode" \in m => a[1] # "Code"
                                        /\ "SkipDebug" \in m => a[1] \notin Debug
                                        /\ meant.version.major < Java.v5 => a[1] # "Signature")
Instrs(p, b) ==
  [i \in 1 .. Len(b) \div 3 |->
     LET r == refAt(p, b[3 * i - 1] * 256 + b[3 * i])
     IN [op |-> b[3 * i - 2], tag |-> r.v[1], owner |-> r.v[2], name |-> r.v[3], descriptor |-> r.v[4]]]

(* An attribute table as it is described: without the copies KeepRaw adds,  *)
(* code with its references resolved.                                       *)
RECURSIVE Bare(_, _, _)
Bare(p, as, raws) ==
  LET kept == SelectSeq(as, LAMBDA a : a[1] # "Raw" \/ a \in raws)
  IN [i \in DOMAIN kept |->
        IF kept[i][1] = "Code"
        THEN Attr("Code", <<kept[i][2][1], kept[i][2][2], Instrs(p, kept[i][2][3]), kept[i][2][4], Bare(p, kept[i][2][5], raws)>>)
        ELSE IF kept[i][1] = "Record"
        THEN Attr("Record", <<[j \in DOMAIN kept[i][2][1] |->
               <<kept[i][2][1][j][1], kept[i][2][1][j][2], Bare(p, kept[i][2][1][j][3], raws)>>]>>)
        ELSE kept[i]]
KeptCode(as, m) ==
  LET kept == Kept(as, m)
  IN [i \in DOMAIN kept |->
        IF kept[i][1] = "Code"
        THEN Attr("Code", [kept[i][2] EXCEPT ![5] = Kept(@, m)]) ELSE kept[i]]

SameMember(r, c, p, raws) ==
  /\ <<r.flags, r.name, r.descriptor>> = <<c[1], c[2], c[3]>>
  /\ Bare(p, r.attrs, raws) = KeptCode(c[4], mode)
  /\ r.signature = Only(Kept(c[4], mode), "Signature")
  /\ r.deprecated = (Each(c[4], "Deprecated") # <<>>)
  /\ r.synthetic = (Each(c[4], "Synthetic") # <<>>)
SameMembers(rs, cs, p, raws) ==
  /\ DOMAIN rs = DOMAIN cs
  /\ \A i \in DOMAIN cs : SameMember(rs[i], cs[i], p, raws)
SameClass(r, c) ==
  /\ <<r.version, r.flags, r.name, r.super, r.interfaces>> = <<c.version, c.flags, c.name, c.super, c.interfaces>>
  /\ SameMembers(r.fields, c.fields, r.pool, Described(c))
  /\ \A i \in DOMAIN c.fields : r.fields[i].constant = Only(c.fields[i][4], "ConstantValue")
  /\ SameMembers(r.methods, c.methods, r.pool, Described(c))
  /\ \A i \in DOMAIN c.methods : r.methods[i].exceptions = Only(c.methods[i][4], "Exceptions")
  /\ Bare(r.pool, r.attrs, Described(c)) = KeptCode(c.attrs, mode)
  /\ <<r.sourceFile, r.signature, r.nestHost, r.bootstraps>> =
       <<Only(c.attrs, "SourceFile"), Only(c.attrs, "Signature"), Only(c.attrs, "NestHost"),
         Only(c.attrs, "BootstrapMethods")>>

(* Reading what was written gives back the class that was described, to the *)
(* last attribute and through every encoding of a name, in every mode; a    *)
(* file of another compiler, laid out as the format says, reads as the      *)
(* format says, and what its version does not define is refused             *)
(* (Builder.Bytes against Read).  Left out: TakenForPreview, which          *)
(* Version.check refuses too.                                               *)
ReadsBack ==
  state = "read" => /\ result.ok <=> Readable(meant, mode) /\ ~TakenForPreview(meant.version)
                    /\ result.ok => SameClass(result.v, meant)

(* A file cut short anywhere, one with something after it, and one with an  *)
(* attribute longer than its structure that the mode decodes are refused,   *)
(* never read as some other class (reader.short, read, orErr).              *)
DamageRefused ==
  /\ state = "readDamaged" => ~result.ok
  /\ state = "readSlack" /\ "SkipDebug" \notin mode => ~result.ok

-----------------------------------------------------------------------------
Symbol(p, i, major) ==
  LET e == p.entries[i]
  IN CASE e.tag = Tag.Utf8 -> <<e.tag, utf8At(p, i).v>>
       [] e.tag \in {Tag.Class, Tag.String, Tag.MethodType, Tag.Module, Tag.Package} -> <<e.tag, namedAt(p, i, e.tag).v>>
       [] e.tag = Tag.NameAndType -> <<e.tag>> \o natAt(p, i).v
       [] e.tag \in {Tag.Fieldref, Tag.Methodref, Tag.InterfaceMethodref} -> refAt(p, i).v
       [] e.tag = Tag.MethodHandle -> <<e.tag, e.a, refAt(p, e.b).v>>
       [] e.tag \in {Tag.Dynamic, Tag.InvokeDynamic} -> dynamicAt(p, i).v
       [] OTHER -> constAt(p, i, major).v

(* The pool of a file that was read holds each constant of the description  *)
(* once and nothing else, the slot after an 8-byte constant resolves to     *)
(* nothing, and a constant loads exactly when its kind and the version      *)
(* allow it (PoolBuilder's interning, Pool.at, Const and Handle).           *)
PoolSound ==
  state = "read" /\ result.ok =>
    LET p      == result.v.pool
        major  == meant.version.major
        usable == {i \in DOMAIN p.entries : at(p, i, 0).ok}
        cs     == Constants([meant EXCEPT !.extra = @ \cup said.mentioned])
    IN /\ {Symbol(p, i, major) : i \in usable} = cs
       /\ Cardinality(usable) = Cardinality(cs) /\ Len(p.entries) = Slots(cs)
       /\ \A i \in usable : constAt(p, i, major).ok <=> Loadable(Symbol(p, i, major), major)

-----------------------------------------------------------------------------
(* The file after its pool, from nothing but a class read with KeepRaw.     *)
Utf8Index(p, s)  == CHOOSE i \in DOMAIN p.entries : utf8At(p, i) = Ok(s)
ClassIndex(p, s) == IF s = <<>> THEN 0 ELSE CHOOSE i \in DOMAIN p.entries : classAt(p, i) = Ok(s)
RawTable(p, as) ==
  LET raws == Each(as, "Raw")
  IN u2(Len(raws)) \o FlattenSeq([i \in DOMAIN raws |->
       u2(Utf8Index(p, raws[i][2][1])) \o U4(Len(raws[i][2][2])) \o raws[i][2][2]])
MemberTable(p, ms) ==
  u2(Len(ms)) \o FlattenSeq([i \in DOMAIN ms |->
     u2(ms[i].flags) \o u2(Utf8Index(p, ms[i].name)) \o u2(Utf8Index(p, ms[i].descriptor)) \o RawTable(p, ms[i].attrs)])
Rebuilt(c) ==
  u2(c.flags) \o u2(ClassIndex(c.pool, c.name)) \o u2(ClassIndex(c.pool, c.super))
  \o u2(Len(c.interfaces)) \o FlattenSeq([i \in DOMAIN c.interfaces |-> u2(ClassIndex(c.pool, c.interfaces[i][1]))])
  \o MemberTable(c.pool, c.fields) \o MemberTable(c.pool, c.methods) \o RawTable(c.pool, c.attrs)
PoolEnd(b) == readPool([newDecoder(b, {}) EXCEPT !.off = 8, !.version = meant.version]).off

(* A class read with KeepRaw holds every byte of its file after the pool,   *)
(* whatever else the mode skips: KeepRaw is documented to serve byte-exact  *)
(* round-tripping (decoder.attributes).                                     *)
RawIsExact ==
  state = "read" /\ result.ok /\ "KeepRaw" \in mode =>
    Rebuilt(result.v) = SubSeq(file, PoolEnd(file) + 1, Len(file))
=============================================================================
