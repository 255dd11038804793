----------------------------- MODULE ClassReader -----------------------------
(***************************************************************************)
(* Reading a class file (src/classfile: reader, constpool, decoder,         *)
(* classfile).                                                              *)
(*                                                                         *)
(* A decoder d is the bytes, the offset, the error, the values read so far  *)
(* (v), and the pool, version and mode.  "syntax" is the reader's sticky    *)
(* error, after which a read gives zero and moves nothing; "refused" is an  *)
(* error returned at once, and nothing more is read.  Structures are lists  *)
(* of items, read in order; a table is a count and rows of items.           *)
(***************************************************************************)
EXTENDS ClassWords

(* constpool.go: resolving an index.                                        *)
tagSince == [t \in {1, 3, 4, 5, 6, 7, 8, 9, 10, 11, 12} |-> Java.v1_0]
            @@ [t \in {15, 16, 18} |-> Java.v7] @@ [t \in {19, 20} |-> Java.v9] @@ (17 :> Java.v11)

(* Mutant of at: the second slot of an 8-byte constant counts as one. *)
atPhantom(p, i, want) ==
  IF i = 0 \/ i > Len(p.entries) THEN No
  ELSE IF want # 0 /\ p.entries[i].tag # want THEN No ELSE Ok(p.entries[i])

at(p, i, want) ==
  IF i = 0 \/ i > Len(p.entries) THEN No
  ELSE IF p.entries[i].tag = 0 \/ (want # 0 /\ p.entries[i].tag # want) THEN No
  ELSE Ok(p.entries[i])

utf8At(p, i)    == Then(at(p, i, Tag.Utf8), LAMBDA e : Decode(SubSeq(p.src, e.a + 1, e.a + e.b)))
namedAt(p, i, tag) == Then(at(p, i, tag), LAMBDA e : utf8At(p, e.a))
classAt(p, i)   == namedAt(p, i, Tag.Class)
natAt(p, i) ==
  Then(at(p, i, Tag.NameAndType), LAMBDA e :
    Then(utf8At(p, e.a), LAMBDA n : Then(utf8At(p, e.b), LAMBDA t : Ok(<<n, t>>))))

refAt(p, i) ==
  Then(at(p, i, 0), LAMBDA e :
    IF e.tag \notin {Tag.Fieldref, Tag.Methodref, Tag.InterfaceMethodref} THEN No
    ELSE Then(classAt(p, e.a), LAMBDA c : Then(natAt(p, e.b), LAMBDA nt : Ok(<<e.tag, c, nt[1], nt[2]>>))))

handleForm(kind, tag, major) ==
  CASE kind \in 1..4   -> tag = Tag.Fieldref
    [] kind \in {5, 8} -> tag = Tag.Methodref
    [] kind \in {6, 7} -> tag = Tag.Methodref \/ (tag = Tag.InterfaceMethodref /\ major >= Java.v8)
    [] kind = 9        -> tag = Tag.InterfaceMethodref
handleName(kind, name) ==
  /\ kind = 8 => name = Init_
  /\ kind # 8 /\ kind >= 5 => name \notin {Init_, Clinit}
handleAt(p, i, major) ==
  Then(at(p, i, Tag.MethodHandle), LAMBDA e :
    IF e.a \notin 1..9 THEN No
    ELSE Then(refAt(p, e.b), LAMBDA r :
           IF handleForm(e.a, r[1], major) /\ handleName(e.a, r[3]) THEN Ok(<<e.a, r>>) ELSE No))

dynamicAt(p, i) ==
  Then(at(p, i, 0), LAMBDA e :
    IF e.tag \notin {Tag.Dynamic, Tag.InvokeDynamic} THEN No
    ELSE Then(natAt(p, e.b), LAMBDA nt : Ok(<<e.tag, e.a, nt[1], nt[2]>>)))

constAt(p, i, major) ==
  LET tagged(t, x) == Then(x, LAMBDA v : Ok(<<t, v>>))
  IN Then(at(p, i, 0), LAMBDA e :
       CASE e.tag \in {Tag.Integer, Tag.Float} -> Ok(<<e.tag, e.a>>)
         [] e.tag \in Wide                     -> Ok(<<e.tag, <<e.a, e.b>> >>)
         [] e.tag = Tag.Class                  -> IF major < Java.v5 THEN No ELSE tagged(e.tag, classAt(p, i))
         [] e.tag = Tag.String                 -> tagged(e.tag, utf8At(p, e.a))
         [] e.tag = Tag.MethodHandle           -> tagged(e.tag, handleAt(p, i, major))
         [] e.tag = Tag.MethodType             -> tagged(e.tag, namedAt(p, i, Tag.MethodType))
         [] e.tag = Tag.Dynamic                -> tagged(e.tag, dynamicAt(p, i))
         [] OTHER                              -> No)

-----------------------------------------------------------------------------
(* reader.go                                                                *)
newDecoder(b, mode) ==
  [b |-> b, off |-> 0, err |-> "", v |-> <<>>, mode |-> mode,
   pool |-> [entries |-> <<>>, src |-> b], version |-> [major |-> 0, minor |-> 0]]

failed(d)       == [d EXCEPT !.err = IF @ = "" THEN "syntax" ELSE @]
refused(d)      == [d EXCEPT !.err = "refused"]
done(d)         == d.err # ""
pushed(d, x)    == [d EXCEPT !.v = Append(@, x)]
short(d, n)     == done(d) \/ n > Len(d.b) - d.off
byte(d, k)      == d.b[d.off + k]
readU1(d) == IF short(d, 1) THEN pushed(failed(d), 0)
             ELSE [pushed(d, byte(d, 1)) EXCEPT !.off = @ + 1]
readU2(d) == IF short(d, 2) THEN pushed(failed(d), 0)
             ELSE [pushed(d, byte(d, 1) * 256 + byte(d, 2)) EXCEPT !.off = @ + 2]
readU4(d) == IF short(d, 4) THEN pushed(failed(d), <<0, 0>>)
             ELSE [pushed(d, <<byte(d, 1) * 256 + byte(d, 2), byte(d, 3) * 256 + byte(d, 4)>>) EXCEPT !.off = @ + 4]

(* n is a u4; more than the file could hold runs out whatever it is.        *)
readBytes(d, n) ==
  LET k == n[1] * 65536 + n[2]
  IN IF n[1] >= 16384 \/ short(d, k) THEN pushed(failed(d), <<>>)
     ELSE [pushed(d, SubSeq(d.b, d.off + 1, d.off + k)) EXCEPT !.off = @ + k]

lookup(d, At(_)) ==
  LET x == At(Last(d.v))
  IN IF d.err = "refused" \/ ~x.ok THEN refused(d) ELSE [d EXCEPT !.v = Append(Front(@), x.v)]
opt(i, x)       == IF i = 0 THEN Ok(<<>>) ELSE x
nested(d, F(_)) == LET t == F([d EXCEPT !.v = <<>>]) IN [t EXCEPT !.v = Append(d.v, @)]
uncounted(d)    == [d EXCEPT !.v = Append(SubSeq(@, 1, Len(@) - 2), Last(@))]

-----------------------------------------------------------------------------
(* decoder.go: the tables and the attributes as lists of items.             *)
RowOf ==
  [classes    |-> <<"class">>,
   inners     |-> <<"class", "optClass", "optUTF8", "u2">>,
   bootstraps |-> <<"handle", "indices">>,
   indices    |-> <<"u2">>,
   params     |-> <<"optUTF8", "u2">>,
   components |-> <<"utf8", "utf8", "recordAttrs">>,
   lines      |-> <<"u2", "u2">>,
   vars       |-> <<"u2", "u2", "utf8", "utf8", "u2">>,
   handlers   |-> <<"u2", "u2", "u2", "optClass">>,
   fields     |-> <<"u2", "utf8", "utf8", "fieldAttrs">>,
   methods    |-> <<"u2", "utf8", "utf8", "methodAttrs">>]

Location == [classAttrs |-> "class", fieldAttrs |-> "field", methodAttrs |-> "method",
             codeAttrs |-> "code", recordAttrs |-> "record"]

Layout ==
  [SourceFile |-> <<"utf8">>, Signature |-> <<"utf8">>, ConstantValue |-> <<"constant">>,
   Synthetic |-> <<>>, Deprecated |-> <<>>, NestHost |-> <<"class">>, Exceptions |-> <<"classes">>,
   NestMembers |-> <<"classes">>, PermittedSubclasses |-> <<"classes">>,
   EnclosingMethod |-> <<"class", "optNat">>, InnerClasses |-> <<"inners">>,
   BootstrapMethods |-> <<"bootstraps">>, MethodParameters |-> <<"params">>,
   Record |-> <<"components">>, LineNumberTable |-> <<"lines">>, LocalVariableTable |-> <<"vars">>,
   LocalVariableTypeTable |-> <<"vars">>,
   Code |-> <<"u2", "u2", "codeBytes", "handlers", "codeAttrs">>]

Members == {"class", "field", "method"}
where ==
  LET At(ls, v, ns) == [n \in ns |-> <<ls, v>>]
      Annotated     == Members \cup {"record"}
  IN At({"field"}, Java.v1_0, {"ConstantValue"})
     @@ At({"method"}, Java.v1_0, {"Code", "Exceptions"})
     @@ At({"method"}, Java.v5, {"AnnotationDefault", "RuntimeVisibleParameterAnnotations",
                                 "RuntimeInvisibleParameterAnnotations"})
     @@ At({"method"}, Java.v8, {"MethodParameters"})
     @@ At({"code"}, Java.v1_0, {"LineNumberTable", "LocalVariableTable"})
     @@ At({"code"}, Java.v5, {"LocalVariableTypeTable"})
     @@ At({"code"}, Java.v6, {"StackMapTable"})
     @@ At({"class"}, Java.v1_0, {"InnerClasses", "SourceFile"})
     @@ At({"class"}, Java.v5, {"EnclosingMethod", "SourceDebugExtension"})
     @@ At({"class"}, Java.v7, {"BootstrapMethods"})
     @@ At({"class"}, Java.v9, {"Module", "ModulePackages", "ModuleMainClass"})
     @@ At({"class"}, Java.v11, {"NestHost", "NestMembers"})
     @@ At({"class"}, Java.v16, {"Record"})
     @@ At({"class"}, Java.v17, {"PermittedSubclasses"})
     @@ At(Members, Java.v1_0, {"Synthetic", "Deprecated"})
     @@ At(Annotated, Java.v5, {"Signature", "RuntimeVisibleAnnotations", "RuntimeInvisibleAnnotations"})
     @@ At(Annotated \cup {"code"}, Java.v8, {"RuntimeVisibleTypeAnnotations", "RuntimeInvisibleTypeAnnotations"})
Debug == {"LineNumberTable", "LocalVariableTable", "LocalVariableTypeTable"}

Raw(name, body) == <<"Raw", <<name, body>> >>

fieldConstants == {Tag.Integer, Tag.Float, Tag.Long, Tag.Double, Tag.String}

RECURSIVE item(_, _)
RECURSIVE items(_, _)
items(d, ks) == IF ks = <<>> THEN d ELSE items(item(d, Head(ks)), Tail(ks))

RECURSIVE rows(_, _, _)
rows(d, n, ks) ==
  IF n = 0 \/ done(d) THEN d
  ELSE rows(nested(d, LAMBDA x : items(x, ks)), n - 1, ks)

table(d, k) ==
  LET c == IF k = "params" THEN readU1(d) ELSE readU2(d)
  IN uncounted(nested(c, LAMBDA x : rows(x, Last(c.v), RowOf[k])))

(* Mutant of orErr: a body may be longer than what is read of it. *)
orErrSlack(t) == t.err = ""

(* A body is read by a decoder of its own that must end where it does.      *)
orErr(t)      == t.err = "" /\ t.off = Len(t.b)

(* The attributes one leaves: none when a mode drops it.                    *)
attribute(d, name, body, loc) ==
  LET n       == AttrOf(name)
      defined == n \in DOMAIN where /\ loc \in where[n][1] /\ d.version.major >= where[n][2]
      dropped == (n \in Debug /\ "SkipDebug" \in d.mode) \/ (n = "Code" /\ "SkipCode" \in d.mode)
      t       == items([d EXCEPT !.b = body, !.off = 0, !.v = <<>>], Layout[n])
  IN IF ~defined THEN Ok(<<Raw(name, body)>>)
     ELSE IF n = "StackMapTable" THEN Ok(<<(<<n, body>>)>>)
     ELSE IF dropped THEN Ok(<<>>)
     ELSE IF n \notin DOMAIN Layout THEN Ok(<<Raw(name, body)>>)
     ELSE IF orErr(t) THEN Ok(<<(<<n, t.v>>)>>) ELSE No

(* Mutant of withRaw: only next to something decoded. *)
withRawDecoded(d, as, raw) == IF "KeepRaw" \in d.mode /\ as # <<>> /\ as # <<raw>> THEN Append(as, raw) ELSE as

(* Under KeepRaw the body once more, unless it is there already.            *)
withRaw(d, as, raw) == IF "KeepRaw" \in d.mode /\ as # <<raw>> THEN Append(as, raw) ELSE as

(* The name's index and the length are read; then the body.                 *)
bodied(d, name, b, loc) ==
  IF done(b) THEN [b EXCEPT !.v = d.v]
  ELSE With(attribute(d, name, Last(b.v), loc), LAMBDA a :
         IF ~a.ok THEN refused(d)
         ELSE [b EXCEPT !.v = d.v \o withRaw(d, a.v, Raw(name, Last(b.v)))])
headed(d, h, loc) ==
  IF done(h) THEN [h EXCEPT !.v = d.v]
  ELSE With(utf8At(d.pool, h.v[Len(h.v) - 1]), LAMBDA name :
         IF ~name.ok THEN refused(d) ELSE bodied(d, name.v, readBytes(h, Last(h.v)), loc))
oneAttribute(d, loc) == headed(d, readU4(readU2(d)), loc)

RECURSIVE attributeRows(_, _, _)
attributeRows(d, n, loc) ==
  IF n = 0 \/ done(d) THEN d ELSE attributeRows(oneAttribute(d, loc), n - 1, loc)

attributes(d, loc) ==
  LET c == readU2(d) IN uncounted(nested(c, LAMBDA x : attributeRows(x, Last(c.v), loc)))

(* code_length: neither 0 nor more than 65535.                              *)
codeBytes(d) ==
  LET c == readU4(d)
      n == Last(c.v)
      b == readBytes(c, n)
  IN IF n = <<0, 0>> \/ n[1] > 0 THEN refused(d) ELSE [b EXCEPT !.v = Append(d.v, Last(@))]

item(d, k) ==
  IF d.err = "refused" THEN d
  ELSE IF k = "u2" THEN readU2(d)
  ELSE IF k \in DOMAIN RowOf THEN table(d, k)
  ELSE IF k \in DOMAIN Location THEN attributes(d, Location[k])
  ELSE IF k = "codeBytes" THEN codeBytes(d)
  ELSE lookup(readU2(d), LAMBDA i :
              CASE k = "utf8"     -> utf8At(d.pool, i)
                [] k = "optUTF8"  -> opt(i, utf8At(d.pool, i))
                [] k = "class"    -> classAt(d.pool, i)
                [] k = "optClass" -> opt(i, classAt(d.pool, i))
                [] k = "optNat"   -> opt(i, natAt(d.pool, i))
                [] k = "handle"   -> handleAt(d.pool, i, d.version.major)
                [] k = "constant" -> Then(constAt(d.pool, i, d.version.major), LAMBDA c :
                                       IF c[1] \in fieldConstants THEN Ok(c) ELSE No))

-----------------------------------------------------------------------------
(* readPool                                                                 *)
entryOf(d, tag) ==
  LET one(x)  == [d |-> x, e |-> [tag |-> tag, a |-> Last(x.v), b |-> 0]]
      two(x)  == [d |-> x, e |-> [tag |-> tag, a |-> x.v[Len(x.v) - 1], b |-> Last(x.v)]]
      text(x) == IF \E j \in DOMAIN Last(x.v) : Last(x.v)[j] = 0 \/ Last(x.v)[j] >= 240
                 THEN failed(x) ELSE x
  IN CASE tag = Tag.Utf8 -> With(readU2(d), LAMBDA n :
            [d |-> text(readBytes(n, <<0, Last(n.v)>>)),
             e |-> [tag |-> tag, a |-> n.off, b |-> Last(n.v)]])
       [] tag \in {Tag.Integer, Tag.Float} -> one(readU4(d))
       [] tag \in Wide -> two(readU4(readU4(d)))
       [] tag \in {Tag.Class, Tag.String, Tag.MethodType, Tag.Module, Tag.Package} -> one(readU2(d))
       [] tag = Tag.MethodHandle -> two(readU2(readU1(d)))
       [] OTHER -> two(readU2(readU2(d)))

tagOk(tag, version) == tag \in DOMAIN tagSince /\ version.major >= tagSince[tag]
slotsOf(e) == IF e.tag \in Wide THEN <<e, [tag |-> 0, a |-> 0, b |-> 0]>> ELSE <<e>>

RECURSIVE poolFrom(_, _, _)
poolFrom(d, es, count) ==
  IF Len(es) + 1 >= count \/ done(d) THEN [d |-> d, es |-> es]
  ELSE With(readU1(d), LAMBDA t :
         IF ~tagOk(Last(t.v), d.version) THEN [d |-> failed(t), es |-> es]
         ELSE With(entryOf(t, Last(t.v)), LAMBDA x :
                IF x.e.tag \in Wide /\ Len(es) + 2 >= count THEN [d |-> failed(x.d), es |-> es]
                ELSE poolFrom([x.d EXCEPT !.v = <<>>], es \o slotsOf(x.e), count)))

counted(c) ==
  IF Last(c.v) = 0 THEN failed(c)
  ELSE With(poolFrom([c EXCEPT !.v = <<>>], <<>>, Last(c.v)), LAMBDA p :
         [p.d EXCEPT !.pool.entries = p.es, !.v = <<>>])
readPool(d) == counted(readU2(d))

-----------------------------------------------------------------------------
(* classfile.go, version.go                                                 *)
versionOk(v, allowPreview) ==
  /\ v.major \in Java.v1_0..Java.v26
  /\ v.major >= 56 => v.minor \in {0, PreviewMinor}
  /\ v.minor = PreviewMinor => v.major = PreviewRelease /\ allowPreview

named(as, n)   == SelectSeq(as, LAMBDA a : a[1] = n)
hoisted(as, n) == IF named(as, n) = <<>> THEN <<>> ELSE Last(named(as, n))[2][1]
present(as, n) == named(as, n) # <<>>

fieldOf(r) ==
  [flags |-> r[1], name |-> r[2], descriptor |-> r[3], attrs |-> r[4],
   constant |-> hoisted(r[4], "ConstantValue"), signature |-> hoisted(r[4], "Signature"),
   deprecated |-> present(r[4], "Deprecated"), synthetic |-> present(r[4], "Synthetic")]
methodOf(r) ==
  [flags |-> r[1], name |-> r[2], descriptor |-> r[3], attrs |-> r[4],
   code |-> IF present(r[4], "Code") THEN Last(named(r[4], "Code"))[2] ELSE <<>>,
   exceptions |-> hoisted(r[4], "Exceptions"), signature |-> hoisted(r[4], "Signature"),
   deprecated |-> present(r[4], "Deprecated"), synthetic |-> present(r[4], "Synthetic")]

(* The class read, with hoistClass's fields.                                *)
classOf(d) ==
  LET as == d.v[7]
  IN [version |-> d.version, flags |-> d.v[1], name |-> d.v[2], super |-> d.v[3],
      interfaces |-> d.v[4], fields |-> [i \in DOMAIN d.v[5] |-> fieldOf(d.v[5][i])],
      methods |-> [i \in DOMAIN d.v[6] |-> methodOf(d.v[6][i])], attrs |-> as,
      sourceFile |-> hoisted(as, "SourceFile"), signature |-> hoisted(as, "Signature"),
      nestHost |-> hoisted(as, "NestHost"), deprecated |-> present(as, "Deprecated"),
      synthetic |-> present(as, "Synthetic"), bootstraps |-> hoisted(as, "BootstrapMethods"),
      pool |-> d.pool]

(* read, from its end: the class is read, its superclass, its pool, its     *)
(* version, its magic number.                                               *)
complete(body) == IF done(body) \/ body.off # Len(body.b) THEN No ELSE Ok(classOf(body))
supered(this, head) ==
  IF head.err = "refused" THEN No
  ELSE IF this.v[3] = 0 /\ head.v[2] # Object /\ ~Has(head.v[1], Acc.Module) THEN No
  ELSE complete(items(head, <<"classes", "fields", "methods", "classAttrs">>))
pooled(p) ==
  IF done(p) THEN No
  ELSE With(items(p, <<"u2", "class", "u2">>), LAMBDA this :
         supered(this, lookup(this, LAMBDA i : opt(i, classAt(p.pool, i)))))
versioned(v) ==
  LET ver == [minor |-> v.v[2], major |-> v.v[3]]
  IN IF done(v) \/ ~versionOk(ver, "AllowPreview" \in v.mode) THEN No
     ELSE pooled(readPool([v EXCEPT !.v = <<>>, !.version = ver]))
magic(m) == IF done(m) \/ m.v[1] # Magic THEN No ELSE versioned(readU2(readU2(m)))
read(b, mode) == magic(readU4(newDecoder(b, mode)))
=============================================================================
