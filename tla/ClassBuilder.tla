----------------------------- MODULE ClassBuilder -----------------------------
(***************************************************************************)
(* The class builder (src/classfile/builder.go): what NewBuilder, its       *)
(* setters, the field and method builders and Bytes do to a builder b.      *)
(*                                                                         *)
(* Emission threads w: the pool, the bytes so far and the builder's error.  *)
(* A method body is opaque bytes with the constants it interns between them *)
(* (the code writer has a module of its own).                               *)
(***************************************************************************)
EXTENDS PoolBuilder, Desc

NewBuilder(name) ==
  [pool |-> newPoolBuilder, version |-> [major |-> Java.v5, minor |-> 0],
   flags |-> Acc.Public + Acc.Super, name |-> name, super |-> Object, ifaces |-> <<>>,
   fields |-> <<>>, methods |-> <<>>, sourceFile |-> <<>>, err |-> FALSE]

refuse(b) == [b EXCEPT !.err = TRUE]

SetVersion(b, v) ==
  IF v.major >= Java.v6 \/ v.major < Java.v1_0 \/ v.minor = PreviewMinor THEN refuse(b)
  ELSE [b EXCEPT !.version = v]

Field(b, flags, name, descriptor) ==
  LET f == [flags |-> flags, name |-> name, descriptor |-> descriptor, constant |-> 0, signature |-> <<>>]
  IN [b EXCEPT !.fields = Append(@, f), !.err = @ \/ ~ParseField(descriptor).ok]

constantOf(p, c) ==
  CASE c.tag = "Integer" -> Integer(p, c.v)
    [] c.tag = "Long"    -> Long(p, c.v)
    [] c.tag = "Float"   -> Float(p, c.v)
    [] c.tag = "Double"  -> Double(p, c.v)
    [] c.tag = "String"  -> String(p, c.v)

(* ConstantInt and its siblings: the constant is interned before the field  *)
(* is found not to be static final.                                         *)
withConstant(b, i, x) ==
  IF Has(b.fields[i].flags, Acc.Static) /\ Has(b.fields[i].flags, Acc.Final)
  THEN [b EXCEPT !.pool = x.p, !.fields[i].constant = x.i] ELSE refuse([b EXCEPT !.pool = x.p])
setConstant(b, i, c) == withConstant(b, i, constantOf(b.pool, c))

Method(b, flags, name, descriptor) ==
  LET m == [flags |-> flags, name |-> name, descriptor |-> descriptor, signature |-> <<>>,
            exceptions |-> <<>>, code |-> <<>>, maxStack |-> 0, maxLocals |-> 0,
            handlers |-> <<>>, lines |-> <<>>, locals |-> <<>>, hasCode |-> FALSE]
  IN [b EXCEPT !.methods = Append(@, m), !.err = @ \/ ~ParseMethod(descriptor).ok]

(* A body: instructions, each an opcode and the member it names.            *)
bodyBytes(p, instrs) ==
  FoldLeft(LAMBDA w, in : With(memberRef(w.p, in.tag, in.owner, in.name, in.descriptor), LAMBDA x :
                            [p |-> x.p, out |-> w.out \o u1(in.op) \o u2(x.i)]),
           [p |-> p, out |-> <<>>], instrs)

encodeHandlers(p, hs) ==
  FoldLeft(LAMBDA w, h : With(IF h.catchType = <<>> THEN [p |-> w.p, i |-> 0] ELSE Class(w.p, h.catchType), LAMBDA x :
                           [p |-> x.p, out |-> Append(w.out, <<h.start, h.end, h.handler, x.i>>)]),
           [p |-> p, out |-> <<>>], hs)

(* Code: the writer's result is installed, the handlers are appended.       *)
installed(b, i, body, args, w, hs) ==
  [b EXCEPT !.pool = hs.p,
            !.methods[i] = [@ EXCEPT !.code = w.out, !.maxStack = body.maxStack,
                                     !.maxLocals = Max({args, body.maxLocals}),
                                     !.lines = body.lines, !.locals = body.locals, !.hasCode = TRUE,
                                     !.handlers = @ \o hs.out]]
emitted(b, i, body, args, w) ==
  IF body.refused THEN refuse([b EXCEPT !.pool = w.p])
  ELSE installed(b, i, body, args, w, encodeHandlers(w.p, body.handlers))
Code(b, i, body) ==
  LET receiver == ~Has(b.methods[i].flags, Acc.Static)
  IN IF b.err THEN b
     ELSE With(ParseMethod(b.methods[i].descriptor), LAMBDA sig :
            IF ~sig.ok THEN refuse(b)
            ELSE IF ~CheckArgSlots(sig.v, receiver) THEN refuse(b)
            ELSE emitted(b, i, body, ArgSlots(sig.v, receiver), bodyBytes(b.pool, body.instrs)))

-----------------------------------------------------------------------------
put(w, bytes)   == [w EXCEPT !.out = @ \o bytes]
putIndex(w, x)  == put([w EXCEPT !.p = x.p], u2(x.i))
putUTF8(w, s)   == putIndex(w, UTF8(w.p, s))
putClass(w, s)  == putIndex(w, Class(w.p, s))
putEach(w, Put(_, _), ss) == FoldLeft(Put, put(w, u2(Len(ss))), ss)
scratch(w)      == [w EXCEPT !.out = <<>>]

(* attr: the name, the length patched in afterwards, the body.              *)
framed(w, i, t) == [t EXCEPT !.out = w.out \o u2(i) \o u4(halves(Len(@))) \o @]
attr(w, name, Body(_)) ==
  With(UTF8(w.p, name), LAMBDA x : framed(w, x.i, Body(scratch([w EXCEPT !.p = x.p]))))

(* What is interned before the attribute's name is: the value's bytes made  *)
(* first, then the attribute around them.                                   *)
attrAfter(w, Value(_), name) ==
  With(Value(scratch(w)), LAMBDA v : attr([w EXCEPT !.p = v.p], name, LAMBDA t : put(t, v.out)))

when(c, w, F(_)) == IF c THEN F(w) ELSE w
count(cs)        == Len(SelectSeq(cs, LAMBDA c : c))

emitField(w, f) ==
  LET h == putUTF8(putUTF8(put(w, u2(f.flags)), f.name), f.descriptor)
      n == put(h, u2(count(<<f.constant # 0, f.signature # <<>> >>)))
      k == when(f.constant # 0, n, LAMBDA x :
             attr(x, Word("ConstantValue"), LAMBDA t : put(t, u2(f.constant))))
  IN when(f.signature # <<>>, k, LAMBDA x : attrAfter(x, LAMBDA t : putUTF8(t, f.signature), Word("Signature")))

putRow(w, row)   == put(w, FlattenSeq([i \in DOMAIN row |-> u2(row[i])]))
putLocal(w, v)   == put(putUTF8(putUTF8(putRow(w, <<v.startPC, v.length>>), v.name), v.descriptor), u2(v.slot))

(* The rows of the debug table reach the pool before the name "Code" does.  *)
codeBody(t, m) ==
  put(putEach(put(t, u2(m.maxStack) \o u2(m.maxLocals) \o u4(halves(Len(m.code))) \o m.code), putRow, m.handlers),
      u2(count(<<m.lines # <<>>, m.locals # <<>> >>)))
putLines(t, m) ==
  when(m.lines # <<>>, t, LAMBDA s : attr(s, Word("LineNumberTable"), LAMBDA x : putEach(x, putRow, m.lines)))
putVars(t, m, rows) ==
  when(m.locals # <<>>, t, LAMBDA s : attr(s, Word("LocalVariableTable"), LAMBDA x : put(x, rows)))
emitCode(w, m) ==
  With(putEach(scratch(w), putLocal, m.locals), LAMBDA rows :
    attr([w EXCEPT !.p = rows.p], Word("Code"), LAMBDA t : putVars(putLines(codeBody(t, m), m), m, rows.out)))

emitMethod(w, m) ==
  LET bodiless == Has(m.flags, Acc.Abstract) \/ Has(m.flags, Acc.Native)
      h == putUTF8(putUTF8(put(w, u2(m.flags)), m.name), m.descriptor)
      n == put(h, u2(count(<<m.hasCode, m.exceptions # <<>>, m.signature # <<>> >>)))
      c == when(m.hasCode, n, LAMBDA x : emitCode(x, m))
      e == when(m.exceptions # <<>>, c, LAMBDA x :
             attrAfter(x, LAMBDA t : putEach(t, putClass, m.exceptions), Word("Exceptions")))
  IN IF m.hasCode = bodiless THEN [w EXCEPT !.err = TRUE]
     ELSE when(m.signature # <<>>, e, LAMBDA x : attrAfter(x, LAMBDA t : putUTF8(t, m.signature), Word("Signature")))

(* Bytes: everything is interned into scratch writers before the pool is    *)
(* emitted.  The builder keeps the pool it filled and any error.            *)
members(b, w) == putEach(putEach(putEach(w, putClass, b.ifaces), emitField, b.fields), emitMethod, b.methods)
putSource(b, w) ==
  when(b.sourceFile # <<>>, put(w, u2(count(<<b.sourceFile # <<>> >>))), LAMBDA x :
       attr(x, Word("SourceFile"), LAMBDA t : putUTF8(t, b.sourceFile)))
assembled(b, this, sup, w) ==
  [b   |-> [b EXCEPT !.pool = w.p, !.err = w.err],
   res |-> IF w.p.err \/ w.err THEN No
           ELSE Ok(u4(Magic) \o u2(b.version.minor) \o u2(b.version.major) \o emit(w.p)
                   \o u2(b.flags) \o u2(this) \o u2(sup) \o w.out)]
Bytes(b) ==
  IF b.err THEN [b |-> b, res |-> No]
  ELSE With(Class(b.pool, b.name), LAMBDA this :
    IF b.super = <<>> /\ b.name # Object THEN [b |-> [b EXCEPT !.pool = this.p], res |-> No]
    ELSE With(IF b.super = <<>> THEN [p |-> this.p, i |-> 0] ELSE Class(this.p, b.super), LAMBDA sup :
      assembled(b, this.i, sup.i, putSource(b, members(b, [p |-> sup.p, out |-> <<>>, err |-> FALSE])))))
=============================================================================
