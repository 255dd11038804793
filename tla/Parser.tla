-------------------------------- MODULE Parser --------------------------------
(***************************************************************************)
(* The recursive descent parser (src/parser).                               *)
(*                                                                         *)
(* Every production is an operator from parser state to parser state that   *)
(* pushes the node it returns in the code.  Production is the production of *)
(* a name, and ties the recursion: an operator reaches the ones it is a     *)
(* part of through it.  Do runs a straight line, where a name that is no    *)
(* production's is a terminal to expect.                                    *)
(* Spans and the wording of diagnostics are left out.  The specification    *)
(* takes the steps of parseCompilationUnit: the header, one top level       *)
(* declaration at a time, the end.                                          *)
(***************************************************************************)
EXTENDS Cursor, JavaGrammar

CONSTANTS Inputs,       \* token sequences to parse
          Units,        \* trees to write down and parse again
          Modes         \* sets of parser options

VARIABLES p, phase, meant

vars == <<p, phase, meant>>

RECURSIVE Production(_, _, _)
Parse(q, name)       == Production(q, name, "")
Member(q, enclosing) == Production(q, "Member", enclosing)
Body(q, enclosing)   == Production(q, "Body", enclosing)
Binary(q, minPrec)   == Production(q, "Binary", minPrec)
LocalVar(q, semi)    == Production(q, "LocalVar", semi)

RECURSIVE Do(_, _)
Do(q, names) ==
  IF names = <<>> \/ ~q.ok THEN q ELSE Do(Parse(q, Head(names)), Tail(names))

RECURSIVE Items(_, _, _, _)
(* for !at(stop) && !atEOF { item; if !accept(sep) break } *)
Items(q, item, sep, stop) ==
  IF atIn(q, stop) \/ atEOF(q) THEN q
  ELSE LET r == Parse(q, item)
       IN IF r.ok /\ at(r, sep) THEN Items(next(r), item, sep, stop) ELSE r

RECURSIVE Series(_, _, _)
(* for { item; if !accept(sep) break } *)
Series(q, item, sep) ==
  LET r == Parse(q, item)
  IN IF r.ok /\ at(r, sep) THEN Series(next(r), item, sep) ELSE r

(* The separator a list ended with, where the code records it. *)
Trailing(q, sep) == IF Kind(q.toks[q.i - 1]) = sep THEN sep ELSE ""
Node(q, k, names) == Built(q, Do(q, names), k, "")
Optional(q, k, name) == IF at(q, k) THEN Parse(q, name) ELSE Missing(q)

-----------------------------------------------------------------------------
(* Annotations and modifiers. *)

AtAnnotation(q) == at(q, "@") /\ peek(q, 1) # "interface"
RECURSIVE annotations(_)
annotations(q) == IF AtAnnotation(q) THEN annotations(Parse(q, "Annotation")) ELSE q
parseAnnotations(q) == Built(q, annotations(q), "Anns", "")

parseAnnotation(q) ==
  LET a == Do(q, <<"@", "Name">>)
  IN IF ~at(a, "(") THEN Built(q, a, "Ann", "")
     ELSE LET v == next(a)
              w == IF at(v, ")") THEN v
                   ELSE IF atIdent(v) /\ peek(v, 1) = "=" THEN Series(v, "Pair", ",")
                   ELSE Parse(v, "ElementValue")
          IN Built(q, expect(Built(a, w, "Pairs", ""), ")"), "AnnArgs", "")

parseElementValuePair(q) == Node(q, "Pair", <<"Ident", "=", "ElementValue">>)

parseElementValue(q) ==
  CASE at(q, "@") -> Parse(q, "Annotation")
    [] at(q, "{") -> LET e == Items(next(q), "ElementValue", ",", {"}"})
                     IN expect(Built(q, e, "ValueArray", Trailing(e, ",")), "}")
    [] OTHER      -> Parse(q, "Conditional")

ModifierKeywords == {"public", "protected", "private", "abstract", "static", "final", "strictfp",
                     "transient", "volatile", "synchronized", "native", "default"}
AtModifierWord(q) == atIn(q, ModifierKeywords \cup {"non-sealed", "sealed"})
RECURSIVE modifiers(_)
modifiers(q) ==
  IF AtAnnotation(q) THEN modifiers(Parse(q, "Annotation"))
  ELSE IF AtModifierWord(q) THEN modifiers(Push(next(q), N("Mod", kind(q), <<>>)))
  ELSE q
parseModifiers(q) == Built(q, modifiers(q), "Mods", "")

-----------------------------------------------------------------------------
(* Types.  The annotations of a type are already on the stack when its      *)
(* base is read; q0 is the state before them.                               *)

startsType(q) == isPrimitiveKind(kind(q)) \/ atIdent(q)

RECURSIVE qualified(_, _)
qualified(q0, q) ==
  IF at(q, ".") /\ isIdent(peek(q, 1))
  THEN qualified(q0, Built(q0, Do(next(q), <<"Anns", "TypeIdent", "TypeArgs?">>), "QNamed", ""))
  ELSE q
parseNamedType(q0, q) ==
  qualified(q0, Built(q0, Do(q, <<"TypeIdent", "TypeArgs?">>), "Named", ""))

parseTypeWithAnnotations(q0, q) ==
  IF ~startsType(q) THEN bad([errorExpected(q) EXCEPT !.st = q0.st])
  ELSE LET base == IF atIdent(q) THEN parseNamedType(q0, q)
                   ELSE Built(q0, next(q), "Prim", kind(q))
           dims == Parse(base, "Dims")
       IN IF Top(dims).c = <<>> THEN [dims EXCEPT !.st = base.st]
          ELSE Built(q0, dims, "Array", "")

parseType(q) ==
  IF tooDeep(q) THEN bad(errorExpected(enter(q)))
  ELSE leave(parseTypeWithAnnotations(q, parseAnnotations(enter(q))))

RECURSIVE dimensions(_)
dimensions(q) ==
  LET a == parseAnnotations(q)
  IN IF at(a, "[") /\ peek(a, 1) = "]"
     THEN dimensions(Built(q, next(next(a)), "Dim", ""))
     ELSE [a EXCEPT !.i = q.i, !.st = q.st]
parseDims(q) == Built(q, dimensions(q), "Dims", "")

parseTypeArg(q) ==
  LET a == parseAnnotations(q)
      t == parseTypeWithAnnotations(q, a)
  IN IF at(a, "?")
     THEN LET w == next(a)
          IN IF atIn(w, {"extends", "super"}) THEN Built(q, Parse(next(w), "Type"), "Wild", kind(w))
             ELSE Built(q, Missing(w), "Wild", "")
     ELSE IF ~startsType(a) \/ isBad(t) THEN fail(a)
     ELSE t

parseTypeArgs(q) ==
  LET l == expect(q, "<")
      s == Series(l, "TypeArg", ",")
  IN IF at(l, ">") THEN Built(q, next(l), "Diamond", "")
     ELSE IF ~s.ok \/ ~at(s, ">") THEN fail(s)
     ELSE next(Built(q, s, "TypeArgs", ""))
tryTypeArgs(q) ==
  IF at(q, "<") THEN Otherwise(spec(q, parseTypeArgs(q)), Missing) ELSE Missing(q)

parseTypeParams(q) ==
  IF at(q, "<") THEN expect(Built(q, Series(next(q), "TypeParam", ","), "TypeParams", ""), ">")
  ELSE Missing(q)
parseTypeParam(q) ==
  LET n == Do(q, <<"Anns", "TypeIdent">>)
  IN Built(q, IF at(n, "extends") THEN Built(n, Series(next(n), "Type", "&"), "Bounds", "")
              ELSE Missing(n), "TypeParam", "")
parseTypeList(q, k) == Built(q, Series(next(q), "Type", ","), k, "")
OptionalTypes(q, word, k) == IF at(q, word) THEN parseTypeList(q, k) ELSE Missing(q)

-----------------------------------------------------------------------------
(* Expressions. *)

AssignOps == {"=", "*=", "/=", "%=", "+=", "-=", "<<=", "&=", "^=", "|="}
UnaryOps  == {"+", "-", "~", "!", "++", "--"}
Rest(q)   == SubSeq(q.toks, q.i, Len(q.toks))

assignOp(q) ==
  LET j == Join(Rest(q))
  IN CASE kind(q) \in AssignOps      -> [op |-> kind(q), n |-> 1]
       [] j.op \in {">>=", ">>>="}   -> j
       [] OTHER                      -> [op |-> "none", n |-> 0]

binaryOp(q) ==
  LET j == Join(Rest(q))
  IN CASE j.op \in {">>", ">>>"}     -> j
       [] j.op \in {">>=", ">>>="}   -> [op |-> "none", n |-> 0]
       [] Precedence(kind(q)) # 0    -> [op |-> kind(q), n |-> 1]
       [] OTHER                      -> [op |-> "none", n |-> 0]

Over(q, n) == [q EXCEPT !.i = @ + n]     \* p.i += n

(* Mutant of climb: operators of one rank associate to the right. *)
climbRight(q0, q, minPrec) ==
  LET o == binaryOp(q)
  IN IF o.n = 0 \/ Precedence(o.op) < minPrec THEN q
     ELSE Built(q0, Binary(Over(q, o.n), Precedence(o.op)), "Bin", o.op)

RECURSIVE climb(_, _, _)
climb(q0, q, minPrec) ==
  LET o == binaryOp(q)
      Typed == Otherwise(Parse(next(q), "Pattern"), LAMBDA r : Parse(r, "Type"))
  IN IF at(q, "instanceof")
     THEN IF Precedence("instanceof") < minPrec THEN q
          ELSE climb(q0, Built(q0, Typed, "InstanceOf", ""), minPrec)
     ELSE IF o.n = 0 \/ Precedence(o.op) < minPrec THEN q
     ELSE climb(q0, Built(q0, Binary(Over(q, o.n), Precedence(o.op) + 1), "Bin", o.op), minPrec)
parseBinary(q, minPrec) ==
  IF tooDeep(q) THEN bad(errorExpected(enter(q)))
  ELSE leave(climb(enter(q), Parse(enter(q), "Unary"), minPrec))

parseLambdaBody(q) == IF at(q, "{") THEN Parse(q, "Block") ELSE Parse(q, "Expr")

tryLambdaParam(q) ==
  LET m == parseModifiers(q)
      t == IF at(m, "var") THEN Push(next(m), N("VarType", "", <<>>))
           ELSE IF startsType(m) THEN Parse(m, "Type") ELSE fail(m)
      a == Do(t, <<"Anns", "Ellipsis?">>)
      named(r) == atIdent(r) \/ at(r, "_")
  IN IF named(q) /\ peek(q, 1) \in {",", ")"} THEN parseVarDeclaratorId(q)
     ELSE IF ~t.ok \/ isBad(t) \/ ~named(a) THEN fail(a)
     ELSE Built(q, Do(a, <<"VarId", "Dims">>), "Param", "")

lambdaInParens(q) ==
  LET ps == Items(next(q), "LambdaParam", ",", {")"})
  IN IF ~ps.ok \/ ~at(ps, ")") \/ peek(ps, 1) # "->" THEN fail(ps)
     ELSE Built(q, Do(Built(q, ps, "LambdaParams", ""), <<")", "->", "LambdaBody">>), "Lambda", "")

tryLambda(q) ==
  IF (atIdent(q) \/ at(q, "_")) /\ peek(q, 1) = "->"
  THEN Node(q, "Lambda1", <<"VarId", "->", "LambdaBody">>)
  ELSE IF at(q, "(") THEN spec(q, lambdaInParens(q)) ELSE fail(q)

parseConditional(q) ==
  LET c == Binary(q, 1)
      t == Do(next(c), <<"Expr", ":">>)
  IN IF ~at(c, "?") THEN c
     ELSE Built(q, Otherwise(tryLambda(t), LAMBDA r : Parse(r, "Conditional")), "Cond", "")

parseAssign(q) ==
  LET x == parseConditional(q)
      a == assignOp(x)
  IN IF a.n = 0 THEN x ELSE Built(q, Parse(Over(x, a.n), "Expr"), "Assign", a.op)

parseExpr(q) ==
  IF tooDeep(q) THEN bad(errorExpected(enter(q)))
  ELSE leave(Otherwise(tryLambda(enter(q)), parseAssign))

(* Mutant of startsCastOperand: a sign starts the operand of any cast. *)
startsCastOperandSigned(q, primitive) ==
  \/ atIn(q, {"+", "-", "++", "--", "~", "!", "(", "this", "super", "new", "switch", "_"})
  \/ atIdent(q) \/ isPrimitiveKind(kind(q)) \/ atIn(q, Literals)

startsCastOperand(q, primitive) ==
  \/ atIn(q, {"+", "-"}) /\ primitive
  \/ atIn(q, {"++", "--", "~", "!", "(", "this", "super", "new", "switch", "_"})
  \/ atIdent(q) \/ isPrimitiveKind(kind(q)) \/ atIn(q, Literals)

parseUnaryNotPlusMinus(q) == Parse(q, "Unary")   \* ~ and ! are read as parseUnary reads them

castOrNot(q) ==
  LET l         == next(q)
      t         == Parse(l, "Type")
      b         == IF at(t, "&") THEN Series(next(t), "Type", "&") ELSE t
      primitive == isPrimitiveKind(kind(l)) /\ ~at(t, "&")
      o         == next(Built(q, b, "CastTypes", ""))
      operand   == IF primitive THEN Parse(o, "Unary")
                   ELSE Otherwise(tryLambda(o), parseUnaryNotPlusMinus)
  IN IF ~(startsType(l) \/ at(l, "@")) \/ isBad(t) \/ ~at(b, ")") \/ ~startsCastOperand(o, primitive)
     THEN fail(l)
     ELSE Built(q, operand, "Cast", "")
tryCast(q) == spec(q, castOrNot(q))

parseUnary(q) ==
  CASE atIn(q, UnaryOps) -> Built(q, Parse(next(q), "Unary"), "Unary", kind(q))
    [] at(q, "(")        -> Otherwise(tryCast(q), LAMBDA r : Parse(r, "Postfix"))
    [] at(q, "switch")   -> Node(q, "SwitchExpr", <<"switch", "(", "Expr", ")", "SwitchBlock">>)
    [] OTHER             -> Parse(q, "Postfix")

(* x.this and x.super keep x when it is a name; x.class never does. *)
parseSelector(q0, q) ==
  LET dot    == next(q)
      x      == Top(q)
      sel    == parseIdent(dot)
      inner  == Parse(dot, "New")
  IN CASE atIn(dot, {"this", "super"}) ->
            IF x.k = "Name" THEN Built(q0, next(dot), "Qualified", kind(dot))
            ELSE Push([next(dot) EXCEPT !.st = q0.st], N("Self", kind(dot), <<>>))
       [] at(dot, "class") -> Push([next(dot) EXCEPT !.st = q0.st], N("ClassLit", "", <<>>))
       [] at(dot, "new")   -> IF Top(inner).k = "New" THEN Built(q0, inner, "NewInner", "")
                              ELSE [inner EXCEPT !.st = Append(q0.st, Top(inner))]
       [] at(dot, "<")     -> Built(q0, Do(dot, <<"TypeArgs?", "MethodIdent", "Args">>), "CallOnT", "")
       [] OTHER ->
            IF at(sel, "(") THEN Built(q0, Parse(sel, "Args"), "CallOn", "")
            ELSE IF x.k = "Name"
            THEN [sel EXCEPT !.st = Append(q0.st, N("Name", "", Append(x.c, Top(sel))))]
            ELSE Built(q0, sel, "Select", "")

AfterColons(q0, q, known) ==
  LET t == tryTypeArgs(next(q))
  IN CASE at(t, "new")             -> Built(q0, next(t), "NewRef", "")
       [] known \/ atIdent(t)      -> Built(q0, parseIdent(t), "MethodRef", "")
       [] OTHER                    -> fail(t)

RECURSIVE postfixes(_, _)
postfixes(q0, q) ==
  CASE at(q, ".")  -> postfixes(q0, parseSelector(q0, q))
    [] at(q, "[")  -> postfixes(q0, Built(q0, Do(q, <<"[", "Expr", "]">>), "Index", ""))
    [] at(q, "::") -> postfixes(q0, AfterColons(q0, q, TRUE))
    [] atIn(q, {"++", "--"}) -> postfixes(q0, Built(q0, next(q), "Postfix", kind(q)))
    [] OTHER       -> q
parsePostfix(q) == postfixes(q, Parse(q, "Primary"))

RECURSIVE nameParts(_, _)
nameParts(q, beforeCall) ==
  IF at(q, ".") /\ isIdent(peek(q, 1)) /\ ~(beforeCall /\ peek(q, 2) = "(")
  THEN nameParts(parseIdent(next(q)), beforeCall) ELSE q
parseName(q)                   == Built(q, nameParts(parseIdent(q), FALSE), "Name", "")
parseNameStoppingBeforeCall(q) == Built(q, nameParts(parseIdent(q), TRUE), "Name", "")

(* A type before :: or .class; a bare < or [ was an operator after all. *)
typeHeaded(q) ==
  LET t == Parse(q, "Type")
  IN CASE peek(q, 1) \notin {"<", "["} \/ isBad(t)  -> fail(q)
       [] at(t, "::")                               -> AfterColons(q, t, FALSE)
       [] at(t, ".") /\ peek(t, 1) = "class"        -> Built(q, next(next(t)), "ClassLit", "")
       [] OTHER                                     -> fail(t)
parseNameOrCall(q) ==
  IF peek(q, 1) = "(" THEN Node(q, "Call", <<"MethodIdent", "Args">>)
  ELSE Otherwise(spec(q, typeHeaded(q)), parseNameStoppingBeforeCall)

parsePrimary(q) ==
  LET t == Parse(q, "Type")
  IN CASE atIn(q, Literals)           -> Push(next(q), N("Lit", kind(q), <<>>))
       [] atIn(q, {"this", "super"})  -> Push(next(q), N("Self", kind(q), <<>>))
       [] at(q, "new")                -> Parse(q, "New")
       [] at(q, "void")               -> Node(q, "VoidLit", <<"void", ".", "class">>)
       [] isPrimitiveKind(kind(q))    ->
            IF at(t, "::") THEN Built(q, Do(Missing(t), <<"::", "new">>), "NewRef", "")
            ELSE Built(q, Do(t, <<".", "class">>), "ClassLit", "")
       [] at(q, "(")                  -> Node(q, "Paren", <<"(", "Expr", ")">>)
       [] atIdent(q)                  -> parseNameOrCall(q)
       [] OTHER                       -> bad(next(errorExpected(q)))

RECURSIVE dimExprs(_)
dimExprs(q) ==
  LET a == parseAnnotations(q)
  IN IF at(a, "[") /\ peek(a, 1) # "]"
     THEN dimExprs(Built(q, Do(a, <<"[", "Expr", "]">>), "DimExpr", ""))
     ELSE [a EXCEPT !.i = q.i, !.st = q.st, !.quiet = @ /\ ~at(a, "[")]

parseNamedTypeToInstantiate(q) == parseNamedType(q, parseAnnotations(q))

(* Type arguments before an array's element type, and a primitive type     *)
(* before an argument list, are read and dropped.                           *)
newArray(q, dx) ==
  LET dims == Parse(dx, "Dims")
  IN Built(q, IF Top(dx).c = <<>> THEN Parse(dims, "ArrayInit") ELSE Missing(dims), "NewArray", "")
newObject(q, ta, elt) ==
  LET args == Parse(IF Top(elt).k = "Prim" THEN Missing([elt EXCEPT !.st = ta.st]) ELSE elt, "Args")
  IN Built(q, Optional(args, "{", "Body"), "New", "")
newOf(q, ta, elt) ==
  IF at(elt, "[") \/ AtAnnotation(elt)
  THEN Keep(newArray(q, Built(elt, dimExprs(elt), "DimExprs", "")), Tail)
  ELSE newObject(q, ta, elt)
newAfter(q, ta) ==
  newOf(q, ta, IF isPrimitiveKind(kind(ta)) THEN Push(next(ta), N("Prim", kind(ta), <<N("Anns", "", <<>>)>>))
               ELSE parseNamedTypeToInstantiate(ta))
parseNewExpr(q) == newAfter(q, tryTypeArgs(expect(q, "new")))

parseArgs(q) == Built(q, Items(q, "Expr", ",", {")"}), "Args", "")
Arguments(q) == expect(parseArgs(expect(q, "(")), ")")

-----------------------------------------------------------------------------
(* Statements. *)

RECURSIVE blockStmts(_)
blockStmts(q) ==
  LET r == Parse(q, "BlockStmt")
  IN IF at(q, "}") \/ atEOF(q) THEN q ELSE blockStmts(IF r.i = q.i THEN resync(r) ELSE r)
parseBlock(q) == expect(Built(q, blockStmts(expect(q, "{")), "Block", ""), "}")

atRecordDecl(q) == at(q, "record") /\ isIdent(peek(q, 1)) /\ peek(q, 2) \in {"(", "<"}
AtTypeDecl(q)   == \/ atIn(q, {"class", "interface", "enum"}) \/ atRecordDecl(q)
                   \/ at(q, "@") /\ peek(q, 1) = "interface"

(* Looks past the modifiers.  Only the cursor is put back, not what reading *)
(* an annotation reported on the way.                                       *)
Looked(q)          == [modifiers(q) EXCEPT !.i = q.i, !.st = q.st]
atLocalTypeDecl(q) == AtTypeDecl(modifiers(q))

localVarDecl(q, semi) ==
  LET m == parseModifiers(q)
      t == IF at(m, "var") /\ isIdent(peek(m, 1)) THEN Push(next(m), N("VarType", "", <<>>))
           ELSE IF startsType(m) THEN Parse(m, "Type") ELSE fail(m)
      d == Built(q, Parse(t, "Declarators"), "VarDecl", "")
  IN IF ~t.ok \/ isBad(t) \/ ~(atIdent(t) \/ at(t, "_")) THEN fail(t)
     ELSE IF ~semi THEN d
     ELSE IF at(d, ";") THEN next(d) ELSE fail(d)
tryLocalVarDecl(q, semi) == spec(q, localVarDecl(q, semi))

parseBlockStmt(q) ==
  LET l == Looked(q)
      d == LocalVar(l, TRUE)
  IN IF atLocalTypeDecl(q) THEN Built(l, Parse(l, "Member"), "LocalType", "")
     ELSE IF d.ok THEN Built(l, d, "LocalVar", "")
     ELSE Parse(Again(d), "Stmt")

startsExprContinuation(k) ==
  k \in {"(", ".", "=", "[", "::", "++", "--", ";"} \/ Precedence(k) # 0

constructorCall(q) ==
  LET t == IF at(q, "<") THEN parseTypeArgs(q) ELSE Missing(q)
  IN IF ~t.ok \/ ~atIn(t, {"this", "super"}) \/ peek(t, 1) # "(" THEN fail(t)
     ELSE Built(q, Do(next(t), <<"Args", ";">>), "CtorCall", kind(t))
tryConstructorCall(q) == spec(q, constructorCall(q))

exprStmt(q) ==
  LET x == Parse(q, "Expr")
  IN IF isBad(x) THEN bad([resync(x) EXCEPT !.st = q.st]) ELSE Built(q, expect(x, ";"), "ExprStmt", "")

(* A keyword, an optional part that ; or a missing identifier leaves out.   *)
Leaving(q, k, there, name) ==
  Built(q, expect(IF there THEN Parse(next(q), name) ELSE Missing(next(q)), ";"), k, "")

statement(q) ==
  LET if  == Do(q, <<"if", "(", "Expr", ")", "Stmt">>)
      msg == Do(q, <<"assert", "Expr">>)
  IN CASE at(q, "{")      -> Parse(q, "Block")
       [] at(q, ";")      -> Push(next(q), N("Empty", "", <<>>))
       [] at(q, "if")     -> IF at(if, "else") THEN Built(q, Do(if, <<"else", "Stmt">>), "IfElse", "")
                             ELSE Built(q, if, "If", "")
       [] at(q, "while")  -> Node(q, "While", <<"while", "(", "Expr", ")", "Stmt">>)
       [] at(q, "do")     -> Node(q, "Do", <<"do", "Stmt", "while", "(", "Expr", ")", ";">>)
       [] at(q, "for")    -> Parse(q, "For")
       [] at(q, "switch") -> Node(q, "Switch", <<"switch", "(", "Expr", ")", "SwitchBlock">>)
       [] at(q, "try")    -> Parse(q, "Try")
       [] at(q, "return") -> Leaving(q, "Return", peek(q, 1) # ";", "Expr")
       [] at(q, "throw")  -> Node(q, "Throw", <<"throw", "Expr", ";">>)
       [] at(q, "break")  -> Leaving(q, "Break", isIdent(peek(q, 1)), "Ident")
       [] at(q, "continue") -> Leaving(q, "Continue", isIdent(peek(q, 1)), "Ident")
       [] at(q, "synchronized") -> Node(q, "Sync", <<"synchronized", "(", "Expr", ")", "Block">>)
       [] at(q, "assert") -> IF at(msg, ":") THEN Built(q, Do(msg, <<":", "Expr", ";">>), "AssertMsg", "")
                             ELSE Built(q, expect(msg, ";"), "Assert", "")
       [] at(q, "yield") /\ ~startsExprContinuation(peek(q, 1)) ->
            Built(q, Do(next(q), <<"Expr", ";">>), "Yield", "")
       [] atIdent(q) /\ peek(q, 1) = ":" -> Node(q, "Labeled", <<"Ident", ":", "Stmt">>)
       [] OTHER           -> Otherwise(tryConstructorCall(q), exprStmt)
parseStmt(q) ==
  IF tooDeep(q) THEN bad(advanceTo(errorExpected(enter(q)), {";", "}"}))
  ELSE leave(statement(enter(q)))

forInit(q) ==
  Built(q, IF at(q, ";") THEN q
           ELSE Otherwise(LocalVar(q, FALSE), LAMBDA r : Series(r, "Expr", ",")), "ForInit", "")
forVar(h, d) == spec(h, IF d.ok /\ ~at(d, ":") THEN fail(d) ELSE d)
forAfter(q, range) ==
  IF range.ok THEN Built(q, Do(range, <<":", "Expr", ")", "Stmt">>), "Range", "")
  ELSE Built(q, Do(Again(range), <<"ForInit", ";", "ForCond", ";", "ForPost", ")", "Stmt">>), "For", "")
forHeader(q, h) == forAfter(q, forVar(h, LocalVar(h, FALSE)))
parseForStmt(q) == forHeader(q, Do(q, <<"for", "(">>))

RECURSIVE catches(_)
catches(q) == IF at(q, "catch") THEN catches(Parse(q, "Catch")) ELSE q
resources(q) ==
  LET r == Items(next(q), "Resource", ";", {")"})
  IN IF at(q, "(") THEN expect(Built(q, r, "Resources", Trailing(r, ";")), ")") ELSE Missing(q)
Alone(parts) == parts[1].c = <<>> /\ parts[3].c = <<>> /\ parts[4].k = "None"
parseTryStmt(q) ==
  LET f == Node(q, "Try", <<"try", "Resources?", "Block", "Catches", "Finally?">>)
  IN IF Alone(Top(f).c) THEN error(f, q.i) ELSE f
parseResource(q) == Otherwise(LocalVar(q, FALSE), LAMBDA r : Parse(r, "Expr"))
parseCatchClause(q) ==
  Node(q, "Catch", <<"catch", "(", "Mods", "CatchTypes", "VarId", ")", "Block">>)

parseSwitchLabel(q) ==
  LET c == expect(q, "case")
      l == next(c)
      i == Built(c, Series(c, "CaseItem", ","), "CaseItems", "")
  IN CASE at(q, "default") -> Push(next(q), N("Default", "", <<>>))
       [] ~at(q, "default") /\ at(c, "null") ->
            IF ~at(l, ",") THEN Push(l, N("CaseNull", "", <<>>))
            ELSE IF peek(l, 1) = "default" THEN Push(next(next(l)), N("CaseNullDefault", "", <<>>))
            ELSE Push(errorExpected(next(l)), N("CaseNull", "", <<>>))
       [] OTHER -> Built(q, IF at(i, "when") THEN Node(i, "Guard", <<"when", "Expr">>)
                            ELSE Missing(i), "Case", "")

Labelled(q) == Node(q, "Labelled", <<"SwitchLabel", ":">>)
RECURSIVE moreLabels(_)
moreLabels(q) == IF atIn(q, {"case", "default"}) THEN moreLabels(Labelled(q)) ELSE q
RECURSIVE groupStmts(_)
groupStmts(q) ==
  IF atIn(q, {"case", "default", "}"}) \/ atEOF(q) THEN q ELSE groupStmts(Parse(q, "BlockStmt"))

switchItem(q) ==
  LET l == Parse(q, "SwitchLabel")
      a == next(l)
      body == IF at(a, "{") THEN Parse(a, "Block") ELSE IF at(a, "throw") THEN Parse(a, "Stmt")
              ELSE Node(a, "RuleExpr", <<"Expr", ";">>)
      ls == Built(q, moreLabels(Built(q, expect(l, ":"), "Labelled", "")), "Labels", "")
      ss == Built(ls, groupStmts(ls), "Stmts", "")
  IN IF at(l, "->") THEN Built(q, body, "Rule", "")
     ELSE IF Top(ss).c = <<>> /\ at(ss, "}") THEN [ss EXCEPT !.st = ls.st]
     ELSE Built(q, ss, "Group", "")
RECURSIVE switchItems(_)
switchItems(q) ==
  LET r == Parse(q, "SwitchItem")
  IN IF at(q, "}") \/ atEOF(q) THEN q
     ELSE switchItems(IF r.i = q.i THEN advanceTo(r, {"case", "default", "}"}) ELSE r)
(* Rules, groups and trailing labels are kept in three lists. *)
inLists(items) ==
  LET All(k)   == SelectSeq(items, LAMBDA n : n.k = k)
      trailing == IF All("Labels") = <<>> THEN <<NoNode>> ELSE All("Labels")
  IN <<N("Rules", "", All("Rule")), N("Groups", "", All("Group"))>> \o trailing
parseSwitchBlock(q) ==
  expect(Keep(Built(q, switchItems(expect(q, "{")), "SwitchBlock", ""), inLists), "}")

pattern(q) ==
  LET t    == Parse(parseModifiers(q), "Type")
      elts == Items(next(t), "Component", ",", {")"})
      rp   == next(Built(t, elts, "Elts", ""))
  IN IF ~startsType(parseModifiers(q)) \/ isBad(t) THEN fail(q)
     ELSE IF at(t, "(")
     THEN IF ~elts.ok \/ ~at(elts, ")") THEN fail(elts)
          ELSE Keep(Built(q, rp, "RecordPattern", ""), Tail)      \* the modifiers are dropped
     ELSE IF atIdent(t) \/ at(t, "_") THEN Built(q, parseVarDeclaratorId(t), "TypePattern", "")
     ELSE fail(t)
tryPattern(q) == spec(q, pattern(q))
parseComponentPattern(q) ==
  IF at(q, "_") THEN Push(next(q), N("MatchAll", "", <<>>)) ELSE tryPattern(q)

-----------------------------------------------------------------------------
(* Declarations.  enclosing is the name of the type around a member, or "". *)

RECURSIVE members(_, _)
members(q, enclosing) ==
  LET m == Member(q, enclosing)
  IN IF at(q, "}") \/ atEOF(q) THEN q
     ELSE members(IF m.i = q.i THEN resync(m) ELSE m, enclosing)
parseTypeBody(q, enclosing) ==
  IF "HeaderOnly" \in q.mode /\ at(q, "{") THEN Built(q, skipBalanced(q), "Body", "")
  ELSE expect(Built(q, members(expect(q, "{"), enclosing), "Body", ""), "}")

Named(q) == Top(q).v

parseClassDecl(q0, q) ==
  LET n == Do(q, <<"class", "TypeIdent">>)
      e == Parse(n, "TypeParams")
      s == IF at(e, "extends") THEN Node(e, "Extends", <<"extends", "Type">>) ELSE Missing(e)
      i == OptionalTypes(s, "implements", "Implements")
  IN Built(q0, Body(OptionalTypes(i, "permits", "Permits"), Named(n)), "Class", "")
parseInterfaceDecl(q0, q) ==
  LET n == Do(q, <<"interface", "TypeIdent", "TypeParams">>)
      e == OptionalTypes(n, "extends", "ExtendsList")
  IN Built(q0, Body(OptionalTypes(e, "permits", "Permits"), ""), "Interface", "")
parseAnnotationDecl(q0, q) ==
  Built(q0, Do(q, <<"@", "interface", "TypeIdent", "Body">>), "AnnotationDecl", "")
parseRecordDecl(q0, q) ==
  LET n == Parse(next(q), "TypeIdent")
      h == expect(Parse(n, "TypeParams"), "(")
      c == expect(Built(h, Items(h, "RecordComponent", ",", {")"}), "Components", ""), ")")
  IN Built(q0, Body(OptionalTypes(c, "implements", "Implements"), Named(n)), "Record", "")
parseRecordComponent(q) == Node(q, "Component", <<"Anns", "Type", "Anns", "Ellipsis?", "Ident">>)

parseEnumConstant(q, enclosing) ==
  LET a == Optional(Do(q, <<"Anns", "Ident">>), "(", "Args")
  IN Built(q, IF at(a, "{") THEN Body(a, enclosing) ELSE Missing(a), "EnumConst", "")
RECURSIVE enumConstants(_, _)
enumConstants(q, enclosing) ==
  LET c == parseEnumConstant(q, enclosing)
  IN IF atIn(q, {"}", ";"}) \/ atEOF(q) THEN q
     ELSE IF at(c, ",") THEN enumConstants(next(c), enclosing) ELSE c
RECURSIVE enumMembers(_, _)
enumMembers(q, enclosing) ==
  IF at(q, "}") \/ atEOF(q) THEN q ELSE enumMembers(Member(q, enclosing), enclosing)
parseEnumConstants(q, enclosing) ==
  LET c == enumConstants(q, enclosing) IN Built(q, c, "Constants", Trailing(c, ","))
parseEnumMembers(q, enclosing) ==
  IF at(q, ";") THEN Built(q, enumMembers(next(q), enclosing), "EnumMembers", "") ELSE Missing(q)
parseEnumDecl(q0, q) ==
  LET n == Do(q, <<"enum", "TypeIdent">>)
      h == expect(OptionalTypes(n, "implements", "Implements"), "{")
      l == parseEnumConstants(h, Named(n))
  IN Built(q0, expect(parseEnumMembers(l, Named(n)), "}"), "Enum", "")

parseFormalParam(q) == Node(q, "Param", <<"Mods", "Type", "Anns", "Ellipsis?", "VarId", "Dims">>)

receiver(q) ==
  LET a == parseAnnotations(q)
      t == Parse(a, "Type")
      whose == atIdent(t) /\ peek(t, 1) = "." /\ peek(t, 2) = "this"
      s == IF whose THEN next(parseIdent(t)) ELSE t
  IN IF ~startsType(a) \/ ~at(s, "this") THEN fail(a)
     ELSE Built(q, next(s), IF whose THEN "QReceiver" ELSE "Receiver", "")
tryReceiverParam(q) == spec(q, receiver(q))

parseParamsAfterLparen(q) ==
  LET r == Parse(q, "Receiver")
      s == IF r.ok THEN accept(r, ",") ELSE Again(r)
  IN expect(Built(q, IF at(q, ")") THEN q ELSE Items(s, "FormalParam", ",", {")"}), "Params", ""), ")")
parseParams(q) == Parse(expect(q, "("), "ParamsAfterLparen")

parseVarDeclarators(q) == Built(q, Series(q, "Declarator", ","), "Declarators", "")
varDeclarator(q) ==
  LET n == Do(q, <<"VarId", "Dims">>)
  IN Built(q, IF at(n, "=") THEN Node(n, "Init", <<"=", "VarInit">>) ELSE Missing(n), "Declarator", "")
parseVarInit(q) == IF at(q, "{") THEN Parse(q, "ArrayInit") ELSE Parse(q, "Expr")
parseArrayInit(q) ==
  LET b == expect(q, "{")
      e == Items(b, "VarInit", ",", {"}"})
  IN expect(Built(q, e, "ArrayInit", Trailing(e, ",")), "}")

(* What follows a result type and a name with a ( after it.  An empty list  *)
(* and then ; or default makes an annotation element, which has no place    *)
(* for type parameters, annotations, void or throws.                        *)
parseMethodOrElement(q0, q) ==
  LET n    == Do(q, <<"MethodIdent", "(">>)
      e    == Parse(next(n), "Dims")
      d    == IF at(e, "default") THEN Node(e, "ElemDefault", <<"default", "ElementValue">>) ELSE Missing(e)
      elem == Built(q0, expect(d, ";"), "AnnElem", "")
      r    == IF at(n, ")") THEN [e EXCEPT !.i = n.i, !.st = n.st] ELSE n
      m    == Do(r, <<"ParamsAfterLparen", "Dims">>)
      t    == OptionalTypes(m, "throws", "Throws")
      Result(x) == IF x.k = "Void" THEN NoNode ELSE x
  IN IF at(n, ")") /\ atIn(e, {"default", ";"})
     THEN Keep(elem, LAMBDA c : <<c[1], Result(c[4]), c[5], c[6], c[7]>>)
     ELSE IF at(t, "{") THEN Built(q0, Parse(t, "Block"), "Method", "")
     ELSE Built(q0, expect(t, ";"), "MethodHead", "")

member(q, enclosing) ==
  LET m == parseModifiers(q)
      t == Parse(m, "TypeParams")
      a == parseAnnotations(t)
      r == IF at(a, "void") THEN Push(next(a), N("Void", "", <<>>)) ELSE Parse(a, "Type")
      ctor == Do(t, <<"Ident", "Params">>)
      isEnclosing(s, k) == enclosing # "" /\ s.toks[s.i] = enclosing /\ peek(s, 1) = k
      field == Built(q, expect(Parse(r, "Declarators"), ";"), "Field", "")
  IN CASE at(m, "class")     -> parseClassDecl(q, m)
       [] at(m, "interface") -> parseInterfaceDecl(q, m)
       [] at(m, "@") /\ peek(m, 1) = "interface" -> parseAnnotationDecl(q, m)
       [] at(m, "enum")      -> parseEnumDecl(q, m)
       [] atRecordDecl(m)    -> parseRecordDecl(q, m)
       [] isEnclosing(m, "{") -> Built(q, Do(m, <<"Ident", "Block">>), "CompactCtor", "")
       [] isEnclosing(t, "(") -> Built(q, Parse(OptionalTypes(ctor, "throws", "Throws"), "Block"), "Ctor", "")
       [] OTHER ->
            IF ~atIdent(r) THEN bad([resync(errorExpected(r)) EXCEPT !.st = q.st])
            ELSE IF peek(r, 1) = "(" THEN parseMethodOrElement(q, r)
            ELSE Keep(field, LAMBDA c : <<c[1], IF c[4].k = "Void" THEN NoNode ELSE c[4], c[5]>>)
parseMember(q, enclosing) ==
  LET e == enter(q)
  IN CASE tooDeep(q)   -> bad(advanceTo(errorExpected(e), {"}"}))
       [] ~tooDeep(q) /\ at(q, ";") -> leave(Push(next(e), N("EmptyDecl", "", <<>>)))
       [] ~tooDeep(q) /\ at(q, "static") /\ peek(q, 1) = "{" -> leave(Node(e, "StaticInit", <<"static", "Block">>))
       [] ~tooDeep(q) /\ at(q, "{") -> leave(Node(e, "Initializer", <<"Block">>))
       [] OTHER        -> leave(member(e, enclosing))

-----------------------------------------------------------------------------
(* Compilation units. *)

packageDecl(q) ==
  LET a == parseAnnotations(q)
  IN IF at(a, "package") THEN Built(q, Do(a, <<"package", "Name", ";">>), "Package", "") ELSE fail(a)
tryPackageDecl(q) == Otherwise(spec(q, packageDecl(q)), Missing)

parseImportDecl(q) ==
  LET i    == expect(q, "import")
      how  == IF at(i, "static") \/ (at(i, "module") /\ isIdent(peek(i, 1))) THEN kind(i) ELSE ""
      n    == Parse(IF how = "" THEN i ELSE next(i), "Name")
      star == how # "module" /\ at(n, ".") /\ peek(n, 1) = "*"
  IN Built(q, expect(IF star THEN next(next(n)) ELSE n, ";"), IF star THEN "ImportAll" ELSE "Import", how)

RECURSIVE requiresMods(_)
requiresMods(q) ==
  IF atIn(q, {"static", "transitive"}) THEN requiresMods(Push(next(q), N("Mod", kind(q), <<>>))) ELSE q

(* A directive, or nothing when no directive starts here. *)
parseModuleDirective(q) ==
  LET n  == next(q)
      x  == Parse(n, "Name")
      w  == IF at(x, "with") THEN next(x) ELSE errorExpected(x)
      Names2(r, k) == Built(r, Series(r, "Name", ","), k, "")
      Ended(r, k)  == Built(q, expect(r, ";"), k, kind(q))
  IN CASE at(q, "requires") -> Ended(Parse(Built(n, requiresMods(n), "Mods", ""), "Name"), "Requires")
       [] atIn(q, {"exports", "opens"}) ->
            Ended(IF at(x, "to") THEN Names2(next(x), "To") ELSE Missing(x), "Exports")
       [] at(q, "uses")     -> Ended(x, "Uses")
       [] at(q, "provides") -> Ended(Names2(w, "With"), "Provides")
       [] OTHER             -> fail(errorExpected(q))

RECURSIVE directives(_)
directives(q) ==
  LET d == Parse(q, "Directive")
  IN IF at(q, "}") \/ atEOF(q) THEN q ELSE directives(IF d.ok THEN d ELSE resync(Again(d)))
parseModuleDecl(q) ==
  LET o == IF at(q, "open") THEN next(q) ELSE q
      n == Do(next(o), <<"Name", "{">>)
  IN Built(q, expect(Built(n, directives(n), "Directives", ""), "}"), "Module", IF at(q, "open") THEN "open" ELSE "")

parseTopLevelDecl(q) ==
  IF at(q, ";") THEN Push(next(q), N("EmptyDecl", "", <<>>)) ELSE Member(q, "")

RECURSIVE imports(_)
imports(q) == IF at(q, "import") THEN imports(Parse(q, "Import")) ELSE q
AtModule(q) == at(q, "module") \/ (at(q, "open") /\ peek(q, 1) = "module")
unitHeader(q) ==
  LET i == Do(q, <<"Package?", "Imports">>)
  IN IF AtModule(i) THEN Parse(i, "Module") ELSE i

hasMethodMember(decls) ==
  \E j \in DOMAIN decls : decls[j].k \in {"Method", "MethodHead", "Field", "Initializer", "StaticInit", "Ctor", "CompactCtor"}

unitOf(q) ==
  LET f == Built(newParser(q.toks, q.mode), q, "Unit", IF hasMethodMember(q.st) THEN "compact" ELSE "")
  IN [f EXCEPT !.diags = SortSeq(@, <)]

(* The production of each name; any other name is a terminal. *)
Production(q, name, arg) ==
  CASE name = "Expr"         -> parseExpr(q)
    [] name = "Binary"       -> parseBinary(q, arg)
    [] name = "LocalVar"     -> tryLocalVarDecl(q, arg)
    [] name = "Receiver"     -> tryReceiverParam(q)
    [] name = "SwitchItem"   -> switchItem(q)
    [] name = "ParamsAfterLparen" -> parseParamsAfterLparen(q)
    [] name = "Unary"        -> parseUnary(q)
    [] name = "Postfix"      -> parsePostfix(q)
    [] name = "Primary"      -> parsePrimary(q)
    [] name = "Conditional"  -> parseConditional(q)
    [] name = "Type"         -> parseType(q)
    [] name = "Ident"        -> parseIdent(q)
    [] name = "TypeIdent"    -> parseTypeIdent(q)
    [] name = "MethodIdent"  -> parseMethodIdent(q)
    [] name = "VarId"        -> parseVarDeclaratorId(q)
    [] name = "Name"         -> parseName(q)
    [] name = "Args"         -> Arguments(q)
    [] name = "Stmt"         -> parseStmt(q)
    [] name = "BlockStmt"    -> parseBlockStmt(q)
    [] name = "Block"        -> parseBlock(q)
    [] name = "Anns"         -> parseAnnotations(q)
    [] name = "Annotation"   -> parseAnnotation(q)
    [] name = "ElementValue" -> parseElementValue(q)
    [] name = "Pair"         -> parseElementValuePair(q)
    [] name = "Mods"         -> parseModifiers(q)
    [] name = "Dims"         -> parseDims(q)
    [] name = "TypeArgs?"    -> tryTypeArgs(q)
    [] name = "TypeArg"      -> parseTypeArg(q)
    [] name = "TypeParams"   -> parseTypeParams(q)
    [] name = "TypeParam"    -> parseTypeParam(q)
    [] name = "Ellipsis?"    -> IF at(q, "...") THEN Mark(next(q), "Ellipsis") ELSE Missing(q)
    [] name = "Pattern"      -> tryPattern(q)
    [] name = "Component"    -> parseComponentPattern(q)
    [] name = "LambdaParam"  -> tryLambdaParam(q)
    [] name = "LambdaBody"   -> parseLambdaBody(q)
    [] name = "New"          -> parseNewExpr(q)
    [] name = "Body"         -> parseTypeBody(q, arg)
    [] name = "Member"       -> parseMember(q, arg)
    [] name = "Params"       -> parseParams(q)
    [] name = "FormalParam"  -> parseFormalParam(q)
    [] name = "RecordComponent" -> parseRecordComponent(q)
    [] name = "Declarators"  -> parseVarDeclarators(q)
    [] name = "Declarator"   -> varDeclarator(q)
    [] name = "VarInit"      -> parseVarInit(q)
    [] name = "ArrayInit"    -> parseArrayInit(q)
    [] name = "For"          -> parseForStmt(q)
    [] name = "ForInit"      -> forInit(q)
    [] name = "ForCond"      -> IF at(q, ";") THEN Missing(q) ELSE Parse(q, "Expr")
    [] name = "ForPost"      -> Built(q, Items(q, "Expr", ",", {")"}), "ForPost", "")
    [] name = "Try"          -> parseTryStmt(q)
    [] name = "Resources?"   -> resources(q)
    [] name = "Resource"     -> parseResource(q)
    [] name = "Catch"        -> parseCatchClause(q)
    [] name = "Catches"      -> Built(q, catches(q), "Catches", "")
    [] name = "Finally?"     -> IF at(q, "finally") THEN Node(q, "Finally", <<"finally", "Block">>)
                                ELSE Missing(q)
    [] name = "CatchTypes"   -> Built(q, Series(q, "Type", "|"), "CatchTypes", "")
    [] name = "SwitchBlock"  -> parseSwitchBlock(q)
    [] name = "SwitchLabel"  -> parseSwitchLabel(q)
    [] name = "CaseItem"     -> Otherwise(tryPattern(q), parseConditional)
    [] name = "Header"       -> unitHeader(q)
    [] name = "Package?"     -> IF atIn(q, {"@", "package"}) THEN tryPackageDecl(q) ELSE Missing(q)
    [] name = "Imports"      -> Built(q, imports(q), "Imports", "")
    [] name = "Import"       -> parseImportDecl(q)
    [] name = "Module"       -> parseModuleDecl(q)
    [] name = "Directive"    -> parseModuleDirective(q)
    [] OTHER                 -> expect(q, name)

-----------------------------------------------------------------------------
(* ParseFile. *)

Start(toks, mode, tree) ==
  /\ p = newParser(Append(toks, "EOF"), mode)
  /\ meant = tree
  /\ phase = "header"
Init == \E mode \in Modes :
          \/ \E toks \in Inputs : Start(toks, mode, NoNode)
          \/ \E tree \in Units : Start(Text(tree), mode, tree)

Header ==
  /\ phase = "header"
  /\ \E h \in {Parse(p, "Header")} :
       LET stop == Top(h).k = "Module" \/ "HeaderOnly" \in p.mode
       IN /\ p' = IF stop THEN unitOf(h) ELSE h
          /\ phase' = IF stop THEN "done" ELSE "decls"
  /\ UNCHANGED meant

TopLevel ==
  /\ phase = "decls" /\ ~atEOF(p)
  /\ p' = parseTopLevelDecl(p)
  /\ UNCHANGED <<phase, meant>>

Finish ==
  /\ phase = "decls" /\ atEOF(p)
  /\ p' = unitOf(p)
  /\ phase' = "done"
  /\ UNCHANGED meant

Done == phase = "done" /\ UNCHANGED vars

Next == Header \/ TopLevel \/ Finish \/ Done

Spec == Init /\ [][Next]_vars

-----------------------------------------------------------------------------
(* Properties. *)

KindsOf(toks) == [j \in DOMAIN toks |-> Kind(toks[j])]
Tree     == p.st[1]
Finished == phase = "done"
Accepted == Finished /\ p.diags = <<>>

RECURSIVE Holes(_)
(* A placeholder somewhere in a tree. *)
Holes(n) == \/ n.k = "Bad" \/ (n.k = "Ident" /\ n.v = "")
            \/ \E j \in DOMAIN n.c : Holes(n.c[j])

(* What a node with these parts does not keep of the text it was read from: *)
(* an element its result void, its type parameters and its throws; x.class  *)
(* the x; a module what follows it.                                         *)
RECURSIVE Lossy(_)
Lossy(n) == \/ n.k \in {"AnnElem", "Module"} \/ (n.k = "ClassLit" /\ n.c = <<>>)
            \/ \E j \in DOMAIN n.c : Lossy(n.c[j])
CommaBefore(toks, k) == \E j \in 1..Len(toks) - 1 : toks[j] = "," /\ toks[j + 1] = k

(* A text about which nothing is reported is a text of the language, and    *)
(* the tree is its derivation: no token is lost, none is invented, every    *)
(* operator has the operands its rank gives it.  One thing is let pass: an  *)
(* expression that cannot be a statement, used as one (parser/stmt.go:276,  *)
(* against ast/stmt.go:19).                                                 *)
Faithful ==
  Accepted /\ "HeaderOnly" \notin p.mode /\ ~Lossy(Tree) /\ ~CommaBefore(p.toks, ")") =>
    /\ Derives(Tree) \/ (Idle(Tree) /\ Shaped(Tree))
    /\ KindsOf(Append(Text(Tree), "EOF")) = KindsOf(p.toks)

(* What the parser does not read back: a yield before an operator or with a *)
(* name for an operand, a parenthesised name before ++, a cast of void.     *)
(* class, x.class, a method without parameters and without a body.          *)
RECURSIVE Misread(_)
Misread(n) ==
  \/ n.k = "Yield" /\ LET t == Text(n.c[1])
                      IN startsExprContinuation(t[1]) \/ (isIdent(t[1]) /\ (Len(t) = 1 \/ t[2] = "="))
  \/ n.k = "Postfix" /\ n.c[1].k = "Paren" /\ n.c[1].c[1].k = "Name"
  \/ n.k = "Cast" /\ n.c[2].k = "VoidLit"
  \/ n.k = "ClassLit" /\ n.c[1].k # "Prim" /\ ~NoName(n.c[1])
  \/ n.k = "MethodHead" /\ n.c[6].c = <<>> /\ n.c[8] = NoNode
  \/ \E j \in DOMAIN n.c : Misread(n.c[j])

(* Every tree of the language that is written down is read back as that     *)
(* tree, with nothing reported.                                             *)
Understood ==
  Finished /\ "HeaderOnly" \notin p.mode /\ meant # NoNode /\ ~Misread(meant) => p.diags = <<>> /\ Tree = meant

(* A tree with a hole in it comes with a diagnostic: neither the quiet      *)
(* window nor a rolled back attempt swallows the only report of an error.   *)
Diagnosed ==
  Finished /\ Holes(Tree) => p.diags # <<>>

(* The loop over top level declarations makes at most one node for a token  *)
(* and one for an attempt to recover.                                       *)
SpinsBounded == Len(p.st) <= Len(p.toks) + MaxResync + 3
===============================================================================
