------------------------------- MODULE JavaTree -------------------------------
(***************************************************************************)
(* The trees the analyses and the code generator walk (src/ast), and what   *)
(* the Java language says a method body does.                               *)
(*                                                                         *)
(* An expression keeps what flow and lower tell apart: which variables it   *)
(* reads and writes, the primitive type of each operand, which calls it     *)
(* makes, where it branches.  Values are symbolic terms.  Run is the        *)
(* reference semantics: it executes a body with the outcomes of its calls   *)
(* and tests read from a tape, and yields the events a debugger would see.  *)
(***************************************************************************)
EXTENDS Integers, Sequences, TLC

Nil == [k |-> "nil"]

(* The locals that are declared final. *)
FlagFinal(v) == v = "fin"

(* Where a value can be stored: a local, a static, a field of an object, an *)
(* array element.  The locals of the model have the type their name says.   *)
VarType(v) == CASE v = "w" -> "long" [] v = "b" -> "byte" [] v = "d" -> "double" [] OTHER -> "int"
Local(v)         == [k |-> "local", v |-> v, t |-> VarType(v)]
StaticField(t)   == [k |-> "static", t |-> t]
FieldOf(x, t)    == [k |-> "field", x |-> x, t |-> t]
Index(x, y, t)   == [k |-> "index", x |-> x, y |-> y, t |-> t]

(* Expressions.  Val stands for any expression of type t whose evaluation   *)
(* can be observed; op "=" is plain assignment.                             *)
Const(b)           == [k |-> "const", b |-> b]
Test(id)           == [k |-> "test", id |-> id]
Val(id, t)         == [k |-> "val", id |-> id, t |-> t]
Read(v)            == [k |-> "read", v |-> v]
Binary(op, x, y)   == [k |-> "bin", op |-> op, x |-> x, y |-> y]
Compare(op, x, y)  == [k |-> "cmp", op |-> op, x |-> x, y |-> y]
CastExpr(t, x)     == [k |-> "cast", t |-> t, x |-> x]
CallExpr(id, xs, throws) == [k |-> "call", id |-> id, xs |-> xs, throws |-> throws]
AssignExpr(lhs, op, x) == [k |-> "assign", lhs |-> lhs, op |-> op, x |-> x]
IncDec(lhs, postfix) == [k |-> "inc", lhs |-> lhs, postfix |-> postfix]
Not(x)             == [k |-> "not", x |-> x]
And(x, y)          == [k |-> "and", x |-> x, y |-> y]
Or(x, y)           == [k |-> "or", x |-> x, y |-> y]
CondExpr(c, x, y)  == [k |-> "cond", c |-> c, x |-> x, y |-> y]
InstanceOfExpr(id, v) == [k |-> "inst", id |-> id, v |-> v]
LambdaExpr(params, body) == [k |-> "lambda", params |-> params, body |-> body]
SwitchExpr(id, rules) == [k |-> "switchx", id |-> id, rules |-> rules]

(* Statements *)
Block(stmts)       == [k |-> "block", stmts |-> stmts]
EmptyStmt          == [k |-> "empty"]
ExprStmt(x)        == [k |-> "expr", x |-> x]
DeclStmt(v, init)  == [k |-> "decl", v |-> v, init |-> init]
LabeledStmt(l, s)  == [k |-> "label", l |-> l, s |-> s]
IfStmt(c, s, els)  == [k |-> "if", c |-> c, s |-> s, els |-> els]
WhileStmt(c, s)    == [k |-> "while", c |-> c, s |-> s]
DoStmt(s, c)       == [k |-> "do", c |-> c, s |-> s]
ForStmt(init, c, post, s) == [k |-> "for", init |-> init, c |-> c, post |-> post, s |-> s]
RangeStmt(v, id, s) == [k |-> "range", v |-> v, id |-> id, s |-> s]
(* groups: the statements of each colon group; rules: the blocks of an      *)
(* arrow switch; hasDefault: the last arm is the default.                   *)
SwitchStmt(id, groups, rules, hasDefault) ==
  [k |-> "switch", id |-> id, groups |-> groups, rules |-> rules, hasDefault |-> hasDefault]
BreakStmt(l)       == [k |-> "break", l |-> l]
ContinueStmt(l)    == [k |-> "continue", l |-> l]
ReturnStmt(x)      == [k |-> "return", x |-> x]
YieldStmt(x)       == [k |-> "yield", x |-> x]
ThrowStmt(t)       == [k |-> "throw", t |-> t]
SyncStmt(id, b)    == [k |-> "sync", id |-> id, b |-> b]
AssertStmt(x)      == [k |-> "assert", x |-> x]
CatchClause(types, v, b) == [types |-> types, v |-> v, b |-> b]
(* id opens the resource, in a call that declares init, and closes it again *)
(* in one that declares throws.                                             *)
Resource(v, id, init, throws) == [v |-> v, id |-> id, init |-> init, throws |-> throws]
TryStmt(res, b, catches, finally) ==
  [k |-> "try", res |-> res, b |-> b, catches |-> catches, finally |-> finally]

NoLabel == ""
Range(s) == {s[i] : i \in DOMAIN s}

(* A corner of java.lang: E1 extends E extends Exception, R extends         *)
(* RuntimeException, AE is AssertionError.                                  *)
Throwables == {"E1", "E", "R", "AE", "Exception", "RuntimeException", "Error", "Throwable"}
Supers(t) == CASE t = "E1" -> {"E1", "E", "Exception", "Throwable"}
               [] t = "E"  -> {"E", "Exception", "Throwable"}
               [] t = "R"  -> {"R", "RuntimeException", "Exception", "Throwable"}
               [] t = "AE" -> {"AE", "Error", "Throwable"}
               [] t = "Exception" -> {"Exception", "Throwable"}
               [] t = "RuntimeException" -> {"RuntimeException", "Exception", "Throwable"}
               [] t = "Error" -> {"Error", "Throwable"}
               [] OTHER -> {"Throwable"}
IsSubtype(t, c) == c \in Supers(t)
Covered(t, types) == \E c \in Range(types) : IsSubtype(t, c)

-----------------------------------------------------------------------------
(* The primitive types: subtype.go, with attr's verdict on an expression *)

SubInt == {"byte", "short", "char"}
Promote(t) == IF t \in SubInt THEN "int" ELSE t
PromoteBinary(a, b) ==
  CASE "double" \in {a, b} -> "double"
    [] "float" \in {a, b}  -> "float"
    [] "long" \in {a, b}   -> "long"
    [] OTHER -> "int"
Slots(t) == IF t \in {"long", "double"} THEN 2 ELSE 1
IsShift(op) == op = "shl"

RECURSIVE TypeOf(_)
TypeOf(x) ==
  CASE x.k \in {"val", "cast"} -> x.t
    [] x.k = "read" -> VarType(x.v)
    [] x.k = "bin" -> IF IsShift(x.op) THEN Promote(TypeOf(x.x))
                      ELSE PromoteBinary(TypeOf(x.x), TypeOf(x.y))
    [] x.k = "cond" -> TypeOf(x.x)
    [] x.k \in {"assign", "inc"} -> x.lhs.t
    [] x.k = "call" -> "int"
    [] OTHER -> "boolean"

(* attr's verdict on a condition: the one value it folds to, if any. *)
RECURSIVE Folded(_)
Folded(x) ==
  CASE x.k = "const" -> {x.b}
    [] x.k = "not"   -> {~b : b \in Folded(x.x)}
    [] x.k = "and"   -> {a /\ b : a \in Folded(x.x), b \in Folded(x.y)}
    [] x.k = "or"    -> {a \/ b : a \in Folded(x.x), b \in Folded(x.y)}
    [] OTHER -> {}
isConstTrue(x)  == Folded(x) = {TRUE}
isConstFalse(x) == Folded(x) = {FALSE}

-----------------------------------------------------------------------------
(* The reference semantics.  h is an execution so far: the events, the rest *)
(* of the tape, what the locals hold, how control leaves what was run last, *)
(* the value of the last expression.  An execution stops where the tape     *)
(* ends.                                                                    *)

Term(f, a) == [f |-> f, a |-> a]
Leaf(f)    == Term(f, <<>>)
Unit       == Leaf("-")
Truth(b)   == IF b THEN Leaf("T") ELSE Leaf("F")
IsTrue(v)  == v = Leaf("T")

(* The conversions of section 5.1: what is below int is an int already, and *)
(* a long, float or double narrows to it through int.                       *)
Convert(from, to, v) ==
  IF from = to \/ (from \in SubInt \cup {"boolean"} /\ to = "int") THEN v
  ELSE IF to \in SubInt /\ from \notin SubInt \cup {"int"} THEN Term(to, <<Term("int", <<v>>)>>)
  ELSE Term(to, <<v>>)

(* What a comparison of two numbers can find; a NaN is not ordered. *)
Orders(t) == {"lt", "eq", "gt"} \cup (IF t \in {"float", "double"} THEN {"nan"} ELSE {})
Holds(op, r) ==
  CASE op = "<"  -> r = "lt"
    [] op = "<=" -> r \in {"lt", "eq"}
    [] op = ">"  -> r = "gt"
    [] op = ">=" -> r \in {"gt", "eq"}
    [] op = "==" -> r = "eq"
    [] op = "!=" -> r # "eq"

Normal == [k |-> "ok", l |-> ""]
Exit(k, l) == [k |-> k, l |-> l]
Event(e, id, v, r) == [e |-> e, id |-> id, v |-> v, r |-> r]
Silent == "-"

NoAsk == [e |-> "", id |-> ""]

Start(tape) == [ev |-> <<>>, tape |-> tape, env |-> <<>>, out |-> Normal, val |-> Unit, ask |-> NoAsk]
Going(h) == h.out.k = "ok"
Stops(h) == h.out.k = "stop"
LastOf(h) == h.ev[Len(h.ev)].r

(* An event without an outcome, and one whose outcome the tape decides. *)
Say(h, e, id, v) == IF ~Going(h) THEN h ELSE [h EXCEPT !.ev = Append(@, Event(e, id, v, Silent))]
Ask(h, e, id, v) ==
  IF ~Going(h) THEN h
  ELSE IF h.tape = <<>> THEN [h EXCEPT !.out = Exit("stop", ""), !.ask = [e |-> e, id |-> id]]
  ELSE [h EXCEPT !.ev = Append(@, Event(e, id, v, Head(h.tape))),
                 !.tape = Tail(@), !.val = Leaf(Head(h.tape)),
                 !.out = IF Head(h.tape) \in Throwables THEN Exit("throw", Head(h.tape)) ELSE @]
Yields(h, v) == IF Going(h) THEN [h EXCEPT !.val = v] ELSE h
Store(h, v, x) ==
  IF ~Going(h) THEN h
  ELSE [Say(h, "write", v, x) EXCEPT !.env = (v :> x) @@ @, !.val = x]
Load(h, v) == Yields(Say(h, "read", v, Unit), IF v \in DOMAIN h.env THEN h.env[v] ELSE Leaf(v))

(* Run executes a tree, a statement or an expression: the operators below   *)
(* say what each kind does and reach their parts through it.                *)
RECURSIVE Run(_, _)
Eval(x, h) == Run(x, h)

(* x's value converted to t, and the values of xs as the arguments so far. *)
Converted(from, t, g) == Yields(g, Convert(from, t, g.val))
EvalAs(x, t, h) == Converted(TypeOf(x), t, Eval(x, h))
RECURSIVE EvalAll(_, _, _)
EvalAll(xs, done, h) ==
  IF xs = <<>> THEN Yields(h, Term("", done))
  ELSE LET g == EvalAs(Head(xs), "int", h) IN EvalAll(Tail(xs), Append(done, g.val), g)

(* The operands of a place, evaluated once and from left to right; then     *)
(* reading it and writing it.                                               *)
Place(lhs, h) ==
  CASE lhs.k = "field" -> LET g == Eval(lhs.x, h) IN Yields(g, Term("", <<g.val>>))
    [] lhs.k = "index" -> LET g == Eval(lhs.x, h)
                              i == EvalAs(lhs.y, "int", g)
                          IN  Yields(i, Term("", <<g.val, i.val>>))
    [] OTHER -> Yields(h, Term("", <<>>))
Fetch(lhs, at, h) == IF lhs.k = "local" THEN Load(h, lhs.v)
                     ELSE Yields(Say(h, "get", lhs.k, at), Term("old", at.a))
Deposit(lhs, at, v, h) == IF lhs.k = "local" THEN Store(h, lhs.v, v)
                          ELSE Yields(Say(h, "put", lhs.k, Term("", Append(at.a, v))), v)

(* (T)((E1) op (E2)): the operands promoted, the result narrowed. *)
Combine(op, t, old, rt, new) ==
  LET p == IF IsShift(op) THEN Promote(t) ELSE PromoteBinary(t, rt)
      q == IF IsShift(op) THEN "int" ELSE p
  IN  Convert(p, t, Term(op, <<Convert(t, p, old), Convert(rt, q, new)>>))

(* x given the operands of its place, then the value it had, then both. *)
AssignedTo(x, at, old, new) ==
  Deposit(x.lhs, at.val, IF x.op = "=" THEN Convert(TypeOf(x.x), x.lhs.t, new.val)
                         ELSE Combine(x.op, x.lhs.t, old.val, TypeOf(x.x), new.val), new)
AssignedAt(x, at, old) == AssignedTo(x, at, old, Eval(x.x, old))
Assigned(x, at) == AssignedAt(x, at, IF x.op = "=" THEN at ELSE Fetch(x.lhs, at.val, at))
SteppedAt(x, at, old) ==
  LET new == Deposit(x.lhs, at.val, Combine("add", x.lhs.t, old.val, "int", Leaf("1")), old)
  IN  IF x.postfix THEN Yields(new, old.val) ELSE new
Stepped(x, at) == SteppedAt(x, at, Fetch(x.lhs, at.val, at))

(* The labels of a switch are the indices of its arms; "none" is no match,  *)
(* which the default takes.                                                 *)
Arm(n, hasDefault, h) ==
  LET hit == {i \in 1..n : ToString(i) = LastOf(h)} IN
  IF hit # {} THEN CHOOSE i \in hit : TRUE ELSE IF hasDefault THEN n ELSE n + 1
Caught(h)        == [h EXCEPT !.out = Normal]
RunRule(rules, hasDefault, h) ==
  IF ~Going(h) \/ Arm(Len(rules), hasDefault, h) > Len(rules) THEN h
  ELSE LET g == Run(rules[Arm(Len(rules), hasDefault, h)], h) IN
       IF g.out.k = "yield" THEN Caught(g) ELSE g

EvalExpr(x, h) ==
  CASE x.k = "nil"    -> h
    [] x.k = "const"  -> Yields(h, Truth(x.b))
    [] x.k = "test"   -> Ask(h, "test", x.id, Unit)
    [] x.k = "val"    -> Yields(Say(h, "val", x.id, Unit), Leaf(x.id))
    [] x.k = "read"   -> Load(h, x.v)
    [] x.k = "bin"    -> LET t == TypeOf(x)
                             a == EvalAs(x.x, t, h)
                             b == EvalAs(x.y, IF IsShift(x.op) THEN "int" ELSE t, a)
                         IN  Yields(b, Term(x.op, <<a.val, b.val>>))
    [] x.k = "cmp"    -> LET p == PromoteBinary(TypeOf(x.x), TypeOf(x.y))
                             a == EvalAs(x.x, p, h)
                             b == EvalAs(x.y, p, a)
                             c == Ask(b, "cmp", p, Term("", <<a.val, b.val>>))
                         IN  IF Going(c) THEN Yields(c, Truth(Holds(x.op, LastOf(c)))) ELSE c
    [] x.k = "cast"   -> EvalAs(x.x, x.t, h)
    [] x.k = "call"   -> LET g == EvalAll(x.xs, <<>>, h) IN Yields(Ask(g, "call", x.id, g.val), Leaf(x.id))
    [] x.k = "assign" -> Assigned(x, Place(x.lhs, h))
    [] x.k = "inc"    -> Stepped(x, Place(x.lhs, h))
    [] x.k = "not"    -> LET g == Eval(x.x, h) IN Yields(g, Truth(~IsTrue(g.val)))
    [] x.k = "and"    -> LET g == Eval(x.x, h) IN IF Going(g) /\ IsTrue(g.val) THEN Eval(x.y, g) ELSE g
    [] x.k = "or"     -> LET g == Eval(x.x, h) IN IF Going(g) /\ ~IsTrue(g.val) THEN Eval(x.y, g) ELSE g
    [] x.k = "cond"   -> LET g == Eval(x.c, h) IN
                           IF IsTrue(g.val) THEN Eval(x.x, g) ELSE EvalAs(x.y, TypeOf(x), g)
    [] x.k = "inst"   -> LET g == Ask(h, "test", x.id, Unit) IN
                           IF Going(g) /\ IsTrue(g.val)
                           THEN Yields(Store(g, x.v, Leaf("obj")), Truth(TRUE)) ELSE g
    [] x.k = "switchx" -> RunRule(x.rules, TRUE, Ask(h, "tag", x.id, Unit))
    [] x.k = "lambda" -> h

RECURSIVE EvalPost(_, _)
EvalPost(xs, h) == IF xs = <<>> THEN h ELSE EvalPost(Tail(xs), Eval(Head(xs), h))
RECURSIVE RunAll(_, _)
RunAll(ss, h) == IF ss = <<>> THEN h ELSE RunAll(Tail(ss), Run(Head(ss), h))

(* A loop's labels: leaving through one of them is leaving the loop. *)
Leaves(h, l)     == h.out.k = "break" /\ h.out.l \in {NoLabel, l}
Continues(h, l)  == h.out.k = "continue" /\ h.out.l \in {NoLabel, l}

(* One iteration: the test if it comes first, the body, what follows it. *)
LoopTest(s, h) ==
  CASE s.k = "do" \/ (s.k = "for" /\ s.c.k = "nil") -> Yields(h, Truth(TRUE))
    [] s.k = "range" -> Ask(h, "next", s.id, Unit)
    [] OTHER -> Eval(s.c, h)
LoopBody(s, g) == Run(s.s, IF s.k = "range" THEN Store(g, s.v, Leaf(s.id)) ELSE g)
LoopPost(s, l, g) ==
  LET after == IF Continues(g, l) THEN Caught(g) ELSE g IN
  CASE s.k = "for" -> EvalPost(s.post, after)
    [] s.k = "do"  -> Eval(s.c, after)
    [] OTHER -> after
RECURSIVE Loop(_, _, _)
Again(s, l, g) ==
  IF Leaves(g, l) THEN Caught(g)
  ELSE IF ~Going(g) \/ (s.k = "do" /\ ~IsTrue(g.val)) THEN g
  ELSE Loop(s, l, g)
Iteration(s, l, g) ==
  IF ~Going(g) \/ ~IsTrue(g.val) THEN g ELSE Again(s, l, LoopPost(s, l, LoopBody(s, g)))
Loop(s, l, h) == Iteration(s, l, LoopTest(s, h))

RECURSIVE RunGroups(_, _, _)
RunGroups(groups, i, h) ==
  IF i > Len(groups) THEN h ELSE RunGroups(groups, i + 1, RunAll(groups[i], h))

(* The first clause that covers the exception runs with it handled. *)
RECURSIVE Catching(_, _, _)
Catching(clauses, i, h) ==
  IF h.out.k # "throw" \/ i > Len(clauses) THEN h
  ELSE IF Covered(h.out.l, clauses[i].types)
       THEN Run(clauses[i].b, Store(Caught(h), clauses[i].v, Leaf(h.out.l)))
       ELSE Catching(clauses, i + 1, h)

(* Resources are opened left to right and closed in reverse on every way    *)
(* out; what close throws is suppressed if something is on its way already. *)
RECURSIVE WithResources(_, _, _)
Closed(inner, shut) ==
  IF ~Stops(shut) /\ (inner.out.k = "throw" \/ Going(shut))
  THEN [shut EXCEPT !.out = inner.out, !.val = inner.val] ELSE shut
Closing(id, inner) ==
  IF Stops(inner) THEN inner ELSE Closed(inner, Ask(Caught(inner), "close", id, Unit))
Opened(s, i, g) == IF Going(g) THEN Closing(s.res[i].id, WithResources(s, i + 1, g)) ELSE g
WithResources(s, i, h) ==
  IF i > Len(s.res) THEN Run(s.b, h)
  ELSE Opened(s, i, Store(Ask(h, "call", s.res[i].id, Term("", <<>>)), s.res[i].v, Leaf(s.res[i].id)))

RunStmt(s, h) ==
  CASE s.k = "block" -> RunAll(s.stmts, h)
    [] s.k = "empty" -> h
    [] s.k = "expr"  -> Eval(s.x, h)
    [] s.k = "decl"  -> IF s.init.k = "nil" THEN h ELSE (LET g == EvalAs(s.init, VarType(s.v), h) IN Store(g, s.v, g.val))
    [] s.k = "if"    -> LET g == Eval(s.c, h) IN
                          IF ~Going(g) THEN g ELSE IF IsTrue(g.val) THEN Run(s.s, g)
                          ELSE IF s.els.k = "nil" THEN g ELSE Run(s.els, g)
    [] s.k \in {"while", "do", "range"} -> Loop(s, NoLabel, h)
    [] s.k = "for"   -> Loop(s, NoLabel, RunAll(s.init, h))
    [] s.k = "label" -> LET g == IF s.s.k \in {"while", "do", "range"} THEN Loop(s.s, s.l, h)
                                 ELSE IF s.s.k = "for" THEN Loop(s.s, s.l, RunAll(s.s.init, h))
                                 ELSE Run(s.s, h)
                        IN  IF g.out = Exit("break", s.l) THEN Caught(g) ELSE g
    [] s.k = "switch" ->
         LET g == Ask(h, "tag", s.id, Unit)
             r == IF ~Going(g) THEN g ELSE
                  IF s.rules # <<>> THEN RunRule(s.rules, s.hasDefault, g)
                  ELSE RunGroups(s.groups, Arm(Len(s.groups), s.hasDefault, g), g)
         IN  IF Leaves(r, NoLabel) THEN Caught(r) ELSE r
    [] s.k \in {"break", "continue"} -> [h EXCEPT !.out = Exit(s.k, s.l)]
    [] s.k = "return" -> LET g == IF s.x.k = "nil" THEN Yields(h, Unit) ELSE EvalAs(s.x, "int", h)
                         IN  IF Going(g) THEN [g EXCEPT !.out = Exit("return", "")] ELSE g
    [] s.k = "yield" -> LET g == Eval(s.x, h) IN
                           IF Going(g) THEN [g EXCEPT !.out = Exit("yield", "")] ELSE g
    [] s.k = "throw" -> [h EXCEPT !.out = Exit("throw", s.t)]
    [] s.k = "sync"  -> LET g == Run(s.b, Say(h, "lock", s.id, Unit)) IN
                          IF Stops(g) THEN g
                          ELSE [Say(Caught(g), "unlock", s.id, Unit) EXCEPT !.out = g.out]
    [] s.k = "assert" -> LET on == Ask(h, "disabled", "assert", Unit)
                             g  == Eval(s.x, on)
                         IN  IF ~Going(on) \/ IsTrue(on.val) THEN on
                             ELSE IF ~Going(g) \/ IsTrue(g.val) THEN g
                             ELSE [g EXCEPT !.out = Exit("throw", "AE")]
    [] s.k = "try"   -> LET g == Catching(s.catches, 1, WithResources(s, 1, h))
                            f == Run(s.finally, Caught(g))
                        IN  IF s.finally.k = "nil" \/ Stops(g) THEN g
                            ELSE IF Going(f) THEN [f EXCEPT !.out = g.out, !.val = g.val] ELSE f

ExprKinds == {"nil", "const", "test", "val", "read", "bin", "cmp", "cast", "call", "assign", "inc",
              "not", "and", "or", "cond", "inst", "switchx", "lambda"}
Run(s, h) ==
  CASE ~Going(h) -> h
    [] Going(h) /\ s.k \in ExprKinds -> EvalExpr(s, h)
    [] OTHER -> RunStmt(s, h)

-----------------------------------------------------------------------------
(* What an execution shows: its effects, the answers it was given, its end, *)
(* its result.                                                              *)

Nothing == [ended |-> Exit("none", "")]

(* Reading a local is no effect; writing one is what a debugger sees. *)
Effects(h) == SelectSeq(h.ev, LAMBDA e : e.e # "read")
Taped(h)   == LET asked == SelectSeq(h.ev, LAMBDA e : e.r # Silent)
              IN  [i \in DOMAIN asked |-> asked[i].r]
Observed(h) ==
  [effects |-> Effects(h), tape |-> Taped(h),
   ended   |-> IF Going(h) THEN Exit("return", "") ELSE h.out,
   val     |-> IF h.out.k = "return" THEN h.val ELSE Unit]
=============================================================================
