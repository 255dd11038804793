--------------------------------- MODULE Flow ---------------------------------
(***************************************************************************)
(* analyzer/flow: reachability, definite assignment, checked exceptions and *)
(* captures of one body, as one walk over the tree.                         *)
(*                                                                         *)
(* A Go function that takes the context and a state and returns whether the *)
(* statement completes is an operator from (cx, node, st) to the context,   *)
(* the state the CALLER sees afterwards and that flag.  A state is passed   *)
(* by value but its bits live in a slice: what a callee writes shows, what  *)
(* it appends does not (Ret).  A diagnostic is its message and the name in  *)
(* it; errorf's suppression of a second one at the same place is the set.   *)
(***************************************************************************)
EXTENDS JavaTree, FiniteSets

CONSTANT WordBits   \* bits in a word of a bits value: 64
ASSUME WordAssumption == WordBits \in Nat \ {0}

-----------------------------------------------------------------------------
(* bits.go: indices below n * WordBits are backed by the slice *)

Words(k) == (k + WordBits - 1) \div WordBits
grow(st, i) == IF i \div WordBits < st.n THEN st ELSE [st EXCEPT !.n = i \div WordBits + 1]
(* Mutant of assign: a written variable stays definitely unassigned. *)
assignKeepsDu(st, i) == [grow(st, i) EXCEPT !.da = @ \cup {i}]

assign(st, i) == [grow(st, i) EXCEPT !.da = @ \cup {i}, !.du = @ \ {i}]
(* What the caller of a function that took st by value sees of its result. *)
Ret(st, result) == IF result.n > st.n THEN st ELSE result


join(a, b) == [n |-> IF a.n < b.n THEN a.n ELSE b.n,
               da |-> a.da \cap b.da, du |-> a.du \cap b.du]
RECURSIVE joinAll(_)
joinAll(states) == IF Len(states) = 1 THEN states[1]
                   ELSE join(states[1], joinAll(Tail(states)))

(* The words of src replace dst's first ones. *)
copyInto(dst, src) ==
  LET kept(S) == {i \in S : i >= src.n * WordBits} IN
  IF src.n > dst.n THEN dst
  ELSE [n |-> dst.n, da |-> src.da \cup kept(dst.da), du |-> src.du \cup kept(dst.du)]

-----------------------------------------------------------------------------
(* The context of one body (flow.go) *)

newCtx(declared, outer) ==
  [order |-> <<>>, blanks |-> {}, writes |-> <<>>, caught |-> <<>>, thrown |-> <<>>,
   declared |-> declared, outer |-> outer, diags |-> {}, unreachable |-> {}, captured |-> {}]

Declared(cx, v) == v \in Range(cx.order)
indexOf(cx, v)  == (CHOOSE i \in DOMAIN cx.order : cx.order[i] = v) - 1
Writes(cx, v)   == Cardinality({i \in DOMAIN cx.writes : cx.writes[i] = v})

declare(cx, v, blank) ==
  IF Declared(cx, v) THEN cx
  ELSE [cx EXCEPT !.order = Append(@, v),
                  !.blanks = IF blank THEN @ \cup {Len(cx.order)} ELSE @]

RECURSIVE declareParams(_, _)
declareParams(cx, ps) ==
  IF ps = <<>> THEN cx ELSE declareParams(declare(cx, Head(ps), FALSE), Tail(ps))

newState(cx) == LET all == 0..(Len(cx.order) - 1) IN
  [n |-> Words(Len(cx.order)), da |-> all \ cx.blanks, du |-> cx.blanks]

(* The state on a path that cannot be taken. *)
fullyAssigned(cx, st) ==
  LET k == Len(cx.order)
      w == IF k = 0 THEN st ELSE grow(st, k - 1)
  IN  [w EXCEPT !.da = @ \cup 0..(k - 1), !.du = @ \cup 0..(k - 1)]

errorf(cx, msg, name) == [cx EXCEPT !.diags = @ \cup {<<msg, name>>}]

EffectivelyFinal(cx) == {v \in Range(cx.order) : Writes(cx, v) <= 1}

-----------------------------------------------------------------------------
(* capture.go *)

(* The enclosing context whose local v is, or Nil for a field. *)
RECURSIVE OwnerOf(_, _)
OwnerOf(cx, v) == IF cx.outer = Nil THEN Nil
                  ELSE IF Declared(cx.outer, v) THEN cx.outer ELSE OwnerOf(cx.outer, v)

mayCapture(owner, v) == FlagFinal(v) \/ Writes(owner, v) <= 1

noteCapture(cx, v) ==
  LET owner == OwnerOf(cx, v) IN
  IF owner = Nil THEN cx
  ELSE IF mayCapture(owner, v) THEN [cx EXCEPT !.captured = @ \cup {v}]
  ELSE errorf(cx, "not effectively final", v)

RECURSIVE CountWrite(_, _)
CountWrite(cx, v) ==
  IF Declared(cx.outer, v) THEN [cx EXCEPT !.outer.writes = Append(@, v)]
  ELSE [cx EXCEPT !.outer = CountWrite(cx.outer, v)]
noteWrite(cx, v) ==
  IF OwnerOf(cx, v) = Nil THEN cx
  ELSE errorf(CountWrite(cx, v), "not effectively final", v)

-----------------------------------------------------------------------------
(* throws.go *)

isChecked(t) == ~IsSubtype(t, "RuntimeException") /\ ~IsSubtype(t, "Error")
isBroadCatch(t) == t \in {"Throwable", "Exception"}

handled(cx, t) ==
  \/ \E i \in DOMAIN cx.caught : Covered(t, cx.caught[i])
  \/ Covered(t, cx.declared)

raise(cx, t) ==
  LET noted == [cx EXCEPT !.thrown = Append(@, t)] IN
  IF ~isChecked(t) THEN cx
  ELSE IF handled(cx, t) THEN noted ELSE errorf(noted, "unreported exception", t)

RECURSIVE callThrows(_, _)
callThrows(cx, throws) ==
  IF throws = <<>> THEN cx ELSE callThrows(raise(cx, Head(throws)), Tail(throws))

RECURSIVE closeThrows(_, _)
closeThrows(cx, throws) ==
  IF throws = <<>> THEN cx
  ELSE closeThrows(IF isChecked(Head(throws)) /\ ~handled(cx, Head(throws))
                   THEN [cx EXCEPT !.thrown = Append(@, Head(throws))] ELSE cx, Tail(throws))

(* A clause for a checked exception the body cannot throw. *)
RECURSIVE checkReachableCatch(_, _, _)
checkReachableCatch(cx, types, bodyThrew) ==
  IF types = <<>> THEN cx
  ELSE LET t == Head(types)
           reachable == \E x \in Range(bodyThrew) : IsSubtype(x, t) \/ IsSubtype(t, x)
       IN  checkReachableCatch(
             IF isChecked(t) /\ ~isBroadCatch(t) /\ ~reachable
             THEN errorf(cx, "never thrown", t) ELSE cx, Tail(types), bodyThrew)

-----------------------------------------------------------------------------
(* assign.go: the reads and writes of an expression *)

At(cx, st)           == [cx |-> cx, st |-> st]
Done(cx, st, alive)  == [cx |-> cx, st |-> st, alive |-> alive]

read(cx, st, v) ==
  IF ~Declared(cx, v) THEN At(noteCapture(cx, v), st)
  ELSE IF indexOf(cx, v) \in st.da THEN At(cx, st)
  ELSE At(errorf(cx, "might not have been initialized", v),
          Ret(st, assign(st, indexOf(cx, v))))

write(cx, st, v) ==
  LET counted == [cx EXCEPT !.writes = Append(@, v)]
      i       == indexOf(cx, v)
  IN  IF ~Declared(cx, v) THEN At(noteWrite(counted, v), st)
      ELSE At(IF i \in cx.blanks /\ i \notin st.du
              THEN errorf(counted, "might already have been assigned", v) ELSE counted,
              Ret(st, assign(st, i)))

patternBindings(cx, st, v) ==
  LET d == declare(cx, v, FALSE) IN At(d, Ret(st, assign(st, indexOf(d, v))))

(* The walk over a node: as an expression, a condition or a statement.      *)
(* Every operator below reaches the parts of its node through it.           *)
RECURSIVE walk(_, _, _, _)
expr(cx, x, st)      == walk("expr", cx, x, st)
condition(cx, x, st) == walk("condition", cx, x, st)
stmt(cx, s, st)      == walk("stmt", cx, s, st)

RECURSIVE exprs(_, _, _)
exprs(cx, xs, st) ==
  IF xs = <<>> THEN At(cx, st)
  ELSE LET r == expr(cx, Head(xs), st) IN exprs(r.cx, Tail(xs), r.st)

(* The operands of a place that is not a variable; varOf knows none in it. *)
operands(lhs) == CASE lhs.k = "index" -> <<lhs.x, lhs.y>>
                   [] lhs.k = "field" -> <<lhs.x>>
                   [] OTHER -> <<>>

(* The right side is walked before the operands of the left. *)
assignExpr(cx, n, st) ==
  LET a == IF n.op # "=" /\ n.lhs.k = "local" THEN read(cx, st, n.lhs.v) ELSE At(cx, st)
      b == expr(a.cx, n.x, a.st)
  IN  IF n.lhs.k = "local" THEN write(b.cx, b.st, n.lhs.v)
      ELSE exprs(b.cx, operands(n.lhs), b.st)

(* The arms from the i-th on, each walked from a copy of st; ends are the   *)
(* states of those that complete.                                           *)
RECURSIVE switchArms(_, _, _, _, _)
switchArms(cx, arms, i, st, ends) ==
  IF i > Len(arms) THEN [cx |-> cx, ends |-> ends]
  ELSE LET r == stmt(cx, arms[i], st) IN
       switchArms(r.cx, arms, i + 1, st, IF r.alive THEN Append(ends, r.st) ELSE ends)

(* A switch expression: every arm that completes takes part in the join. *)
switchExpr(cx, n, st) ==
  LET r == switchArms(cx, n.rules, 1, st, <<>>) IN
  At(r.cx, IF r.ends = <<>> THEN st ELSE copyInto(st, joinAll(r.ends)))

(* A body of its own; what it concludes about captures stays with cx. *)
lambdaBody(inner, x) ==
  LET r == stmt(inner, x.body, newState(inner)) IN
  [r.cx.outer EXCEPT !.diags = r.cx.diags, !.unreachable = r.cx.unreachable,
                     !.captured = r.cx.captured]
lambda(cx, x, st) ==
  lambdaBody([declareParams(newCtx(<<>>, cx), x.params) EXCEPT
                !.diags = cx.diags, !.unreachable = cx.unreachable, !.captured = cx.captured], x)

exprNode(cx, x, st) ==
  CASE x.k \in {"nil", "const", "test", "val"} -> At(cx, st)
    [] x.k = "read"   -> read(cx, st, x.v)
    [] x.k = "assign" -> assignExpr(cx, x, st)
    [] x.k = "inc"    -> IF x.lhs.k # "local" THEN At(cx, st)
                         ELSE LET r == read(cx, st, x.lhs.v) IN write(r.cx, r.st, x.lhs.v)
    [] x.k \in {"bin", "cmp"} -> exprs(cx, <<x.x, x.y>>, st)
    [] x.k \in {"and", "or"} -> LET c == condition(cx, x, st) IN At(c.cx, c.st)
    [] x.k \in {"not", "cast"} -> expr(cx, x.x, st)
    [] x.k = "cond"   -> LET c == condition(cx, x.c, st)
                             a == expr(c.cx, x.x, c.t)
                             b == expr(a.cx, x.y, c.f)
                         IN  At(b.cx, copyInto(c.st, join(a.st, b.st)))
    [] x.k = "inst"   -> patternBindings(cx, st, x.v)
    [] x.k = "call"   -> LET r == exprs(cx, x.xs, st) IN At(callThrows(r.cx, x.throws), r.st)
    [] x.k = "lambda" -> At(lambda(cx, x, st), st)
    [] x.k = "switchx" -> switchExpr(cx, x, st)

(* The two states of a boolean, and the caller's as its leftmost operand    *)
(* left it.                                                                 *)
Cond(cx, st, t, f) == [cx |-> cx, st |-> st, t |-> t, f |-> f]

conditionNode(cx, x, st) ==
  CASE x.k = "not" -> LET c == condition(cx, x.x, st) IN Cond(c.cx, c.st, c.f, c.t)
    [] x.k = "and" -> LET l == condition(cx, x.x, st)
                          r == condition(l.cx, x.y, l.t)
                      IN  Cond(r.cx, l.st, r.t, join(l.f, r.f))
    [] x.k = "or"  -> LET l == condition(cx, x.x, st)
                          r == condition(l.cx, x.y, l.f)
                      IN  Cond(r.cx, l.st, join(l.t, r.t), r.f)
    [] x.k = "cond" -> LET c == condition(cx, x.c, st)
                           a == condition(c.cx, x.x, c.t)
                           b == condition(a.cx, x.y, c.f)
                       IN  Cond(b.cx, c.st, join(a.t, b.t), join(a.f, b.f))
    [] x.k = "inst" -> LET p == patternBindings(cx, st, x.v) IN Cond(p.cx, st, p.st, st)
    [] OTHER -> LET r == expr(cx, x, st) IN
         Cond(r.cx, r.st, IF isConstFalse(x) THEN fullyAssigned(r.cx, r.st) ELSE r.st,
                          IF isConstTrue(x) THEN fullyAssigned(r.cx, r.st) ELSE r.st)

-----------------------------------------------------------------------------
(* alive.go: statements *)

(* Once control is gone the rest is reported and walked on a copy. *)
RECURSIVE stmts(_, _, _, _)
stmts(cx, ss, st, alive) ==
  IF ss = <<>> THEN Done(cx, st, alive)
  ELSE IF alive THEN LET r == stmt(cx, Head(ss), st) IN stmts(r.cx, Tail(ss), r.st, r.alive)
  ELSE LET r == stmt([errorf(cx, "unreachable", Head(ss).k) EXCEPT
                         !.unreachable = @ \cup {Head(ss)}], Head(ss), st)
       IN  stmts(r.cx, Tail(ss), st, FALSE)
block(cx, b, st) == stmts(cx, b.stmts, st, TRUE)

localVars(cx, v, init, st) ==
  LET d == declare(cx, v, init.k = "nil")
      i == indexOf(d, v)
      g == grow(st, i)
      r == expr(d, init, g)
  IN  IF init.k = "nil"
      THEN At(d, Ret(st, [g EXCEPT !.da = @ \ {i}, !.du = @ \cup {i}]))
      ELSE At([r.cx EXCEPT !.writes = Append(@, v)], Ret(st, assign(r.st, i)))

ifStmt(cx, n, st) ==
  LET c == condition(cx, n.c, st)
      a == stmt(c.cx, n.s, c.t)
      b == stmt(a.cx, n.els, c.f)
  IN  IF n.els.k = "nil" THEN Done(a.cx, copyInto(c.st, join(a.st, c.f)), TRUE)
      ELSE Done(b.cx, CASE a.alive /\ b.alive -> copyInto(c.st, join(a.st, b.st))
                        [] a.alive /\ ~b.alive -> copyInto(c.st, a.st)
                        [] ~a.alive /\ b.alive -> copyInto(c.st, b.st)
                        [] OTHER -> c.st,
                a.alive \/ b.alive)

(* A break that leaves the statement: unlabelled outside any inner loop or  *)
(* switch, or labelled anywhere.                                            *)
RECURSIVE hasBreak(_, _)
hasBreak(s, depth) ==
  CASE s.k = "break" -> depth = 0 \/ s.l # NoLabel
    [] s.k = "block" -> \E i \in DOMAIN s.stmts : hasBreak(s.stmts[i], depth)
    [] s.k = "if" -> hasBreak(s.s, depth) \/ hasBreak(s.els, depth)
    [] s.k = "label" -> hasBreak(s.s, depth)
    [] s.k = "sync" -> hasBreak(s.b, depth)
    [] s.k = "try" -> \/ hasBreak(s.b, depth) \/ hasBreak(s.finally, depth)
                      \/ \E i \in DOMAIN s.catches : hasBreak(s.catches[i].b, depth)
    [] s.k \in {"while", "do", "for", "range"} -> hasBreak(s.s, depth + 1)
    [] s.k = "switch" ->
         \/ \E i \in DOMAIN s.rules : hasBreak(s.rules[i], depth + 1)
         \/ \E i \in DOMAIN s.groups : \E j \in DOMAIN s.groups[i] :
              hasBreak(s.groups[i][j], depth + 1)
    [] OTHER -> FALSE

(* The entry state of a loop body: narrowed until the body keeps it. *)
RECURSIVE Fixpoint(_, _, _, _)
Fixpoint(cx, body, post, entry) ==
  LET r    == stmt(cx, body, entry)
      p    == exprs(r.cx, post, r.st)
      next == join(entry, p.st)
  IN  IF next = entry THEN At(p.cx, entry) ELSE Fixpoint(p.cx, body, post, next)

whileStmt(cx, n, st) ==
  LET c    == condition(cx, n.c, st)
      fix  == Fixpoint(c.cx, n.s, <<>>, c.t)
      last == stmt(fix.cx, n.s, fix.st)
  IN  IF isConstTrue(n.c)
      THEN IF hasBreak(n.s, 0) THEN Done(last.cx, copyInto(c.st, fix.st), TRUE)
           ELSE Done(last.cx, c.st, FALSE)
      ELSE Done(last.cx, copyInto(c.st, join(c.st, c.f)), TRUE)

doStmt(cx, n, st) ==
  LET b   == stmt(cx, n.s, st)
      c   == condition(b.cx, n.c, b.st)
      fix == Fixpoint(c.cx, n.s, <<>>, c.st)
  IN  IF isConstTrue(n.c) /\ ~hasBreak(n.s, 0) THEN Done(fix.cx, c.st, FALSE)
      ELSE Done(fix.cx, copyInto(c.st, c.f), TRUE)

(* Mutant of forStmt: a break does not count as a way out. *)
forStmtNoBreak(cx, n, st) ==
  LET i    == stmts(cx, n.init, st, TRUE)
      c    == IF n.c.k = "nil" THEN Cond(i.cx, i.st, i.st, i.st) ELSE condition(i.cx, n.c, i.st)
      fix  == Fixpoint(c.cx, n.s, n.post, c.t)
      last == stmt(fix.cx, n.s, fix.st)
  IN  IF n.c.k = "nil" \/ isConstTrue(n.c) THEN Done(last.cx, c.st, FALSE)
      ELSE Done(last.cx, copyInto(c.st, c.f), TRUE)

forStmt(cx, n, st) ==
  LET i    == stmts(cx, n.init, st, TRUE)
      c    == IF n.c.k = "nil" THEN Cond(i.cx, i.st, i.st, i.st) ELSE condition(i.cx, n.c, i.st)
      fix  == Fixpoint(c.cx, n.s, n.post, c.t)
      last == stmt(fix.cx, n.s, fix.st)
      infinite == n.c.k = "nil" \/ isConstTrue(n.c)
  IN  IF infinite /\ ~hasBreak(n.s, 0) THEN Done(last.cx, c.st, FALSE)
      ELSE Done(last.cx, copyInto(c.st, c.f), TRUE)

(* The variable of an enhanced for has no initialiser in the tree. *)
rangeStmt(cx, n, st) ==
  LET d == localVars(cx, n.v, Nil, st)
      b == stmt(d.cx, n.s, d.st)
  IN  Done(b.cx, d.st, TRUE)

(* The statements of a colon group up to the first unreachable one. *)
RECURSIVE group(_, _, _, _)
group(cx, ss, st, alive) ==
  IF ss = <<>> THEN Done(cx, st, alive)
  ELSE IF alive THEN LET r == stmt(cx, Head(ss), st) IN group(r.cx, Tail(ss), r.st, r.alive)
  ELSE Done([errorf(cx, "unreachable", Head(ss).k) EXCEPT !.unreachable = @ \cup {Head(ss)}],
            st, FALSE)
RECURSIVE groups(_, _, _, _, _)
groups(cx, gs, i, st, ends) ==
  IF i > Len(gs) THEN [cx |-> cx, ends |-> ends]
  ELSE LET r == group(cx, gs[i], st, TRUE) IN
       groups(r.cx, gs, i + 1, st, IF r.alive THEN Append(ends, r.st) ELSE ends)

switchStmt(cx, n, st) ==
  LET a == switchArms(cx, n.rules, 1, st, <<>>)
      g == groups(a.cx, n.groups, 1, st, a.ends)
  IN  IF ~n.hasDefault THEN Done(g.cx, st, TRUE)
      ELSE Done(g.cx, IF g.ends = <<>> THEN st ELSE copyInto(st, joinAll(g.ends)), g.ends # <<>>)

-----------------------------------------------------------------------------
(* throws.go: try *)

(* The initialisers are walked before the layer of the try is pushed. *)
RECURSIVE resources(_, _, _)
resources(cx, res, st) ==
  IF res = <<>> THEN At(cx, st)
  ELSE LET r == localVars(cx, Head(res).v, CallExpr(Head(res).id, <<>>, Head(res).init), st)
       IN  resources(r.cx, Tail(res), r.st)

RECURSIVE closes(_, _)
closes(cx, res) ==
  IF res = <<>> THEN cx ELSE closes(closeThrows(cx, Head(res).throws), Tail(res))

(* A clause runs after any prefix of the body: it starts from st. *)
RECURSIVE catches(_, _, _, _, _)
catches(cx, cs, threw, st, ends) ==
  IF cs = <<>> THEN [cx |-> cx, ends |-> ends]
  ELSE LET d == declare(cx, Head(cs).v, FALSE)
           k == checkReachableCatch(d, Head(cs).types, threw)
           r == block(k, Head(cs).b, assign(st, indexOf(d, Head(cs).v)))
       IN  catches(r.cx, Tail(cs), threw, st, IF r.alive THEN Append(ends, r.st) ELSE ends)

RECURSIVE layerOf(_)
layerOf(cs) == IF cs = <<>> THEN <<>> ELSE Head(cs).types \o layerOf(Tail(cs))

(* Mutant of tryStmt: the clauses are walked with their own try still open. *)
tryStmtLayerKept(cx, n, st) ==
  LET layer == layerOf(n.catches)
      b     == block([cx EXCEPT !.caught = <<layer>> \o @, !.thrown = <<>>], n.b, st)
      c     == catches(b.cx, n.catches, b.cx.thrown, st, <<>>)
      ends  == IF b.alive THEN <<b.st>> \o c.ends ELSE c.ends
  IN  Done([c.cx EXCEPT !.caught = cx.caught], IF ends = <<>> THEN st ELSE copyInto(st, joinAll(ends)), ends # <<>>)

(* After the resources r: the body within the try's layer, the closes       *)
(* within it too, the clauses and the finally block outside it.             *)
tryFinally(n, r, out, ends) ==
  LET f == block(out, n.finally, r.st) IN
  IF n.finally.k # "nil" THEN Done(f.cx, copyInto(r.st, f.st), f.alive /\ ends # <<>>)
  ELSE Done(out, IF ends = <<>> THEN r.st ELSE copyInto(r.st, joinAll(ends)), ends # <<>>)
tryRest(n, r, b, threw, c) ==
  LET past(t) == ~Covered(t, layerOf(n.catches)) IN
  tryFinally(n, r, [c.cx EXCEPT !.thrown = @ \o SelectSeq(threw, past)],
             IF b.alive THEN <<b.st>> \o c.ends ELSE c.ends)
tryCatches(n, r, b, shut, threw) ==
  tryRest(n, r, b, threw, catches([shut EXCEPT !.caught = r.cx.caught, !.thrown = r.cx.thrown],
                                  n.catches, threw, r.st, <<>>))
tryCloses(n, r, b, shut) == tryCatches(n, r, b, shut, b.cx.thrown \o shut.thrown)
tryBody(n, r, b) == tryCloses(n, r, b, closes(b.cx, n.res))
tryResources(n, r) ==
  tryBody(n, r, block([r.cx EXCEPT !.caught = <<layerOf(n.catches)>> \o @, !.thrown = <<>>], n.b, r.st))
tryStmt(cx, n, st) == tryResources(n, resources(cx, n.res, st))

(* Every local declared without an initialiser, at a return. *)
checkBlankFinals(cx, st) ==
  [cx EXCEPT !.diags = @ \cup {<<"might not have been initialized", cx.order[i + 1]>> :
                                 i \in cx.blanks \ st.da}]

stmtNode(cx, s, st) ==
  CASE s.k = "block" -> block(cx, s, st)
    [] s.k \in {"nil", "empty", "super"} -> Done(cx, st, TRUE)
    [] s.k = "expr"  -> LET r == expr(cx, s.x, st) IN Done(r.cx, r.st, TRUE)
    [] s.k = "decl"  -> LET r == localVars(cx, s.v, s.init, st) IN Done(r.cx, r.st, TRUE)
    [] s.k = "label" -> LET r == stmt(cx, s.s, st) IN Done(r.cx, r.st, TRUE)
    [] s.k = "if"    -> ifStmt(cx, s, st)
    [] s.k = "while" -> whileStmt(cx, s, st)
    [] s.k = "do"    -> doStmt(cx, s, st)
    [] s.k = "for"   -> forStmt(cx, s, st)
    [] s.k = "range" -> rangeStmt(cx, s, st)
    [] s.k = "switch" -> switchStmt(cx, s, st)
    [] s.k \in {"break", "continue"} -> Done(cx, st, FALSE)
    [] s.k = "return" -> LET r == expr(cx, s.x, st) IN
                           Done(checkBlankFinals(r.cx, r.st), r.st, FALSE)
    [] s.k = "yield" -> LET r == expr(cx, s.x, st) IN Done(r.cx, r.st, FALSE)
    [] s.k = "throw" -> Done(raise(cx, s.t), st, FALSE)
    [] s.k = "sync"  -> block(cx, s.b, st)
    [] s.k = "assert" -> LET c == condition(cx, s.x, st) IN Done(c.cx, c.st, TRUE)
    [] s.k = "try"   -> tryStmt(cx, s, st)

walk(as, cx, n, st) == CASE as = "expr"      -> exprNode(cx, n, st)
                         [] as = "condition" -> conditionNode(cx, n, st)
                         [] as = "stmt"      -> stmtNode(cx, n, st)

(* One body: a method's, a constructor's or an initialiser's.  Only a       *)
(* method with a result must not complete.                                  *)
conclusions(cx) == [diags |-> cx.diags, unreachable |-> cx.unreachable, captured |-> cx.captured,
                    effectivelyFinal |-> EffectivelyFinal(cx)]
bodyEnd(m, r) ==
  conclusions(IF r.alive /\ m.result THEN errorf(r.cx, "missing return", "") ELSE r.cx)
bodyIn(cx, m) == bodyEnd(m, stmt(cx, m.body, newState(cx)))
methodBody(m) == bodyIn(declareParams(newCtx(m.throws, Nil), m.params), m)
=============================================================================
