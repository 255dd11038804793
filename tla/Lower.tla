--------------------------------- MODULE Lower ---------------------------------
(***************************************************************************)
(* lower: the walk that turns a checked body into calls of a CodeWriter.    *)
(*                                                                         *)
(* An emitter method is an operator from the emitter e to the emitter after *)
(* it; e.code is the sequence of writer calls so far, in the vocabulary of  *)
(* module CodeWriter with the instruction's meaning beside it (do, x).      *)
(* A panic of bug() sets e.bug.  Lambdas, switches and boxed types are not  *)
(* lowered here.                                                            *)
(***************************************************************************)
EXTENDS JavaTree, FiniteSets

-----------------------------------------------------------------------------
(* Writer calls *)

Ins(do, x, pops, pushes) ==
  [call |-> "Op", size |-> 1, pops |-> pops, pushes |-> pushes, slots |-> 0, ends |-> FALSE,
   do |-> do, x |-> x]
Ends(i)          == [i EXCEPT !.ends = TRUE]
Jump(do, x, l, pops) ==
  [call |-> "branch", op |-> IF do = "goto" THEN "goto" ELSE "if", l |-> l, pops |-> pops,
   do |-> do, x |-> x]
Goto(l)          == Jump("goto", "", l, 0)
IfZero(k, l)     == Jump("zero", k, l, 1)       \* ifeq and its kin
IfICmp(k, l)     == Jump("icmp", k, l, 2)
IfNull(l)        == Jump("null", "", l, 1)
MarkAt(l)        == [call |-> "Mark", l |-> l, do |-> "mark"]
TryCatch(s, e, h, types) ==
  [call |-> "TryCatch", start |-> s, end |-> e, handler |-> h, do |-> "mark", types |-> types]
AnyThrown == <<"Throwable">>                    \* catch type ""

Push(v)          == Ins("const", v, 0, 1)
Shuffle(op)      == CASE op = "dup"     -> Ins(op, "", 1, 2) [] op = "dup_x1"  -> Ins(op, "", 2, 3)
                      [] op = "dup_x2"  -> Ins(op, "", 3, 4) [] op = "dup2"    -> Ins(op, "", 2, 4)
                      [] op = "dup2_x1" -> Ins(op, "", 3, 5) [] op = "dup2_x2" -> Ins(op, "", 4, 6)
                      [] op = "pop"     -> Ins(op, "", 1, 0) [] op = "pop2"    -> Ins(op, "", 2, 0)
                      [] op = "swap"    -> Ins(op, "", 2, 2)
loadLocal(slot, t)      == Ins("load", [slot |-> slot, t |-> t], 0, Slots(t))
storeLocal(slot, t, v)  == Ins("store", [slot |-> slot, t |-> t, v |-> v], Slots(t), 0)
Scratch == "$"                                  \* a slot no variable of the source names
popValue(t)      == Shuffle(IF Slots(t) = 2 THEN "pop2" ELSE "pop")
dupValue(t)      == Shuffle(IF Slots(t) = 2 THEN "dup2" ELSE "dup")
Throw            == Ends(Ins("throw", "", 1, 0))
Return(t)        == Ends(Ins("return", t, IF t = "void" THEN 0 ELSE Slots(t), 0))

-----------------------------------------------------------------------------
(* The emitter, and its slot map (slot.go) *)

NewEmitter(next, of, result) ==
  [code |-> <<>>, alive |-> TRUE, bug |-> FALSE, lab |-> 0, next |-> next, of |-> of,
   frames |-> <<>>, finallys |-> <<>>, any |-> FALSE, result |-> result]

put(e, is)    == [e EXCEPT !.code = @ \o is]
bug(e)        == [e EXCEPT !.bug = TRUE]
fresh(e, n)   == [e EXCEPT !.lab = @ + n]
goto(e, l)    == [put(e, <<Goto(l)>>) EXCEPT !.alive = FALSE]
mark(e, l)    == [put(e, <<MarkAt(l)>>) EXCEPT !.alive = TRUE]
markAt(e, l)  == put(e, <<MarkAt(l)>>)
dead(e)       == [e EXCEPT !.alive = FALSE]

reserve(e, n)     == [e EXCEPT !.next = @ + n]
declare(e, v)     == [reserve(e, Slots(VarType(v))) EXCEPT !.of = (v :> e.next) @@ @]
release(e, m)     == [e EXCEPT !.next = m]

-----------------------------------------------------------------------------
(* convert.go and item.go *)

Conv(from, to) == Ins("conv", [from |-> from, to |-> to], Slots(from), Slots(to))

primitive(from, to) ==
  LET src == IF from \in SubInt \cup {"boolean"} THEN "int" ELSE from IN
  IF from = to \/ (src = "int" /\ to \in {"int", "boolean"}) THEN <<>>
  ELSE IF src # "int" /\ to \in SubInt THEN <<Conv(src, "int"), Conv("int", to)>>
  ELSE <<Conv(src, to)>>
convert(e, from, to) == put(e, primitive(from, to))

(* The words under the value: none, an objectref, an arrayref and an index. *)
AddrWords(lhs) == CASE lhs.k = "field" -> 1 [] lhs.k = "index" -> 2 [] OTHER -> 0
dupAddr(lhs) == CASE lhs.k = "field" -> <<Shuffle("dup")>>
                  [] lhs.k = "index" -> <<Shuffle("dup2")>>
                  [] OTHER -> <<>>
load(e, lhs) == IF lhs.k = "local" THEN <<loadLocal(e.of[lhs.v], lhs.t)>>
                ELSE <<Ins("get", lhs, AddrWords(lhs), Slots(lhs.t))>>
store(e, lhs) == IF lhs.k = "local" THEN <<storeLocal(e.of[lhs.v], lhs.t, lhs.v)>>
                 ELSE <<Ins("put", lhs, AddrWords(lhs) + Slots(lhs.t), 0)>>

stash(lhs) ==
  LET wide == Slots(lhs.t) = 2 IN
  CASE lhs.k = "field" -> <<Shuffle(IF wide THEN "dup2_x1" ELSE "dup_x1")>>
    [] lhs.k = "index" -> <<Shuffle(IF wide THEN "dup2_x2" ELSE "dup_x2")>>
    [] OTHER -> <<dupValue(lhs.t)>>

-----------------------------------------------------------------------------
(* expr.go and cond.go *)

arithOp(op, t) == Ins("arith", [op |-> op, t |-> t], 2 * Slots(t), Slots(t))
shiftOp(op, t) == Ins("arith", [op |-> op, t |-> t], Slots(t) + 1, Slots(t))
invert(k) == CASE k = "==" -> "!=" [] k = "!=" -> "==" [] k = "<" -> ">="
               [] k = ">=" -> "<" [] k = ">" -> "<=" [] k = "<=" -> ">"
(* The g variant answers 1 for a NaN, the l variant -1. *)
cmpOp(t, k) == Ins("cmp", [t |-> t, nan |-> IF k \in {">", ">="} THEN "gt" ELSE "lt"],
                   2 * Slots(t), 1)

(* The walk over a node: as a statement, as an expression, or as a          *)
(* condition that jumps.  Every operator below reaches the parts of its     *)
(* node through it.                                                         *)
RECURSIVE walk(_, _, _, _, _)
stmt(e, s)               == walk("stmt", e, s, 0, FALSE)
expr(e, x)               == walk("expr", e, x, 0, FALSE)
cond(e, x, target, when) == walk("cond", e, x, target, when)

exprAs(e, x, want) == convert(expr(e, x), TypeOf(x), want)

RECURSIVE args(_, _)
args(e, xs) == IF xs = <<>> THEN e ELSE args(exprAs(e, Head(xs), "int"), Tail(xs))

lvalue(e, lhs) == CASE lhs.k = "field" -> expr(e, lhs.x)
                    [] lhs.k = "index" -> exprAs(expr(e, lhs.x), lhs.y, "int")
                    [] OTHER -> e

(* The old value on top of its address, and a value stored, with a copy of  *)
(* it below the address if it is wanted.                                    *)
loaded(e, lhs) == put(e, dupAddr(lhs) \o load(e, lhs))
stored(e, lhs, value) == put(e, (IF value THEN stash(lhs) ELSE <<>>) \o store(e, lhs))

compound(e, n, t, p) ==
  IF IsShift(n.op) THEN put(exprAs(e, n.x, "int"), <<shiftOp(n.op, t)>>)
  ELSE convert(put(exprAs(convert(e, t, p), n.x, p), <<arithOp(n.op, p)>>), p, t)
assignAt(at, n, value) ==
  stored(IF n.op = "=" THEN exprAs(at, n.x, n.lhs.t)
         ELSE compound(loaded(at, n.lhs), n, n.lhs.t, PromoteBinary(n.lhs.t, TypeOf(n.x))), n.lhs, value)
assign(e, n, value) == assignAt(lvalue(e, n.lhs), n, value)

simpleIntLocal(lhs) == lhs.k = "local" /\ lhs.t = "int"

addOne(e, t, p) ==
  convert(put(convert(e, t, p),
              <<Ins("const", Convert("int", p, Leaf("1")), 0, Slots(p)), arithOp("add", p)>>), p, t)
iinc(e, n, slot, value) ==
  LET read == <<loadLocal(slot, "int")>> IN
  put(e, (IF value /\ n.postfix THEN read ELSE <<>>)
         \o <<Ins("iinc", [slot |-> slot, v |-> n.lhs.v], 0, 0)>>
         \o (IF value /\ ~n.postfix THEN read ELSE <<>>))
incdec(e, n, value) ==
  LET old  == loaded(lvalue(e, n.lhs), n.lhs)
      kept == IF value /\ n.postfix THEN put(old, stash(n.lhs)) ELSE old
  IN  IF simpleIntLocal(n.lhs) THEN iinc(e, n, e.of[n.lhs.v], value)
      ELSE stored(addOne(kept, n.lhs.t, Promote(n.lhs.t)), n.lhs, value /\ ~n.postfix)

compare(e, n, target, when) ==
  LET p    == PromoteBinary(TypeOf(n.x), TypeOf(n.y))
      both == exprAs(exprAs(e, n.x, p), n.y, p)
      k    == IF when THEN n.op ELSE invert(n.op)
  IN  IF p = "int" THEN put(both, <<IfICmp(k, target)>>)
      ELSE put(both, <<cmpOp(p, k), IfZero(k, target)>>)

condAnd(e, n, target, when) ==
  LET skip == e.lab + 1 IN
  IF when THEN markAt(cond(cond(fresh(e, 1), n.x, skip, FALSE), n.y, target, TRUE), skip)
  ELSE cond(cond(e, n.x, target, FALSE), n.y, target, FALSE)
condOr(e, n, target, when) ==
  LET skip == e.lab + 1 IN
  IF when THEN cond(cond(e, n.x, target, TRUE), n.y, target, TRUE)
  ELSE markAt(cond(cond(fresh(e, 1), n.x, skip, TRUE), n.y, target, FALSE), skip)

branchZero(e, target, when) == put(e, <<IfZero(IF when THEN "!=" ELSE "==", target)>>)

condNode(e, x, target, when) ==
  CASE Folded(x) # {} -> IF Folded(x) = {when} THEN put(e, <<Goto(target)>>) ELSE e
    [] Folded(x) = {} /\ x.k = "not"  -> cond(e, x.x, target, ~when)
    [] Folded(x) = {} /\ x.k = "and"  -> condAnd(e, x, target, when)
    [] Folded(x) = {} /\ x.k = "or"   -> condOr(e, x, target, when)
    [] Folded(x) = {} /\ x.k = "cmp"  -> compare(e, x, target, when)
    [] Folded(x) = {} /\ x.k = "inst" -> bug(e)
    [] OTHER -> branchZero(expr(e, x), target, when)

condValue(e, x) ==
  LET t == e.lab + 1
      done == e.lab + 3
  IN  put(cond(fresh(e, 3), x, t, TRUE),
          <<Push(Truth(FALSE)), Goto(done), MarkAt(t), Push(Truth(TRUE)), MarkAt(done)>>)

condExpr(e, n) ==
  LET els  == e.lab + 1
      done == e.lab + 2
      then == exprAs(cond(fresh(e, 2), n.c, els, FALSE), n.x, TypeOf(n))
  IN  mark(exprAs(mark(goto(then, done), els), n.y, TypeOf(n)), done)

(* A type pattern tests and then stores. *)
instanceOf(e, n) ==
  LET no    == e.lab + 1
      done  == e.lab + 2
      slot  == e.next
      test  == put(declare(fresh(e, 2), n.v),
                   <<Push(Leaf("obj")), Shuffle("dup"), Ins("test", n.id, 1, 1), IfZero("==", no),
                     storeLocal(slot, VarType(n.v), n.v), Push(Truth(TRUE))>>)
  IN  mark(put(mark(goto(test, done), no), <<Shuffle("pop"), Push(Truth(FALSE))>>), done)

exprNode(e, x) ==
  CASE Folded(x) # {} -> put(e, <<Push(Truth(TRUE \in Folded(x)))>>)
    [] x.k = "test"   -> put(e, <<Ins("test", x.id, 0, 1)>>)
    [] x.k = "val"    -> put(e, <<Ins("val", [id |-> x.id, t |-> x.t], 0, Slots(x.t))>>)
    [] x.k = "read"   -> put(e, <<loadLocal(e.of[x.v], VarType(x.v))>>)
    [] x.k = "bin"    -> LET t == TypeOf(x) IN
                         IF IsShift(x.op)
                         THEN put(exprAs(exprAs(e, x.x, t), x.y, "int"), <<shiftOp(x.op, t)>>)
                         ELSE put(exprAs(exprAs(e, x.x, t), x.y, t), <<arithOp(x.op, t)>>)
    [] x.k \in {"cmp", "and", "or", "not"} /\ Folded(x) = {} -> condValue(e, x)
    [] x.k = "cast"   -> exprAs(e, x.x, x.t)
    [] x.k = "call"   -> put(args(e, x.xs),
                             <<Ins("call", [id |-> x.id, n |-> Len(x.xs)], Len(x.xs), 1)>>)
    [] x.k = "assign" -> assign(e, x, TRUE)
    [] x.k = "inc"    -> incdec(e, x, TRUE)
    [] x.k = "cond"   -> condExpr(e, x)
    [] x.k = "inst"   -> instanceOf(e, x)
    [] x.k \in {"lambda", "switchx"} -> bug(e)

(* Mutant of exprStmt: the value of a discarded expression stays. *)
exprStmtKeeps(e, x) == expr(e, x)

exprStmt(e, x) == CASE x.k = "assign" -> assign(e, x, FALSE)
                    [] x.k = "inc"    -> incdec(e, x, FALSE)
                    [] OTHER -> put(expr(e, x), <<popValue(TypeOf(x))>>)

-----------------------------------------------------------------------------
(* stmt.go: statements *)

RECURSIVE stmts(_, _)
stmts(e, ss) == IF ss = <<>> THEN e ELSE stmts(stmt(e, Head(ss)), Tail(ss))
block(e, b) == IF b.k = "nil" THEN e ELSE release(stmts(e, b.stmts), e.next)

declStmt(e, n) ==
  LET d == declare(e, n.v)
      t == VarType(n.v)
  IN  IF n.init.k = "nil" THEN d
      ELSE put(exprAs(d, n.init, t), <<storeLocal(d.of[n.v], t, n.v)>>)

ifElse(n, l, then) ==
  LET skip == IF then.alive THEN goto(then, l + 2) ELSE then
      else == stmt(mark(skip, l + 1), n.els)
  IN  IF n.els.k = "nil" THEN mark(then, l + 1)
      ELSE IF else.alive \/ then.alive THEN mark(else, l + 2) ELSE else
ifStmt(e, n) == ifElse(n, e.lab, stmt(cond(fresh(e, 2), n.c, e.lab + 1, FALSE), n.s))

(* A frame: where break and continue of the statement go, and how many      *)
(* finally blocks were open around it.                                      *)
pushFrame(e, label, brk, cont, hasCont) ==
  [e EXCEPT !.frames = Append(@, [label |-> label, brk |-> brk, cont |-> cont,
                                  hasCont |-> hasCont, finallyTop |-> Len(e.finallys)])]
popFrame(e) == [e EXCEPT !.frames = SubSeq(@, 1, Len(@) - 1)]
(* A loop's body within its frame; the labels are top, cont and brk. *)
body(e, label, l, s) == popFrame(stmt(pushFrame(e, label, l + 3, l + 2, TRUE), s))
goBack(e, top) == IF e.alive THEN goto(e, top) ELSE e

whileStmt(e, n, label) ==
  LET l == e.lab
      b == body(mark(goto(fresh(e, 3), l + 2), l + 1), label, l, n.s)
  IN  mark(cond(mark(b, l + 2), n.c, l + 1, TRUE), l + 3)

doStmt(e, n, label) ==
  LET l == e.lab
      b == body(mark(fresh(e, 3), l + 1), label, l, n.s)
  IN  mark(cond(mark(b, l + 2), n.c, l + 1, TRUE), l + 3)

RECURSIVE posts(_, _)
posts(e, xs) == IF xs = <<>> THEN e ELSE posts(exprStmt(e, Head(xs)), Tail(xs))

forLoop(i, n, label, l) ==
  LET t == mark(fresh(i, 3), l + 1)
      c == IF n.c.k = "nil" THEN t ELSE cond(t, n.c, l + 3, FALSE)
      b == body(c, label, l, n.s)
  IN  mark(goBack(posts(mark(b, l + 2), n.post), l + 1), l + 3)
forInit(i, n, label) == forLoop(i, n, label, i.lab)
forStmt(e, n, label) == release(forInit(stmts(e, n.init), n, label), e.next)

(* Over an Iterator: hasNext decides, next yields the element. *)
rangeIterator(e, n, label) ==
  LET it == e.next
      l  == e.lab
      x  == put(reserve(fresh(e, 3), 1), <<Push(Leaf("iter")), storeLocal(it, "int", Scratch)>>)
      t  == put(mark(x, l + 1), <<loadLocal(it, "int"), Ins("next", n.id, 1, 1), IfZero("==", l + 3)>>)
      d  == declare(t, n.v)
      v  == put(d, <<loadLocal(it, "int"), Ins("element", n.id, 1, Slots(VarType(n.v))),
                     storeLocal(d.of[n.v], VarType(n.v), n.v)>>)
      b  == body(v, label, l, n.s)
  IN  release(mark(goBack(mark(b, l + 2), l + 1), l + 3), e.next)

loop(e, n, label) == CASE n.k = "while" -> whileStmt(e, n, label)
                       [] n.k = "do"    -> doStmt(e, n, label)
                       [] n.k = "for"   -> forStmt(e, n, label)
                       [] n.k = "range" -> rangeIterator(e, n, label)
labeled(e, n) ==
  IF n.s.k \in {"while", "do", "for", "range"} THEN loop(e, n.s, n.l)
  ELSE mark(popFrame(stmt(pushFrame(fresh(e, 1), n.l, e.lab + 1, 0, FALSE), n.s)), e.lab + 1)

(* A finally block does not re-enter itself: none is open while it runs. *)
inlineFinally(e, b) == [block([e EXCEPT !.finallys = <<>>], b) EXCEPT !.finallys = e.finallys]

(* Mutant of runFinallys: the outermost first. *)
RECURSIVE runFinallysOutward(_, _)
runFinallysOutward(e, down) ==
  IF down >= Len(e.finallys) THEN e
  ELSE runFinallysOutward(inlineFinally(e, e.finallys[down + 1]), down + 1)

RECURSIVE runFrom(_, _, _)
runFrom(e, i, down) == IF i <= down THEN e ELSE runFrom(inlineFinally(e, e.finallys[i]), i - 1, down)
runFinallys(e, down) == runFrom(e, Len(e.finallys), down)

(* A value is parked in a slot while the finally blocks run. *)
parked(x, t) == put(reserve(x, Slots(t)), <<storeLocal(x.next, t, Scratch)>>)
returnValue(x, t) ==
  IF x.finallys = <<>> THEN put(x, <<Return(t)>>)
  ELSE put(runFinallys(parked(x, t), 0), <<loadLocal(x.next, t), Return(t)>>)
returnStmt(e, n) == dead(IF n.x.k = "nil" THEN put(runFinallys(e, 0), <<Return("void")>>)
                         ELSE returnValue(exprAs(e, n.x, e.result), e.result))

(* The innermost frame the label or the continue can mean. *)
jump(e, label, isCont) ==
  LET fits == {i \in DOMAIN e.frames : /\ label = NoLabel \/ e.frames[i].label = label
                                       /\ isCont => e.frames[i].hasCont}
      f    == e.frames[CHOOSE i \in fits : \A j \in fits : j <= i]
  IN  IF fits = {} THEN bug(e)
      ELSE goto(runFinallys(e, f.finallyTop), IF isCont THEN f.cont ELSE f.brk)

syncStmt(e, n) ==
  LET mon == e.next
      l   == e.lab       \* start, end, handler, done
      free == <<loadLocal(mon, "int"), Ins("unlock", n.id, 1, 0)>>
      x   == put(reserve(fresh(e, 4), 1),
                 <<Push(Leaf("mon")), Shuffle("dup"), storeLocal(mon, "int", Scratch),
                   Ins("lock", n.id, 1, 0)>>)
      b   == block(mark(x, l + 1), n.b)
      ok  == IF b.alive THEN goto(put(b, free), l + 4) ELSE b
      h   == put(mark(put(markAt(ok, l + 2), <<TryCatch(l + 1, l + 2, l + 3, AnyThrown)>>), l + 3),
                 free \o <<Throw>>)
  IN  release(mark(dead(h), l + 4), e.next)

(* The clauses from the i-th on, each leaving through its own finally copy. *)
RECURSIVE catches(_, _, _, _)
catches(e, n, i, l) ==
  IF i > Len(n.catches) THEN e
  ELSE LET cl == n.catches[i]
           h  == e.lab + 1
           at == mark(put(fresh(e, 1), <<TryCatch(l + 1, l + 2, h, cl.types)>>), h)
           d  == declare(at, cl.v)
           b  == block(put(d, <<storeLocal(d.of[cl.v], "int", cl.v)>>), cl.b)
           f  == IF b.alive THEN [goto(inlineFinally(b, n.finally), l + 3) EXCEPT !.any = TRUE] ELSE b
       IN  catches(release(f, e.next), n, i + 1, l)

catchAll(e, n, l) ==
  LET h == e.lab + 1
      x == mark(put(fresh(e, 1), <<TryCatch(l + 1, l + 2, h, AnyThrown)>>), h)
      f == inlineFinally(put(reserve(x, 1), <<storeLocal(x.next, "int", Scratch)>>), n.finally)
  IN  release(dead(put(f, <<loadLocal(x.next, "int"), Throw>>)), e.next)

(* The labels are start, end and done; any says whether one leads to done. *)
tryDone(e, l, f) ==
  LET out == [f EXCEPT !.any = e.any] IN IF f.any THEN mark(out, l + 3) ELSE out
tryCatches(e, n, l, b) ==
  LET ok   == IF b.alive THEN goto(inlineFinally(b, n.finally), l + 3) ELSE b
      c    == catches([markAt(ok, l + 2) EXCEPT !.any = b.alive], n, 1, l)
      shut == [c EXCEPT !.finallys = e.finallys]
  IN  tryDone(e, l, IF n.finally.k = "nil" THEN shut ELSE catchAll(shut, n, l))
tryFinally(e, n, l) ==
  LET open == IF n.finally.k = "nil" THEN e.finallys ELSE Append(e.finallys, n.finally) IN
  tryCatches(e, n, l, block(mark([fresh(e, 3) EXCEPT !.finallys = open], l + 1), n.b))

(* A throw from close is suppressed if an exception is on its way. *)
closeResource(e, res, primary, id) ==
  LET l     == e.lab      \* skip, noPrimary, after, s, en, h
      close == <<loadLocal(res, "int"), Ins("close", id, 1, 0)>>
      test  == put(fresh(e, 6), <<loadLocal(res, "int"), IfNull(l + 1),
                                  loadLocal(primary, "int"), IfNull(l + 2)>>)
      shut  == markAt(goto(put(mark(test, l + 4), close), l + 3), l + 5)
      h     == mark(put(shut, <<TryCatch(l + 4, l + 5, l + 6, AnyThrown)>>), l + 6)
      supp  == goto(put(h, <<loadLocal(primary, "int"), Shuffle("swap"),
                             Ins("suppress", "", 2, 0)>>), l + 3)
  IN  mark(mark(put(mark(supp, l + 2), close), l + 3), l + 1)

(* The labels of a resource are start, end, done and h. *)
RECURSIVE resource(_, _, _)
resourceOpen(d, r, l) ==
  mark(put(reserve(fresh(d, 4), 1),
           <<Ins("call", [id |-> r.id, n |-> 0], 0, 1), storeLocal(d.of[r.v], "int", r.v),
             Push(Leaf("null")), storeLocal(d.next, "int", Scratch)>>), l + 1)
resourceEnd(d, r, l, b) ==
  LET ok   == IF b.alive THEN goto(closeResource(b, d.of[r.v], d.next, r.id), l + 3) ELSE b
      h    == mark(put(markAt(ok, l + 2), <<TryCatch(l + 1, l + 2, l + 4, AnyThrown)>>), l + 4)
      c    == closeResource(put(h, <<storeLocal(d.next, "int", Scratch)>>), d.of[r.v], d.next, r.id)
      out  == dead(put(c, <<loadLocal(d.next, "int"), Throw>>))
  IN  IF b.alive THEN mark(out, l + 3) ELSE out
resourceBody(d, n, i) ==
  resourceEnd(d, n.res[i], d.lab, resource(resourceOpen(d, n.res[i], d.lab), n, i + 1))
resource(e, n, i) ==
  IF i > Len(n.res) THEN stmt(e, [n EXCEPT !.res = <<>>])
  ELSE release(resourceBody(declare(e, n.res[i].v), n, i), e.next)

tryStmt(e, n) == IF n.res # <<>> THEN resource(e, n, 1) ELSE tryFinally(e, n, e.lab)

assertStmt(e, n) ==
  LET skip == e.lab + 1
      g    == put(fresh(e, 1), <<Ins("disabled", "assert", 0, 1), IfZero("!=", skip)>>)
  IN  mark(put(cond(g, n.x, skip, TRUE), <<Push(Leaf("AE")), Throw>>), skip)

constructorCall(e, n) == put(e, <<Ins("call", [id |-> n.call, n |-> 0], 0, 0)>>)

stmtNode(e, s) ==
  IF ~e.alive THEN e ELSE
  CASE s.k = "block" -> block(e, s)
    [] s.k \in {"nil", "empty"} -> e
    [] s.k = "expr"  -> exprStmt(e, s.x)
    [] s.k = "decl"  -> declStmt(e, s)
    [] s.k = "if"    -> ifStmt(e, s)
    [] s.k \in {"while", "do", "for", "range"} -> loop(e, s, NoLabel)
    [] s.k = "return" -> returnStmt(e, s)
    [] s.k \in {"break", "continue"} -> jump(e, s.l, s.k = "continue")
    [] s.k = "label" -> labeled(e, s)
    [] s.k = "throw" -> dead(put(e, <<Push(Leaf(s.t)), Throw>>))
    [] s.k = "sync"  -> syncStmt(e, s)
    [] s.k = "try"   -> tryStmt(e, s)
    [] s.k = "assert" -> assertStmt(e, s)
    [] s.k = "super" -> constructorCall(e, s)
    [] s.k \in {"switch", "yield"} -> bug(e)

walk(as, e, n, target, when) == CASE as = "stmt" -> stmtNode(e, n)
                                  [] as = "expr" -> exprNode(e, n)
                                  [] as = "cond" -> condNode(e, n, target, when)

-----------------------------------------------------------------------------
(* declare.go: what a class declares, and the bodies that come of it.  A    *)
(* member is a field with an initialiser, an initialiser block, a method or *)
(* a constructor.                                                           *)

Field(static, s)  == [k |-> "field", static |-> static, s |-> s]
Initializer(static, b) == [k |-> "init", static |-> static, s |-> b]
Method(m)         == [k |-> "method", m |-> m]
Constructor(m)    == [k |-> "ctor", m |-> m]
ConstructorCall(kind) == [k |-> "super", call |-> kind]

Inits(class, static) ==
  LET mine(d) == d.k \in {"field", "init"} /\ d.static = static
      picked  == SelectSeq(class, mine)
  IN  [i \in 1..Len(picked) |-> picked[i].s]

(* The explicit call and the statements from behind it. *)
explicitCall(b) ==
  LET at == {i \in DOMAIN b.stmts : b.stmts[i].k = "super"} IN
  IF at = {} THEN [call |-> "super", rest |-> b.stmts]
  ELSE LET i == CHOOSE i \in at : \A j \in at : i <= j IN
       [call |-> b.stmts[i].call, rest |-> SubSeq(b.stmts, i + 1, Len(b.stmts))]

Pending(name, m, ss) == [name |-> name, params |-> m.params, result |-> m.result, stmts |-> ss]
NoMethod == [params |-> <<>>, result |-> FALSE, body |-> Block(<<>>)]

(* The explicit or implicit call, the initialisers, the rest of the body. *)
emitCtor(call, inits, rest) == <<ConstructorCall(call)>> \o inits \o rest

(* The initialisers belong to a constructor unless it chains to this(...). *)
declareCtor(class, m) ==
  LET x == explicitCall(m.body) IN
  Pending("<init>", m, emitCtor(x.call, IF x.call = "super" THEN Inits(class, FALSE) ELSE <<>>, x.rest))

RECURSIVE declareMembers(_, _)
declareMembers(class, rest) ==
  IF rest = <<>> THEN <<>>
  ELSE (CASE Head(rest).k = "method" -> <<Pending("m", Head(rest).m, Head(rest).m.body.stmts)>>
          [] Head(rest).k = "ctor"   -> <<declareCtor(class, Head(rest).m)>>
          [] OTHER -> <<>>) \o declareMembers(class, Tail(rest))

declareClass(class) ==
  LET hasCtor == \E i \in DOMAIN class : class[i].k = "ctor"
      statics == Inits(class, TRUE)
  IN  declareMembers(class, class)
      \o (IF hasCtor THEN <<>> ELSE <<declareCtor(class, NoMethod)>>)
      \o (IF statics = <<>> THEN <<>> ELSE <<Pending("<clinit>", NoMethod, statics)>>)

(* The parameters' slots come first, after this. *)
RECURSIVE declareParams(_, _)
declareParams(e, ps) == IF ps = <<>> THEN e ELSE declareParams(declare(e, Head(ps)), Tail(ps))
slotMap(p) == declareParams(NewEmitter(IF p.name = "<clinit>" THEN 0 ELSE 1, <<>>,
                                       IF p.result THEN "int" ELSE "void"), p.params)

finish(p, e) == IF e.alive \/ p.name = "<clinit>" THEN put(e, <<Return("void")>>) ELSE e
emitBody(p) == finish(p, stmts(slotMap(p), p.stmts))
=============================================================================
