-------------------------------- MODULE Compile --------------------------------
(***************************************************************************)
(* One body through the back half of the compiler: flow's verdict, lower's  *)
(* code, the code writer's verdict on it, and then an execution of the code *)
(* by a virtual machine next to one of the source, on the same outcomes.    *)
(***************************************************************************)
EXTENDS Flow

CONSTANTS
  Bodies,        \* the classes that are compiled, with the body looked at
  MayThrow(_, _),   \* what a call or a close can throw at run time
  MaxLabels,     \* bound: labels in one body
  MaxSteps,      \* bound: 2^MaxSteps instructions of an execution
  MaxTape        \* bound: outcomes of calls and tests in one execution

VARIABLES
  prog,    \* the class and the index of the body in it
  phase,   \* "attributed", "checked", "rejected", "emitted", "refused"
  fl,      \* flow's result for the body
  code,    \* the writer calls lower made
  ref,     \* the source, executed on the outcomes so far
  mac      \* the code, executed on the same outcomes

vars == <<prog, phase, fl, code, ref, mac>>

L == INSTANCE Lower
J == INSTANCE Machine
W == INSTANCE CodeWriter WITH
       Label <- 1..MaxLabels, Fragment <- {}, ShortMax <- 32767, MaxCodeLength <- 65535,
       MaxStack <- 65535, MaxLocals <- 65535, ArgSlots <- 0, maxReplays <- 10, MaxBody <- 0,
       Continues <- LAMBDA b, f : FALSE, body <- code, pos <- 1, pass <- 0, widen <- {},
       c <- fl, trace <- <<>>, status <- phase, err <- "none", method <- fl

None == [k |-> "none"]

Method(p)  == p.class[p.which].m
Outcomes(ask) == CASE ask.e \in {"test", "next", "disabled"} -> {"T", "F"}
                   [] ask.e = "cmp" -> Orders(ask.id)
                   [] ask.e = "tag" -> {"1", "2", "none"}
                   [] OTHER -> {"ok"} \cup MayThrow(ask.e, ask.id)

(* What the body means: a constructor calls another one or super, then      *)
(* runs the initialisers unless the other one did, then its own statements. *)
Meaning(p) ==
  LET m       == Method(p)
      isCtor  == p.class[p.which].k = "ctor"
      written == \E i \in DOMAIN m.body.stmts : m.body.stmts[i].k = "super"
      call    == IF written THEN m.body.stmts[1].call ELSE "super"
      rest    == IF written THEN Tail(m.body.stmts) ELSE m.body.stmts
      inits   == [i \in DOMAIN p.class |->
                    IF p.class[i].k \in {"field", "init"} /\ ~p.class[i].static
                    THEN <<p.class[i].s>> ELSE <<>>]
      Flat[i \in 0..Len(inits)] == IF i = 0 THEN <<>> ELSE Flat[i - 1] \o inits[i]
  IN  IF ~isCtor THEN m.body
      ELSE Block(<<ExprStmt(CallExpr(call, <<>>, <<>>))>>
                 \o (IF call = "super" THEN Flat[Len(inits)] ELSE <<>>) \o rest)

(* The writer after the calls; it keeps its first error. *)
RECURSIVE Written(_, _)
Written(calls, w) ==
  LET mid  == Len(calls) \div 2
      half == Written(SubSeq(calls, 1, mid), w)
  IN  CASE Len(calls) = 0 -> w
        [] Len(calls) = 1 -> W!Apply(w, calls[1])
        [] OTHER -> IF half.err # "none" THEN half
                    ELSE Written(SubSeq(calls, mid + 1, Len(calls)), half)

Init ==
  /\ prog \in Bodies /\ phase = "attributed"
  /\ fl = None /\ code = <<>> /\ ref = None /\ mac = None

(* flow.Check on the body; any diagnostic stops the unit before lower. *)
Check ==
  /\ phase = "attributed"
  /\ fl' = methodBody(Method(prog))
  /\ phase' = IF fl'.diags = {} THEN "checked" ELSE "rejected"
  /\ UNCHANGED <<prog, code, ref, mac>>

(* The pending body of the class that stands for the chosen member. *)
Ordinal(p) == Cardinality({i \in 1..p.which : p.class[i].k \in {"method", "ctor"}})
Pending(p) == L!declareClass(p.class)[Ordinal(p)]

Lower ==
  /\ phase = "checked"
  /\ \E e \in {L!emitBody(Pending(prog))} : \E w \in {Written(e.code, W!NewWriter)} :
         /\ code' = e.code
         /\ phase' = IF e.bug THEN "panicked"
                     ELSE IF w.err # "none" \/ w.reachable \/ W!UnplacedBranch(w)
                     THEN "refused" ELSE "emitted"
  /\ UNCHANGED <<prog, fl, ref, mac>>

SlotsOf(p) == LET e == L!slotMap(Pending(p)) IN
  [s \in {e.of[v] : v \in DOMAIN e.of} |->
     LET v == CHOOSE v \in DOMAIN e.of : e.of[v] = s IN [v |-> v, x |-> Leaf(v)]]

Executed(tape) ==
  /\ ref' = Run(Meaning(prog), Start(tape))
  /\ mac' = IF phase # "panicked" THEN J!Execute(code, SlotsOf(prog), tape) ELSE None

(* A caller runs the method; then every call, test and comparison has some  *)
(* outcome.  A body lower could not emit is still executed as source.       *)
Call ==
  /\ phase \in {"emitted", "refused", "panicked"} /\ ref = None
  /\ Executed(<<>>)
  /\ UNCHANGED <<prog, phase, fl, code>>

Step ==
  /\ ref # None
  /\ Stops(ref) /\ Len(Taped(ref)) < MaxTape
  /\ \E o \in Outcomes(ref.ask) : Executed(Append(Taped(ref), o))
  /\ UNCHANGED <<prog, phase, fl, code>>

Next == Check \/ Lower \/ Call \/ Step
Spec == Init /\ [][Next]_vars
-----------------------------------------------------------------------------
(* The trees under a tree, and the breaks that leave a statement through    *)
(* its label, or without one.                                               *)

LoopKinds == {"while", "do", "for", "range"}

Parts(n) ==
  CASE n.k \in {"nil", "const", "test", "val", "read", "empty", "super", "break", "continue", "throw"} -> {}
    [] n.k \in {"cast", "not", "expr", "return", "yield", "assert"} -> {n.x}
    [] n.k \in {"bin", "cmp", "and", "or"} -> {n.x, n.y}
    [] n.k = "assign" -> {n.x} \cup Range(operands(n.lhs))
    [] n.k = "inc"    -> Range(operands(n.lhs))
    [] n.k = "call"   -> Range(n.xs)
    [] n.k = "cond"   -> {n.c, n.x, n.y}
    [] n.k = "inst"   -> {}
    [] n.k = "lambda" -> {n.body}
    [] n.k = "switchx" -> Range(n.rules)
    [] n.k = "block"  -> Range(n.stmts)
    [] n.k = "decl"   -> {n.init}
    [] n.k \in {"label", "range"} -> {n.s}
    [] n.k = "if"     -> {n.c, n.s, n.els}
    [] n.k \in {"while", "do"} -> {n.c, n.s}
    [] n.k = "for"    -> {n.c, n.s} \cup Range(n.init) \cup Range(n.post)
    [] n.k = "switch" -> Range(n.rules) \cup UNION {Range(g) : g \in Range(n.groups)}
    [] n.k = "sync"   -> {n.b}
    [] n.k = "try"    -> {n.b, n.finally} \cup {c.b : c \in Range(n.catches)}

RECURSIVE Within(_), Breaks(_, _)
Within(n) == {n} \cup UNION {Within(p) : p \in Parts(n)}
Breaks(n, l) ==
  \/ n = BreakStmt(l)
  \/ /\ l # NoLabel \/ n.k \notin LoopKinds \cup {"switch"}
     /\ \E p \in Parts(n) : Breaks(p, l)

Has(n, kinds) == \E p \in Within(n) : p.k \in kinds
WritesLocal(n) == \E p \in Within(n) : p.k \in {"assign", "inc"} /\ p.lhs.k = "local"

(* A switch that always takes an arm, and that an arm leaves by a break;    *)
(* and a loop a break leaves past a condition that writes or is constant.   *)
LeftByBreak(n) == n.k = "switch" /\ n.hasDefault /\ \E p \in Parts(n) : Breaks(p, NoLabel)
LeftPastCondition(n) ==
  n.k \in {"do", "for"} /\ hasBreak(n.s, 0) /\ (WritesLocal(n.c) \/ Has(n.c, {"const"}))

-----------------------------------------------------------------------------
(* What an execution of an accepted body shows *)

Accepted  == phase \in {"checked", "emitted", "refused", "panicked"}
Ran       == Accepted /\ ref # None
Body      == Method(prog).body
Params    == Range(Method(prog).params)
Of(e, v)  == {i \in DOMAIN ref.ev : ref.ev[i].e = e /\ ref.ev[i].id = v}

(* Where flow takes a local for assigned although a way to the read skips   *)
(* the assignment: the state at a break is dropped out of a label that is   *)
(* no loop, out of a switch with a default and past the condition of a do   *)
(* or for; so is the state at a yield; what an assert writes counts         *)
(* although it may be disabled; the right side of an assignment is walked   *)
(* before the operands of its place, and those of ++ and -- not at all.     *)
Presumes(s) == \E n \in Within(s) :
  \/ n.k = "label" /\ n.s.k \notin LoopKinds /\ Breaks(n.s, n.l)
  \/ LeftByBreak(n)
  \/ LeftPastCondition(n)
  \/ n.k = "switchx" /\ Has(n, {"yield"})
  \/ n.k = "assert" /\ WritesLocal(n.x)
  \/ n.k = "assign" /\ WritesLocal(n.x) /\ \E p \in Range(operands(n.lhs)) : Has(p, {"read"})
  \/ n.k = "inc" /\ \E p \in Parts(n) : Has(p, {"read"})


(* Where flow overlooks the second write of a blank local: a clause starts  *)
(* from the state before the try, an arm from the one before the switch;    *)
(* the body of an enhanced for and the condition of a loop are walked once; *)
(* a branch of an if with an else that ends in a jump takes no part in the  *)
(* join, so what it writes is forgotten where the jump arrives; so is what  *)
(* was written before a loop that is left past its constant condition, what *)
(* the right operand of && or || writes when its value is used, what an arm *)
(* of a switch expression writes and what the place of ++ or -- writes.     *)
Overlooks(s) == \E n \in Within(s) :
  \/ n.k \in {"try", "switch", "range"}
  \/ n.k \in {"while", "do", "for"} /\ WritesLocal(n.c)
  \/ n.k = "if" /\ n.els.k # "nil" /\ WritesLocal(n) /\ Has(n, {"break", "continue"})
  \/ LeftPastCondition(n)
  \/ n.k \in {"expr", "decl", "return", "yield", "assert", "call", "assign", "bin", "cmp", "cast"}
       /\ \E x \in Within(n) : x.k \in {"and", "or"} /\ WritesLocal(x.y)
  \/ n.k = "switchx" /\ WritesLocal(n)
  \/ n.k = "inc" /\ \E p \in Parts(n) : WritesLocal(p)

(* BlankWrittenOnce: a local declared without an initialiser, which flow    *)
(* treats as a blank final, is written once at most by a body flow accepts  *)
(* and in which it overlooks nothing: bodies of while, do and for, both     *)
(* branches of an if, labels and synchronized blocks included               *)
(* (flow/assign.go write, flow/alive.go loops).                             *)
BlankWrittenOnce ==
  Ran => Cardinality(Of("write", "x")) <= 1 \/ Overlooks(Body)

(* What flow never reports: closeThrows notes what close() throws, and      *)
(* nothing looks at it; the place of ++ or -- is not walked.                *)
Unreported(s) == \E n \in Within(s) :
  \/ n.k = "try" /\ \E r \in Range(n.res) : \E t \in Range(r.throws) : isChecked(t)
  \/ n.k = "inc" /\ \E p \in Parts(n) : Has(p, {"call"})

(* CheckedAreDeclared: no checked exception leaves an accepted body unless  *)
(* its throws clause covers it (flow/throws.go raise, handled, tryStmt), if *)
(* it holds neither a resource whose close() throws one nor a call in the   *)
(* place of ++ or --.                                                       *)
CheckedAreDeclared ==
  Ran /\ ref.out.k = "throw" /\ isChecked(ref.out.l) =>
    Covered(ref.out.l, Method(prog).throws) \/ Unreported(Body)

(* NoFallOff: an accepted body of a method with a result does not run off   *)
(* its end (flow/alive.go, "missing return"), unless a break leaves a       *)
(* switch with a default in it: flow takes such a switch for one that       *)
(* cannot complete when no arm reaches its end.                             *)
NoFallOff ==
  Ran /\ Method(prog).result => ref.out.k # "ok" \/ \E n \in Within(Body) : LeftByBreak(n)

(* Bodies without the statements whose labels lower places where nothing    *)
(* leads: while, try, synchronized, loops whose body does not reach its     *)
(* end, labelled statements without a way to their end, constant operands;  *)
(* and without what it cannot lower: switches, patterns as conditions.      *)
RECURSIVE Falls(_)
Falls(s) == CASE s.k \in {"break", "continue", "return", "throw"} -> FALSE
              [] s.k = "block" -> s.stmts = <<>> \/ Falls(s.stmts[Len(s.stmts)])
              [] s.k = "if" -> s.els.k = "nil" \/ Falls(s.s) \/ Falls(s.els)
              [] OTHER -> TRUE
Plain(s) == \A n \in Within(s) :
  /\ n.k \notin {"while", "try", "sync", "switch", "switchx", "yield", "lambda", "const"}
  /\ n.k \in {"do", "for", "range"} => Falls(n.s)
  /\ n.k = "for" => n.c.k # "nil"
  /\ n.k = "label" /\ n.s.k \notin LoopKinds => Falls(n.s) \/ Breaks(n.s, n.l)
  /\ n.k # "call" => \A x \in Parts(n) : x.k # "inst"

(* PlainEmits: the writer accepts what lower asks of it for a plain body:   *)
(* every label placed once, at one stack depth, where control can come, and *)
(* no path off the end.  Of any other body it can only refuse a label, or   *)
(* code behind a constant operand, where nothing leads: no stack depth      *)
(* differs, no label is placed twice or never (lower/stmt.go, cond.go).     *)
PlainEmits ==
  /\ phase = "panicked" => ~Plain(Body)
  /\ phase = "refused" /\ ref = None =>
       /\ ~Plain(Body)
       /\ \E w \in {Written(code, W!NewWriter)} :
            \/ w.err = "unreachable_label"
            \/ w.err = "unreachable_code" /\ Has(Body, {"const"})

(* The statements whose code departs from the source: the clauses of a try  *)
(* with resources are nested inside its resources; a close that throws is   *)
(* called again, because it lies in the range of its own handler; a jump    *)
(* out of synchronized or of a try with resources neither unlocks nor       *)
(* closes; what a clause throws skips the finally block, and one that       *)
(* throws or jumps itself runs again or skips those around it.              *)
Abrupt(s) == \E n \in Within(s) :
  \/ n.k \in {"throw", "return", "break", "continue"}
  \/ n.k = "call" /\ MayThrow("call", n.id) # {}
Departs(s) == \E n \in Within(s) :
  \/ n.k = "try" /\ n.res # <<>> /\ (n.catches # <<>> \/ n.finally.k # "nil")
  \/ n.k = "sync" /\ Has(n.b, {"break", "continue", "return"})
  \/ n.k = "try" /\ n.res # <<>> /\ Has(n.b, {"break", "continue", "return"})
  \/ n.k = "try" /\ \E r \in Range(n.res) : MayThrow("close", r.id) # {}
  \/ n.k = "try" /\ n.finally.k # "nil"
       /\ (Abrupt(n.finally) \/ \E c \in Range(n.catches) : Abrupt(c.b))

Seen == IF mac = None \/ Departs(Body) \/ Presumes(Body) THEN Nothing ELSE Observed(mac)
Src == INSTANCE Source WITH body <- Meaning(prog), seen <- Seen

=============================================================================
