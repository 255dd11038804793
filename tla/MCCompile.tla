------------------------------ MODULE MCCompile ------------------------------
(***************************************************************************)
(* The bodies that are compiled: families small enough to be complete, each *)
(* around one thing flow and lower have to get right together.              *)
(***************************************************************************)
EXTENDS Compile

Throws(e, id) == CASE id = "g" /\ e = "call"  -> {"E", "E1"}
                   [] id = "k" /\ e = "close" -> {"E"}
                   [] id = "r" /\ e = "call"  -> {"R"}
                   [] id = "s" /\ e = "close" -> {"R"}
                   [] OTHER -> {}

Do(x)      == ExprStmt(x)
Invoke(id, xs) == CallExpr(id, xs, <<>>)
Set(v)     == Do(AssignExpr(Local(v), "=", Val("c", VarType(v))))
Use(v)     == Do(Invoke("f", <<CastExpr("int", Read(v))>>))
F          == Do(Invoke("f", <<>>))
G          == Do(CallExpr("g", <<>>, <<"E">>))
R          == Do(Invoke("r", <<>>))
Brk        == BreakStmt(NoLabel)
Cont       == ContinueStmt(NoLabel)
Leave      == ReturnStmt(Nil)
Give       == ReturnStmt(Val("v", "int"))
C          == Test("c")
Try(b, cs, f) == TryStmt(<<>>, b, cs, f)
B(s)       == Block(<<s>>)

M(throws, result, ss) ==
  [params |-> <<"p">>, throws |-> throws, result |-> result, body |-> Block(ss)]
One(m)     == [class |-> <<L!Method(m)>>, which |-> 1]

(* Reads and writes of one blank local around every compound statement. *)
Atoms      == {Set("x"), Use("x"), G, ThrowStmt("E1"), Leave}
Quiet      == {Block(<<>>), B(Set("x")), B(F)}
Inner      == Atoms \cup {Brk, Cont}
Guarded(S) == {Block(<<IfStmt(C, s, Nil), t>>) : s \in S, t \in S}
Opt(S)     == {Block(<<>>)} \cup {B(s) : s \in S}
Loops(S) ==
  {DoStmt(a, C) : a \in S} \cup {WhileStmt(C, a) : a \in S}
  \cup {ForStmt(<<>>, C, <<>>, a) : a \in S} \cup {RangeStmt("e", "it", a) : a \in S}
Endless(S) == {ForStmt(<<>>, Nil, <<>>, a) : a \in S} \cup {WhileStmt(Const(TRUE), a) : a \in S}
Clause(b)  == <<CatchClause(<<"E">>, "e", b)>>
Compounds ==
  {IfStmt(C, a, b) : a \in Opt(Atoms), b \in Opt(Atoms) \cup {Nil}}
  \cup Loops(Opt(Inner) \cup Guarded(Inner)) \cup Endless(Guarded(Inner))
  \cup {Try(a, Clause(b), Nil) : a \in Opt(Atoms) \cup Guarded(Atoms), b \in Opt(Atoms)}
  \cup {Try(a, Clause(b), f) : a \in Opt(Atoms) \cup Guarded(Atoms), b \in Quiet \cup {B(G)}, f \in Quiet \cup {B(G)}}
  \cup {SyncStmt("m", a) : a \in Opt(Atoms) \cup Guarded(Atoms)}
  \cup {SwitchStmt("t", <<>>, <<a, b>>, d) : a \in Opt(Atoms), b \in Opt(Atoms), d \in BOOLEAN}
  \cup {SwitchStmt("t", <<<<a>>, <<b>>>>, <<>>, d) : a \in Atoms, b \in Atoms, d \in BOOLEAN}
Assigns == {One(M(t, FALSE, <<DeclStmt("x", Nil)>> \o <<c>> \o s)) :
   t \in {<<>>, <<"E">>}, c \in Compounds, s \in {<<>>, <<Use("x")>>, <<Set("x")>>}}

(* The same where flow's rules are hardest: jumps to a label that is no     *)
(* loop, out of a switch or past an else; writes in the condition of a loop *)
(* or an assert, in a value, in an arm that yields, in the place of ++.     *)
AssignTest(v) == Compare("==", AssignExpr(Local(v), "=", Val("c", "int")), Val("z", "int"))
Slot(i)    == Index(Val("o", "int"), i, "int")
Out        == BreakStmt("l")
Labelled(s) == LabeledStmt("l", s)
Parting(S) == {B(IfStmt(C, Block(<<a, j>>), b)) : a \in {Set("x"), F}, j \in S, b \in Quiet}
Armed      == Atoms \cup {Brk, IfStmt(C, Brk, Nil), IfStmt(C, Set("x"), Nil)}
Writing    == {AssignTest("x"), And(C, AssignTest("x")), Or(C, AssignTest("x"))}
Yielding   == {Do(Val("v", "int")), Do(AssignTest("x")), B(YieldStmt(Val("v", "int"))),
               Block(<<Set("x"), YieldStmt(Val("v", "int"))>>)}
Delicate ==
  {Labelled(b) : b \in Opt(Atoms \cup {Out}) \cup Guarded(Atoms \cup {Out}) \cup Parting({Out})}
  \cup {Labelled(w) : w \in Loops(Parting({Out, Brk, ContinueStmt("l")}))}
  \cup Endless(Parting({Brk, Cont}))
  \cup {DoStmt(b, k) : b \in Opt(Inner) \cup {B(IfStmt(C, Brk, Nil))}, k \in Writing}
  \cup {WhileStmt(k, b) : b \in Opt(Inner), k \in Writing}
  \cup {ForStmt(<<>>, k, <<>>, b) : b \in Opt(Inner), k \in Writing}
  \cup {SwitchStmt("t", <<<<a, b>>, <<c>>>>, <<>>, d) : a \in Armed, b \in {Set("x"), F, Brk}, c \in Armed, d \in BOOLEAN}
  \cup {SwitchStmt("t", <<>>, <<a, b>>, TRUE) : a \in Parting({Brk}) \cup Opt({Brk}), b \in Quiet}
  \cup {AssertStmt(k) : k \in {C} \cup Writing}
  \cup {Do(Invoke("f", <<k>>)) : k \in Writing}
  \cup {Block(p \o <<w>>) : p \in {<<>>, <<Set("x")>>}, w \in UNION {
          {DoStmt(b, Const(TRUE)), ForStmt(<<>>, Const(TRUE), <<>>, b)} : b \in Guarded({F, Leave, Brk, Cont})}}
  \cup {Do(IncDec(Slot(i), TRUE)) : i \in {Read("x"), AssignExpr(Local("x"), "=", Val("c", "int"))}}
  \cup {Do(AssignExpr(Slot(Read("x")), op, AssignExpr(Local("x"), "=", Val("c", "int")))) : op \in {"=", "add"}}
  \cup {Do(Invoke("f", <<SwitchExpr("t", <<a, b>>)>>)) : a \in Yielding, b \in Yielding}
Hard == {One(M(<<"E">>, FALSE, <<DeclStmt("x", Nil)>> \o <<c>> \o s)) :
   c \in Delicate, s \in {<<>>, <<Use("x")>>, <<Set("x")>>}}

(* Resources that fail to open or to close, with clauses and ways out. *)
Opens      == {Resource("q", "open", <<>>, <<>>), Resource("q", "g", <<"E">>, <<>>),
               Resource("q", "k", <<>>, <<"E">>), Resource("q", "r", <<>>, <<>>), Resource("q", "s", <<>>, <<>>)}
WithClose  == {One(M(t, FALSE, <<TryStmt(<<r>>, b, c, f), F>>)) : t \in {<<>>, <<"E">>}, r \in Opens,
   b \in {B(Use("q")), B(G), B(R), Block(<<IfStmt(C, Leave, Nil), F>>)}, c \in {<<>>, Clause(B(F)), <<CatchClause(<<"R">>, "e", B(F))>>},
   f \in {Nil, B(F)}}
  \cup {One(M(<<"E">>, FALSE, <<SyncStmt("m", Block(<<IfStmt(C, a, Nil), b>>))>>)) :
   a \in {Leave, G, F}, b \in {Leave, G, F}}
  \cup {One(M(<<>>, FALSE, <<Do(x)>>)) : x \in {IncDec(Slot(CallExpr("g", <<>>, <<"E">>)), FALSE),
                                             AssignExpr(Slot(CallExpr("g", <<>>, <<"E">>)), "=", Val("c", "int"))}}

(* Ways out of nested statements of a method with a result: every return,   *)
(* break and continue passes the finally blocks between.                    *)
Fin(id)    == B(Do(Invoke(id, <<>>)))
Outs       == {Give, Brk, Cont, ThrowStmt("E1"), R, F, BreakStmt("l"), ContinueStmt("l")}
Nested     == {Try(Block(<<IfStmt(C, s, Nil), t>>), <<>>, Fin("f1")) : s \in Outs, t \in {F, Give}}
Twice      == {Try(Block(<<n>>), <<>>, Fin("f2")) : n \in Nested}
LoopOver(S) == {DoStmt(B(n), C) : n \in S} \cup {ForStmt(<<>>, C, <<Invoke("u", <<>>)>>, B(n)) : n \in S}
Ways ==
  {One(M(<<"E">>, TRUE, <<LabeledStmt("l", w), Give>>)) :
     w \in LoopOver(Nested \cup Twice)
           \cup {DoStmt(B(n), C) : n \in LoopOver({Block(<<IfStmt(C, s, Nil), F>>) : s \in Outs})}
           \cup {Try(B(n), <<>>, Fin("f2")) : n \in LoopOver(Nested)}}
  \cup {One(M(<<"E">>, TRUE, ss)) : ss \in
     {<<IfStmt(C, B(s), t)>> : s \in {Give, ThrowStmt("E"), F}, t \in {Nil, B(Give), B(F)}}
     \cup {<<w>> : w \in Endless({Block(<<IfStmt(C, s, Nil), t>>) : s \in {Give, Brk, Cont, F}, t \in {F, Cont, Brk}})}
     \cup {<<SwitchStmt("t", <<<<a>>, <<b>>>>, <<>>, d)>> :
             a \in {Give, F, Brk, IfStmt(C, Brk, Give), IfStmt(C, Brk, Nil)}, b \in {Give, F, Brk, ThrowStmt("E")}, d \in BOOLEAN}
     \cup {<<Labelled(b)>> : b \in {B(Give), Block(<<IfStmt(C, Out, Nil), Give>>)}}
     \cup {<<Try(a, Clause(b), Nil)>> : a \in {B(G), B(Give), Block(<<G, Give>>)}, b \in {B(Give), B(F), B(R)}}}

(* Places, types and operators: what each assignment leaves behind. *)
Types      == {"byte", "int", "long", "double"}
Obj        == Val("o", "int")
Places     == {Local("p"), Local("w"), Local("b"), Local("d")}
              \cup {StaticField(t) : t \in Types} \cup {FieldOf(Obj, t) : t \in Types}
              \cup {Index(Obj, Val("i", "byte"), t) : t \in Types}
Assignments ==
  {AssignExpr(l, "=", CastExpr(l.t, Val("c", t))) : l \in Places, t \in Types}
  \cup {AssignExpr(l, "add", Val("c", t)) : l \in Places, t \in Types}
  \cup {AssignExpr(l, "shl", Val("c", t)) : l \in {q \in Places : q.t \in {"int", "long"}}, t \in {"byte", "int", "long"}}
  \cup {IncDec(l, post) : l \in Places, post \in BOOLEAN}
Values ==
  {Binary("add", Val("a", t), Val("c", u)) : t \in Types, u \in Types}
  \cup {Binary("shl", Val("a", t), Val("c", u)) : t \in Types \ {"double"}, u \in {"int", "long"}}
  \cup {CondExpr(C, Val("a", t), Val("c", t)) : t \in Types}
  \cup {AssignExpr(l, "=", AssignExpr(m, "add", Val("c", "int"))) : l \in {Local("w"), Index(Obj, Val("i", "int"), "long")},
                                                                   m \in {FieldOf(Obj, "byte"), StaticField("long")}}
Typed ==
  LET locals == <<DeclStmt("w", CastExpr("long", Val("c", "int"))), DeclStmt("b", CastExpr("byte", Val("c", "int"))),
                  DeclStmt("d", CastExpr("double", Val("c", "int")))>>
  IN  {One(M(<<>>, FALSE, locals \o <<s>> \o <<Use("w"), Use("d"), Use("b")>>)) :
         s \in {Do(x) : x \in Assignments}
               \cup {Do(Invoke("f", <<CastExpr("int", x)>>)) : x \in Assignments \cup Values}}

(* Conditions: where control and the two assignment states go. *)
Relation(t) == {Compare(op, Val("a", t), Val("z", u)) : op \in {"<", "<=", ">", ">=", "==", "!="}, u \in {"int", t}}
Tests      == {C, Test("e"), Const(TRUE), Const(FALSE)}
Terms      == Tests \cup {AssignTest("x"), Compare("<", Read("x"), Val("z", "int"))}
Pairs(T)   == T \cup {And(a, b) : a \in T, b \in T} \cup {Or(a, b) : a \in T, b \in T}
Conds(T)   == Pairs(T) \cup {Not(a) : a \in Pairs(T)} \cup {And(a, Not(b)) : a \in Pairs(T), b \in T}
              \cup {Or(And(C, Test("e")), b) : b \in Pairs(T)}
Branching ==
  {One(M(<<>>, FALSE, <<DeclStmt("x", Nil)>> \o ss)) : ss \in
     UNION {{<<IfStmt(k, B(Use("x")), Nil)>>, <<IfStmt(k, B(F), B(Use("x")))>>,
             <<Do(Invoke("f", <<CondExpr(k, Val("a", "int"), Val("c", "int"))>>)), Use("x")>>} : k \in Conds(Terms)}
     \cup {<<DoStmt(B(F), k)>> : k \in Conds(Tests)}}
  \cup {One(M(<<>>, FALSE, <<IfStmt(k, B(F), Nil)>>)) : k \in UNION {Relation(t) : t \in Types}}
  \cup {One(M(<<>>, FALSE, <<DoStmt(B(F), k)>>)) : k \in UNION {Relation(t) : t \in Types \ {"double"}}}

(* Slots: variables of one and two words whose scopes begin and end. *)
Decl(v)    == DeclStmt(v, Val("c", VarType(v)))
Vars       == {"y", "w", "d"}
Scopes ==
  {One(M(<<>>, FALSE, <<Decl(v), Block(<<Decl(u), Use(u)>>), Decl(t), Use(v), Use(t)>>)) :
     v \in Vars, u \in {"i", "b"}, t \in {"z", "k"}}
  \cup {One(M(<<>>, FALSE, <<Decl(v), s, Decl("z"), Use(v), Use("z")>>)) : v \in Vars,
     s \in {ForStmt(<<Decl("i")>>, C, <<IncDec(Local("i"), TRUE)>>, B(Use("i"))),
            RangeStmt("i", "it", Block(<<Set("i"), Use("i")>>)),
            SyncStmt("m", Block(<<Decl("i"), Use("i")>>)),
            Try(Block(<<Decl("i"), R>>), <<CatchClause(<<"R">>, "e", B(Use("e")))>>, Fin("f1")),
            IfStmt(Test("c"), Block(<<Decl("i"), Use("i")>>), Block(<<Decl("d2"), Use("d2")>>)),
            Do(Invoke("f", <<InstanceOfExpr("c", "n")>>)),
            TryStmt(<<Resource("q", "open", <<>>, <<>>)>>, Block(<<Decl("i"), Use("q"), R>>), <<>>, Nil),
            TryStmt(<<Resource("q", "r", <<>>, <<>>), Resource("q2", "open", <<>>, <<>>)>>, B(Use("q2")), <<>>, Nil),
            AssertStmt(C)}}

(* Constructors and initialisers. *)
Step1(id)  == Do(Invoke(id, <<>>))
Ctor(ss)   == L!Constructor(M(<<>>, FALSE, ss))
Classes ==
  {<<L!Field(st1, Step1("i1")), c, L!Initializer(st2, B(Step1("i2"))), d>> :
     st1 \in BOOLEAN, st2 \in BOOLEAN,
     c \in {Ctor(<<F>>), Ctor(<<L!ConstructorCall("super"), F>>), Ctor(<<L!ConstructorCall("this"), F>>)},
     d \in {Ctor(<<>>), L!Method(M(<<>>, FALSE, <<F>>))}}
Constructors == {[class |-> c, which |-> w] : c \in Classes, w \in {2, 4}}

(* Left out are two kinds of expression whose code is known to differ from  *)
(* the source: a comparison of doubles that jumps when it holds, for a NaN, *)
(* and a compound shift of a byte (README, lower).                          *)
AllBodies == Assigns \cup Hard \cup WithClose \cup Ways \cup Typed \cup Branching \cup Scopes
             \cup Constructors
=============================================================================
