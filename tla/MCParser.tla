------------------------------- MODULE MCParser -------------------------------
(***************************************************************************)
(* The texts that are parsed: every short text over a few token kinds that  *)
(* compete for one position, every tree of the grammar up to a depth, and   *)
(* those trees' texts with one token lost, added or changed.                *)
(***************************************************************************)
EXTENDS Parser

Strings(A, n) == UNION {[1..m -> A] : m \in 0..n}
InBlock(s) == <<"{">> \o s \o <<"}">>
InClass(s) == <<"class", "c", "{">> \o s \o <<"}">>
Calls == {InBlock(Append(s, ";")) : s \in Strings({"a", "(", ")", "+", "->", ",", "int"}, 4)}
Generics == {InBlock(Append(s, ";")) : s \in Strings({"a", "<", ">", "~>", "?", ":", ".", "::"}, 4)}
Statements == {InBlock(s) : s \in Strings({"if", "else", "try", "{", "}", ";", "a", "(", ")"}, 4)}
Members == {InClass(s) : s \in Strings({"c", "{", "}", ";", "(", ")", "int", "@", "=", "enum"}, 3)}
TopLevels == Strings({"class", "a", "{", "}", ";", "(", ")", "int", "@", "=", "enum"}, 3)
Short == Calls \cup Generics \cup Statements \cup Members \cup TopLevels

(* The texts one token away from a text. *)
Delete(s, j)     == SubSeq(s, 1, j - 1) \o SubSeq(s, j + 1, Len(s))
Insert(s, j, t)  == SubSeq(s, 1, j - 1) \o <<t>> \o SubSeq(s, j, Len(s))
Edits(s, A) == UNION {{Delete(s, j)} \cup {Insert(s, j, t) : t \in A} \cup {[s EXCEPT ![j] = t] : t \in A}
                      : j \in DOMAIN s}

-----------------------------------------------------------------------------
(* Trees: every production with every production in each of its slots.      *)
Values(k) ==
  CASE k = "Ident" -> {"a", "b"} [] k = "Lit" -> {"lit", "null"} [] k \in {"Self", "Qualified", "CtorCall"} -> {"this", "super"}
    [] k = "Mod" -> {"final", "static"} [] k = "Assign" -> {"=", "+=", ">>=", ">>>="}
    [] k = "Bin" -> UNION {Ranks[r] : r \in DOMAIN Ranks} \ {"instanceof"}
    [] k = "Unary" -> {"+", "-", "~", "!", "++", "--"} [] k = "Postfix" -> {"++", "--"}
    [] k = "Prim" -> {"int"} [] k = "Import" -> {"", "static", "module"} [] k = "ImportAll" -> {"", "static"}
    [] k = "Module" -> {"", "open"} [] k = "Requires" -> {"requires"} [] k = "Exports" -> {"exports", "opens"}
    [] k = "Wild" -> {"", "extends", "super"} [] k = "Uses" -> {"uses"} [] k = "Provides" -> {"provides"} [] OTHER -> {""}
Plainest(k) == CASE k = "Ident" -> "a" [] k = "Lit" -> "lit" [] k = "Mod" -> "final" [] k = "Assign" -> "="
                 [] k = "Bin" -> "+" [] OTHER -> CHOOSE v \in Values(k) : TRUE
Representative(slot) ==
  CASE slot \in {"StmtExpr", "ForPart"} -> "Call"
    [] slot \in (DOMAIN Tightness \ {"StmtExpr"}) \cup {"Left", "Right", "CastOperand", "ElseExpr", "LambdaBody", "PrimaryOrType", "ElementValue",
                 "PairOrValue", "VarInit", "Resource"} -> "Name"
    [] slot = "CaseItem" -> "RecordPattern"
    [] slot \in {"Type", "ElementType", "ClassType", "NewType", "TypeArg", "VarType", "Result", "TypeOrPattern"} -> "Named"
    [] slot \in {"Stmt", "ThenStmt", "BlockStmt"} -> "Empty" [] slot = "Member" -> "EmptyDecl" [] slot = "TypeDecl" -> "Class"
    [] slot = "Label" -> "Default" [] slot = "Annotation" -> "Ann" [] slot = "Modifier" -> "Mod" [] slot = "LambdaParam" -> "Ident"
    [] slot = "FormalParam" -> "Param" [] slot = "RuleBody" -> "Block" [] slot = "SubPattern" -> "MatchAll"
    [] slot = "Directive" -> "Uses" [] slot = "ImportDecl" -> "Import" [] slot = "UnitPart" -> "None" [] OTHER -> slot
RECURSIVE Plain(_)
RECURSIVE PlainParts(_)
PlainParts(items) ==
  IF items = <<>> THEN <<>>
  ELSE IF Head(items) = "opt" THEN <<NoNode>> \o PlainParts(Tail(Tail(items)))
  ELSE IF Head(items) \in Slots THEN <<Plain(Representative(Head(items)))>> \o PlainParts(Tail(items))
  ELSE PlainParts(Tail(items))
Plain(k) ==
  N(k, Plainest(k),
    IF k \in DOMAIN Layout THEN PlainParts(Layout[k])
    ELSE IF k \in NonEmpty \cup {"DimExprs"} THEN <<Plain(Representative(ListOf[k][2]))>> ELSE <<>>)
Kinds == (DOMAIN Layout \cup DOMAIN ListOf) \ {"None", "Unit"}
Plains == UNION {{[Plain(k) EXCEPT !.v = v] : v \in Values(k)} : k \in Kinds}
(* The trees of kind k with one part replaced by a member of S. *)
Grown(k, S) ==
  LET t == Plain(k)
      item == Plain(Representative(ListOf[k][2]))
      put(j) == {[t EXCEPT !.v = v, !.c[j] = x] : v \in Values(k), x \in S}
      listed == UNION {{[t EXCEPT !.c = <<x>>], [t EXCEPT !.c = <<x, item>>], [t EXCEPT !.c = <<item, x>>]} : x \in S}
  IN {x \in (IF k \in DOMAIN Layout THEN UNION {put(j) : j \in DOMAIN t.c} ELSE listed) : Derives(x)}
(* Where a tree is put to make a unit of it: the kind around it and, when   *)
(* that is no list, which part of it.                                       *)
Homes == [
  Args |-> <<"Call", 2>>, CastTypes |-> <<"Cast", 1>>, CatchTypes |-> <<"Catch", 2>>, TypeArgs |-> <<"Named", 3>>,
  TypeParams |-> <<"Class", 3>>, TypeParam |-> <<"TypeParams">>, Bounds |-> <<"TypeParam", 3>>, Implements |-> <<"Class", 5>>,
  ExtendsList |-> <<"Interface", 4>>, Extends |-> <<"Class", 4>>, Permits |-> <<"Class", 6>>, Throws |-> <<"Method", 8>>,
  Dims |-> <<"Declarator", 2>>, Dim |-> <<"Dims">>, DimExprs |-> <<"NewArray", 2>>, DimExpr |-> <<"DimExprs">>,
  Anns |-> <<"TypeParam", 1>>, Ann |-> <<"Anns">>, AnnArgs |-> <<"Anns">>, Pairs |-> <<"AnnArgs", 2>>, Pair |-> <<"Pairs">>,
  ValueArray |-> <<"Pair", 2>>, Mods |-> <<"Class", 1>>, LambdaParams |-> <<"Lambda", 1>>, Params |-> <<"Method", 6>>,
  Param |-> <<"Params">>, Receiver |-> <<"Params">>, QReceiver |-> <<"Params">>, Declarators |-> <<"VarDecl", 3>>,
  Declarator |-> <<"Declarators">>, Init |-> <<"Declarator", 3>>, ArrayInit |-> <<"Init", 1>>, VarDecl |-> <<"LocalVar", 1>>,
  Stmts |-> <<"Group", 2>>, ForInit |-> <<"For", 1>>, ForPost |-> <<"For", 3>>, Resources |-> <<"Try", 1>>, Catches |-> <<"Try", 3>>,
  Catch |-> <<"Catches">>, Finally |-> <<"Try", 4>>, Rules |-> <<"SwitchBlock", 1>>, Rule |-> <<"Rules">>, RuleExpr |-> <<"Rule", 2>>,
  Groups |-> <<"SwitchBlock", 2>>, Group |-> <<"Groups">>, Labels |-> <<"Group", 1>>, Labelled |-> <<"Labels">>,
  SwitchBlock |-> <<"Switch", 2>>, Case |-> <<"Labelled", 1>>, CaseItems |-> <<"Case", 1>>, Guard |-> <<"Case", 2>>,
  TypePattern |-> <<"CaseItems">>, RecordPattern |-> <<"CaseItems">>, Elts |-> <<"RecordPattern", 2>>, Wild |-> <<"TypeArgs">>,
  Body |-> <<"Class", 7>>, Components |-> <<"Record", 4>>, Component |-> <<"Components">>, Constants |-> <<"Enum", 4>>,
  EnumMembers |-> <<"Enum", 5>>, EnumConst |-> <<"Constants">>, ElemDefault |-> <<"AnnElem", 5>>, Directives |-> <<"Module", 2>>,
  Requires |-> <<"Directives">>, Exports |-> <<"Directives">>, Uses |-> <<"Directives">>, Provides |-> <<"Directives">>,
  To |-> <<"Exports", 2>>, With |-> <<"Provides", 2>>, Import |-> <<"Imports">>, ImportAll |-> <<"Imports">>, Name |-> <<"Package", 2>>]
Home(n) ==
  IF n.k \in DOMAIN Homes THEN Homes[n.k] ELSE IF Binding(n) >= 0 THEN <<"Return", 1>>
  ELSE IF n.k \in Types THEN <<"VarDecl", 2>> ELSE IF n.k = "Block" THEN <<"Initializer", 1>>
  ELSE IF n.k \in StmtKinds \cup {"LocalVar", "LocalType"} THEN <<"Block">>
  ELSE IF n.k \in {"Ctor", "CompactCtor", "MethodHead", "AnnElem"} THEN <<"Body">> ELSE <<"Unit">>
UnitWith(n) ==
  LET head == <<IF n.k = "Package" THEN n ELSE NoNode, IF n.k = "Imports" THEN n ELSE Plain("Imports")>>
      all  == IF n.k \in {"Package", "Imports"} THEN head ELSE Append(head, n)
  IN N("Unit", IF hasMethodMember(all) THEN "compact" ELSE "", all)
RECURSIVE Housed(_)
Housed(n) ==
  LET h == Home(n)
  IN IF h = <<"Unit">> THEN UnitWith(n)
     ELSE Housed(IF Len(h) = 1 THEN [Plain(h[1]) EXCEPT !.c = <<n>>] ELSE [Plain(h[1]) EXCEPT !.c[h[2]] = n])
Written == {u \in {Housed(t) : t \in UNION {Grown(k, Plains) : k \in Kinds}} : Derives(u)}
Mutilated == UNION {Edits(Text(u), {";", "}", ")", "a", ",", "<", "@"}) : u \in {v \in {Housed(t) : t \in Plains} : Derives(v)}}
RECURSIVE Nested(_)
Nested(n) == IF n = 0 THEN <<"a">> ELSE <<"(">> \o Nested(n - 1) \o <<")">>
Deep == {InBlock(Append(Nested(n), ";")) : n \in 1..5}
AllInputs == Short \cup Mutilated \cup Deep
BothModes == {{}, {"HeaderOnly"}}
===============================================================================
