----------------------------- MODULE JavaGrammar -----------------------------
(***************************************************************************)
(* The reference for the parser: the productions of the Java language, one  *)
(* for each kind of node of src/ast, written as data.  The parts are the    *)
(* fields of the node's struct in their order; a struct that stands for     *)
(* more than one production (an if with and without else) is two kinds.     *)
(*                                                                         *)
(* Layout gives a kind its right hand side: a category stands for the next  *)
(* part, which may be missing after "opt", "@" for the token of the node    *)
(* itself, "at" for the token @, anything else for a token.                 *)
(* ListOf gives a kind with any number of parts <<before, category,         *)
(* separator, after>>.  Derives says that a tree is a derivation, Text is   *)
(* the tokens it derives; together they fix the tree of a token sequence.   *)
(* Shaped is Derives with any expression where a statement expression must  *)
(* stand.                                                                   *)
(***************************************************************************)
EXTENDS Integers, Sequences, TLC

ExprLayout == [
  Ident |-> <<"@">>, Lit |-> <<"@">>, Self |-> <<"@">>, Assign |-> <<"Conditional", "@", "Expr">>,
  Cond |-> <<"Binary", "?", "Expr", ":", "ElseExpr">>, Bin |-> <<"Left", "@", "Right">>,
  InstanceOf |-> <<"Relational", "instanceof", "TypeOrPattern">>, Unary |-> <<"@", "Unary">>,
  Cast |-> <<"CastTypes", "CastOperand">>, SwitchExpr |-> <<"switch", "(", "Expr", ")", "SwitchBlock">>,
  Postfix |-> <<"Postfix", "@">>, Index |-> <<"Primary", "[", "Expr", "]">>, Call |-> <<"Ident", "Args">>,
  CallOn |-> <<"Primary", ".", "Ident", "Args">>,
  CallOnT |-> <<"Primary", ".", "TypeArgs", "Ident", "Args">>, Select |-> <<"Primary", ".", "Ident">>,
  Qualified |-> <<"Name", ".", "@">>, MethodRef |-> <<"PrimaryOrType", "::", "opt", "TypeArgs", "Ident">>,
  NewRef |-> <<"PrimaryOrType", "::", "opt", "TypeArgs", "new">>, ClassLit |-> <<"Type", ".", "class">>,
  VoidLit |-> <<"void", ".", "class">>,
  New |-> <<"new", "opt", "TypeArgs", "NewType", "Args", "opt", "Body">>,
  NewInner |-> <<"Primary", ".", "New">>,
  NewArray |-> <<"new", "ElementType", "DimExprs", "Dims", "opt", "ArrayInit">>,
  DimExpr |-> <<"Anns", "[", "Expr", "]">>, Lambda1 |-> <<"Ident", "->", "LambdaBody">>,
  Lambda |-> <<"LambdaParams", "->", "LambdaBody">>, Paren |-> <<"(", "Expr", ")">>]
TypeLayout == [
  Prim |-> <<"Anns", "@">>, Named |-> <<"Anns", "Ident", "opt", "TypeArgs">>,
  QNamed |-> <<"ClassType", ".", "Anns", "Ident", "opt", "TypeArgs">>, Array |-> <<"ElementType", "Dims">>,
  Dim |-> <<"Anns", "[", "]">>, Diamond |-> <<"<", ">">>, Wild |-> <<"Anns", "?", "@", "opt", "Type">>,
  TypeParam |-> <<"Anns", "Ident", "opt", "Bounds">>, VarType |-> <<"var">>, Void |-> <<"void">>]
PatternLayout == [
  TypePattern |-> <<"Mods", "Type", "Ident">>, RecordPattern |-> <<"Type", "Elts">>, MatchAll |-> <<"_">>]
ModifierLayout == [
  Mod |-> <<"@">>, Ann |-> <<"at", "Name">>, AnnArgs |-> <<"at", "Name", "Pairs">>,
  Pair |-> <<"Ident", "=", "ElementValue">>]
StmtLayout == [
  Empty |-> <<";">>, If |-> <<"if", "(", "Expr", ")", "Stmt">>,
  IfElse |-> <<"if", "(", "Expr", ")", "ThenStmt", "else", "Stmt">>,
  While |-> <<"while", "(", "Expr", ")", "Stmt">>, Do |-> <<"do", "Stmt", "while", "(", "Expr", ")", ";">>,
  For |-> <<"for", "(", "ForInit", ";", "opt", "Expr", ";", "ForPost", ")", "Stmt">>,
  Range |-> <<"for", "(", "VarDecl", ":", "Expr", ")", "Stmt">>,
  Switch |-> <<"switch", "(", "Expr", ")", "SwitchBlock">>,
  Try |-> <<"try", "opt", "Resources", "Block", "Catches", "opt", "Finally">>,
  Finally |-> <<"finally", "Block">>,
  Catch |-> <<"catch", "(", "Mods", "CatchTypes", "Ident", ")", "Block">>,
  Return |-> <<"return", "opt", "Expr", ";">>, Throw |-> <<"throw", "Expr", ";">>,
  Break |-> <<"break", "opt", "Ident", ";">>, Continue |-> <<"continue", "opt", "Ident", ";">>,
  Sync |-> <<"synchronized", "(", "Expr", ")", "Block">>, Assert |-> <<"assert", "Expr", ";">>,
  AssertMsg |-> <<"assert", "Expr", ":", "Expr", ";">>, Yield |-> <<"yield", "Expr", ";">>,
  Labeled |-> <<"Ident", ":", "Stmt">>, CtorCall |-> <<"opt", "TypeArgs", "@", "Args", ";">>,
  ExprStmt |-> <<"StmtExpr", ";">>, LocalVar |-> <<"VarDecl", ";">>, LocalType |-> <<"TypeDecl">>,
  SwitchBlock |-> <<"{", "Rules", "Groups", "opt", "Labels", "}">>, Rule |-> <<"Label", "->", "RuleBody">>,
  RuleExpr |-> <<"Expr", ";">>, Group |-> <<"Labels", "Stmts">>, Labelled |-> <<"Label", ":">>,
  Default |-> <<"default">>, CaseNull |-> <<"case", "null">>,
  CaseNullDefault |-> <<"case", "null", ",", "default">>, Case |-> <<"case", "CaseItems", "opt", "Guard">>,
  Guard |-> <<"when", "Expr">>]
DeclLayout == [
  Package |-> <<"Anns", "package", "Name", ";">>, Import |-> <<"import", "@", "Name", ";">>,
  ImportAll |-> <<"import", "@", "Name", ".", "*", ";">>,
  Module |-> <<"@", "module", "Name", "Directives">>,
  Class |-> <<"Mods", "class", "Ident", "opt", "TypeParams", "opt", "Extends", "opt", "Implements", "opt", "Permits", "Body">>,
  Interface |-> <<"Mods", "interface", "Ident", "opt", "TypeParams", "opt", "ExtendsList", "opt", "Permits", "Body">>,
  AnnotationDecl |-> <<"Mods", "at", "interface", "Ident", "Body">>, Extends |-> <<"extends", "Type">>,
  Enum |-> <<"Mods", "enum", "Ident", "opt", "Implements", "{", "Constants", "opt", "EnumMembers", "}">>,
  Record |-> <<"Mods", "record", "Ident", "opt", "TypeParams", "Components", "opt", "Implements", "Body">>,
  Field |-> <<"Mods", "Type", "Declarators", ";">>, VarDecl |-> <<"Mods", "VarType", "Declarators">>,
  Method |-> <<"Mods", "opt", "TypeParams", "Anns", "Result", "Ident", "Params", "Dims", "opt", "Throws", "Block">>,
  MethodHead |-> <<"Mods", "opt", "TypeParams", "Anns", "Result", "Ident", "Params", "Dims", "opt", "Throws", ";">>,
  Ctor |-> <<"Mods", "opt", "TypeParams", "Ident", "Params", "opt", "Throws", "Block">>,
  CompactCtor |-> <<"Mods", "Ident", "Block">>, Initializer |-> <<"Block">>,
  StaticInit |-> <<"static", "Block">>,
  AnnElem |-> <<"Mods", "Type", "Ident", "(", ")", "Dims", "opt", "ElemDefault", ";">>,
  ElemDefault |-> <<"default", "ElementValue">>, EmptyDecl |-> <<";">>]
PartLayout == [
  Requires |-> <<"@", "Mods", "Name", ";">>, Exports |-> <<"@", "Name", "opt", "To", ";">>,
  Uses |-> <<"@", "Name", ";">>, Provides |-> <<"@", "Name", "With", ";">>,
  Declarator |-> <<"Ident", "Dims", "opt", "Init">>, Init |-> <<"=", "VarInit">>,
  Param |-> <<"Mods", "VarType", "Anns", "opt", "Ellipsis", "Ident", "Dims">>, Ellipsis |-> <<"...">>,
  Receiver |-> <<"Anns", "Type", "this">>, QReceiver |-> <<"Anns", "Type", "Ident", ".", "this">>,
  Component |-> <<"Anns", "Type", "Anns", "opt", "Ellipsis", "Ident">>,
  EnumConst |-> <<"Anns", "Ident", "opt", "Args", "opt", "Body">>]
Layout == ExprLayout @@ TypeLayout @@ PatternLayout @@ ModifierLayout @@ StmtLayout @@ DeclLayout @@ PartLayout
            @@ [None |-> <<>>]

ListOf == [
  Args |-> <<"(", "Expr", ",", ")">>, Name |-> <<"", "Ident", ".", "">>,
  CastTypes |-> <<"(", "Type", "&", ")">>, CatchTypes |-> <<"", "Type", "|", "">>,
  TypeArgs |-> <<"<", "TypeArg", ",", ">">>, TypeParams |-> <<"<", "TypeParam", ",", ">">>,
  Bounds |-> <<"extends", "Type", "&", "">>, Implements |-> <<"implements", "Type", ",", "">>,
  ExtendsList |-> <<"extends", "Type", ",", "">>, Permits |-> <<"permits", "Type", ",", "">>,
  Throws |-> <<"throws", "Type", ",", "">>,
  Dims |-> <<"", "Dim", "", "">>, DimExprs |-> <<"", "DimExpr", "", "">>,
  Anns |-> <<"", "Annotation", "", "">>, Mods |-> <<"", "Modifier", "", "">>,
  Pairs |-> <<"(", "PairOrValue", ",", ")">>, ValueArray |-> <<"{", "ElementValue", ",", "}">>,
  LambdaParams |-> <<"(", "LambdaParam", ",", ")">>, Params |-> <<"(", "FormalParam", ",", ")">>,
  Declarators |-> <<"", "Declarator", ",", "">>, ArrayInit |-> <<"{", "VarInit", ",", "}">>,
  Block |-> <<"{", "BlockStmt", "", "}">>, Stmts |-> <<"", "BlockStmt", "", "">>,
  ForInit |-> <<"", "ForPart", ",", "">>, ForPost |-> <<"", "StmtExpr", ",", "">>,
  Resources |-> <<"(", "Resource", ";", ")">>, Catches |-> <<"", "Catch", "", "">>,
  Rules |-> <<"", "Rule", "", "">>, Groups |-> <<"", "Group", "", "">>,
  Labels |-> <<"", "Labelled", "", "">>, CaseItems |-> <<"", "CaseItem", ",", "">>,
  Elts |-> <<"(", "SubPattern", ",", ")">>,
  Body |-> <<"{", "Member", "", "}">>, Components |-> <<"(", "Component", ",", ")">>,
  Constants |-> <<"", "EnumConst", ",", "">>, EnumMembers |-> <<";", "Member", "", "">>,
  Imports |-> <<"", "ImportDecl", "", "">>, Directives |-> <<"{", "Directive", "", "}">>,
  To |-> <<"to", "Name", ",", "">>, With |-> <<"with", "Name", ",", "">>,
  Unit |-> <<"", "UnitPart", "", "">>]

Types     == {"Prim", "Named", "QNamed", "Array"}
Patterns  == {"TypePattern", "RecordPattern"}
TypeDecls == {"Class", "Interface", "AnnotationDecl", "Record", "Enum"}
Annotated == {"Ann", "AnnArgs"}
StmtKinds == {"Block", "Empty", "If", "IfElse", "While", "Do", "For", "Range", "Switch", "Try", "Return",
              "Throw", "Break", "Continue", "Sync", "Assert", "AssertMsg", "Yield", "Labeled",
              "CtorCall", "ExprStmt"}
MemberKinds == TypeDecls \cup {"Initializer", "StaticInit", "EmptyDecl", "CompactCtor", "Ctor", "Method",
                               "MethodHead", "AnnElem", "Field"}

(* How tightly an expression binds: assignment and lambda 0, ?: 1, the      *)
(* binary operators 2 to 11, unary 12, postfix 13, primary 14.              *)
Ranks == << {"||"}, {"&&"}, {"|"}, {"^"}, {"&"}, {"==", "!="}, {"<", ">", "<=", ">=", "instanceof"},
            {"<<", ">>", ">>>"}, {"+", "-"}, {"*", "/", "%"} >>
Rank(op)  == 1 + (CHOOSE r \in DOMAIN Ranks : op \in Ranks[r])
Primaries == {"Lit", "Self", "Paren", "Index", "Call", "CallOn", "CallOnT", "Select", "Qualified", "Name",
              "MethodRef", "NewRef", "ClassLit", "VoidLit", "New", "NewInner", "NewArray"}
Binding(n) ==
  CASE n.k \in {"Assign", "Lambda", "Lambda1"} -> 0
    [] n.k = "Cond"       -> 1
    [] n.k = "Bin"        -> Rank(n.v)
    [] n.k = "InstanceOf" -> Rank("instanceof")
    [] n.k \in {"Unary", "Cast", "SwitchExpr"} -> 12
    [] n.k = "Postfix"    -> 13
    [] n.k \in Primaries  -> 14
    [] OTHER              -> -1
Tightness == [Expr |-> 0, StmtExpr |-> 0, Conditional |-> 1, Binary |-> 2, Relational |-> Rank("instanceof"),
              Unary |-> 12, Postfix |-> 13, Primary |-> 14]

Category == [
  ElseExpr |-> {"Lambda", "Lambda1"}, LambdaBody |-> {"Block"}, PairOrValue |-> {"Pair", "ValueArray"} \cup Annotated,
  ElementValue |-> {"ValueArray"} \cup Annotated, VarInit |-> {"ArrayInit"}, ForPart |-> {"VarDecl"},
  Resource |-> {"VarDecl"}, CaseItem |-> Patterns, RuleBody |-> {"Block", "Throw", "RuleExpr"},
  Type |-> Types, ElementType |-> Types \ {"Array"}, ClassType |-> {"Named", "QNamed"}, NewType |-> {"Named", "QNamed"},
  TypeArg |-> Types \cup {"Wild"}, VarType |-> Types \cup {"VarType"}, Result |-> Types \cup {"Void"},
  TypeOrPattern |-> Types \cup Patterns, SubPattern |-> Patterns \cup {"MatchAll"}, PrimaryOrType |-> Types,
  TypeArgs |-> {"TypeArgs", "Diamond"}, Annotation |-> Annotated, Modifier |-> Annotated \cup {"Mod"},
  LambdaParam |-> {"Ident", "Param"}, FormalParam |-> {"Param", "Receiver", "QReceiver"},
  Stmt |-> StmtKinds, ThenStmt |-> StmtKinds, BlockStmt |-> StmtKinds \cup {"LocalVar", "LocalType"},
  TypeDecl |-> TypeDecls, Member |-> MemberKinds, Label |-> {"Default", "Case", "CaseNull", "CaseNullDefault"},
  ImportDecl |-> {"Import", "ImportAll"}, Directive |-> {"Requires", "Exports", "Uses", "Provides"},
  UnitPart |-> MemberKinds \cup {"None", "Package", "Imports", "Module"}]


Slots == DOMAIN Layout \cup DOMAIN ListOf \cup DOMAIN Category \cup DOMAIN Tightness
           \cup {"Left", "Right", "CastOperand"}

(* The tokens an operator is made of, as the scanner delivers them. *)
Spell(v) ==
  CASE v = ""     -> <<>>
    [] v = ">>"   -> <<">", "~>">>
    [] v = ">>>"  -> <<">", "~>", "~>">>
    [] v = ">>="  -> <<">", "~>=">>
    [] v = ">>>=" -> <<">", "~>", "~>=">>
    [] OTHER      -> <<v>>

RECURSIVE Text(_)
RECURSIVE Fill(_, _, _)
Fill(items, parts, v) ==
  IF items = <<>> THEN <<>>
  ELSE LET h == Head(items)
           r == Tail(items)
       IN CASE h = "opt"   -> Fill(r, parts, v)
            [] h = "@"     -> Spell(v) \o Fill(r, parts, v)
            [] h = "at"    -> <<"@">> \o Fill(r, parts, v)
            [] h \in Slots -> Text(Head(parts)) \o Fill(r, Tail(parts), v)
            [] OTHER       -> <<h>> \o Fill(r, parts, v)
RECURSIVE Joined(_, _)
Joined(parts, sep) ==
  IF parts = <<>> THEN <<>>
  ELSE Text(Head(parts)) \o (IF Len(parts) = 1 THEN <<>> ELSE Spell(sep)) \o Joined(Tail(parts), sep)
Text(n) ==
  IF n.k \in DOMAIN Layout THEN Fill(Layout[n.k], n.c, n.v)
  ELSE LET l == ListOf[n.k]
       IN Spell(l[1]) \o Joined(n.c, l[3]) \o (IF n.k = "Unit" THEN <<>> ELSE Spell(n.v)) \o Spell(l[4])

(* A statement that an else after it could not belong to. *)
RECURSIVE Closed(_)
Closed(n) ==
  /\ n.k # "If"
  /\ n.k \in {"IfElse", "While", "For", "Range", "Labeled"} => Closed(n.c[Len(n.c)])

NoPart == [k |-> "None", v |-> "", c |-> <<>>]
(* A type whose text is not the text of a name as well. *)
RECURSIVE NoName(_)
NoName(t) == \/ t.k = "Array"
             \/ t.k = "Named" /\ t.c[3] # NoPart
             \/ t.k = "QNamed" /\ (t.c[4] # NoPart \/ NoName(t.c[1]))
(* What case does not take for an expression, its text being that of a      *)
(* record pattern or of case null.                                          *)
PatternOrNull(x) == (x.k \in {"Call", "CallOn"} /\ x.c[Len(x.c)].c = <<>>) \/ (x.k = "Lit" /\ x.v = "null")

(* Whether x may stand in a slot of n. *)
Stands(x, slot, n) ==
  CASE slot = "Left"        -> Binding(x) >= Rank(n.v)
    [] slot = "Right"       -> Binding(x) > Rank(n.v)
    [] slot = "CastOperand" ->
         \/ Binding(x) >= 12 /\ ~(x.k = "Unary" /\ x.v \in {"+", "-", "++", "--"})
         \/ n.c[1].c[1].k = "Prim" /\ Len(n.c[1].c) = 1 /\ Binding(x) >= 12
         \/ n.c[1].c[1].k # "Prim" /\ x.k \in {"Lambda", "Lambda1"}
    [] slot = "CaseItem"    -> (Binding(x) >= 1 /\ ~PatternOrNull(x)) \/ x.k \in Patterns
    [] slot \in {"ElseExpr", "ElementValue", "PairOrValue"} -> Binding(x) >= 1 \/ x.k \in Category[slot]
    [] slot \in {"LambdaBody", "VarInit", "ForPart", "Resource"} -> Binding(x) >= 0 \/ x.k \in Category[slot]
    [] slot = "PrimaryOrType" -> Binding(x) >= 14 \/ NoName(x)
    [] slot = "FormalParam" -> x.k \in Category[slot] /\ (x.k = "Param" => x.c[2].k # "VarType")
    [] slot = "ThenStmt"    -> x.k \in StmtKinds /\ Closed(x)
    [] slot \in DOMAIN Category  -> x.k \in Category[slot]
    [] slot \in DOMAIN Tightness -> Binding(x) >= Tightness[slot]
    [] OTHER                -> x.k = slot

RECURSIVE Fits(_, _, _)
Fits(items, parts, n) ==
  IF items = <<>> THEN parts = <<>>
  ELSE LET h == Head(items)
           r == Tail(items)
       IN CASE h = "opt"   -> /\ parts # <<>>
                              /\ Head(parts).k = "None" \/ Stands(Head(parts), Head(r), n)
                              /\ Fits(Tail(r), Tail(parts), n)
            [] h \in Slots -> parts # <<>> /\ Stands(Head(parts), h, n) /\ Fits(r, Tail(parts), n)
            [] OTHER       -> Fits(r, parts, n)

NonEmpty == {"Name", "CastTypes", "CatchTypes", "TypeArgs", "TypeParams", "Bounds", "Implements", "ExtendsList",
             "Permits", "Throws", "Declarators", "Resources", "Labels", "Stmts", "CaseItems", "To", "With"}
(* A list that only its first part, or its only part, may be x of. *)
Leads(x)   == x.k \in {"Receiver", "QReceiver"}
StandsAlone(x, n) == (n.k = "ForInit" /\ x.k = "VarDecl") \/ (n.k = "Pairs" /\ x.k # "Pair")
IsList(n) ==
  /\ n.k \in NonEmpty => n.c # <<>>
  /\ \A j \in DOMAIN n.c : /\ Stands(n.c[j], ListOf[n.k][2], n)
                           /\ Leads(n.c[j]) => j = 1
                           /\ StandsAlone(n.c[j], n) => Len(n.c) = 1

(* What the shape of the productions does not say. *)
Sound(n) ==
  CASE n.k = "Try"         -> \E j \in {1, 3, 4} : n.c[j].c # <<>>
    [] n.k = "NewArray"    -> IF n.c[2].c = <<>> THEN n.c[3].c # <<>> /\ n.c[4] # NoPart ELSE n.c[4] = NoPart
    [] n.k = "Array"       -> n.c[2].c # <<>>
    [] n.k = "Wild"        -> n.v = "" <=> n.c[2] = NoPart
    [] n.k = "Index"       -> n.c[1].k = "NewArray" => n.c[1].c[4] # NoPart
    [] n.k = "Select"      -> n.c[1].k # "Name"
    [] n.k = "ExprStmt"    -> n.c[1].k # "SwitchExpr"
    [] n.k = "Case"        -> n.c[2] = NoPart \/ n.c[1].c[Len(n.c[1].c)].k # "Name"
    [] n.k = "SwitchBlock" -> n.c[1].c = <<>> \/ (n.c[2].c = <<>> /\ n.c[3] = NoPart)
    [] n.k \in TypeDecls \ {"Enum"} ->
         \A j \in DOMAIN n.c[Len(n.c)].c :
           LET m == n.c[Len(n.c)].c[j]
           IN m.k \in {"Ctor", "CompactCtor"} => m.c[IF m.k = "Ctor" THEN 3 ELSE 2] = n.c[2]
    [] n.k \in {"Ident", "Lit", "Self", "Mod"} -> n.v # ""
    [] OTHER               -> TRUE

RECURSIVE Shaped(_)
Shaped(n) ==
  /\ n.k \in DOMAIN Layout \cup DOMAIN ListOf
  /\ IF n.k \in DOMAIN Layout THEN Fits(Layout[n.k], n.c, n) ELSE IsList(n)
  /\ Sound(n)
  /\ \A j \in DOMAIN n.c : Shaped(n.c[j])

(* The seven kinds of expression that can be a statement or stand before or *)
(* behind the condition of a for; an idle tree has another one there.       *)
StatementExpression(x) ==
  \/ x.k \in {"Assign", "Postfix", "Call", "CallOn", "CallOnT", "New", "NewInner"}
  \/ x.k = "Unary" /\ x.v \in {"++", "--"}
RECURSIVE Idle(_)
Idle(n) ==
  \/ n.k \in {"ExprStmt", "ForInit", "ForPost"}
       /\ \E j \in DOMAIN n.c : n.c[j].k # "VarDecl" /\ ~StatementExpression(n.c[j])
  \/ \E j \in DOMAIN n.c : Idle(n.c[j])

Derives(n) == Shaped(n) /\ ~Idle(n)
=============================================================================
