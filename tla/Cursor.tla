-------------------------------- MODULE Cursor --------------------------------
(***************************************************************************)
(* The parser's own state (src/parser: parser.go, error.go, speculate.go)   *)
(* and the token vocabulary it reads (src/token).                           *)
(*                                                                         *)
(* A token is its kind; an identifier is its spelling, so a contextual      *)
(* keyword is one of the words in Ctx.  "~>" and "~>=" are the tokens > and *)
(* >= with nothing between them and the token before (FlagAdjacent).        *)
(* Positions are token indexes.  The struct p of the code is the record p;  *)
(* p.st holds the nodes finished so far, which the code keeps in the frames *)
(* of its recursion, and p.ok is FALSE when a speculative attempt gave up.  *)
(***************************************************************************)
EXTENDS Integers, Sequences, TLC

CONSTANTS Names,        \* identifiers that are no contextual keyword
          MaxDepth,     \* maxDepth
          MaxResync     \* maxResync
ASSUME CursorAssumption == MaxDepth \in Nat /\ MaxResync \in Nat

Ctx == {"exports", "module", "open", "opens", "permits", "provides", "record", "requires",
        "sealed", "to", "transitive", "uses", "var", "when", "with", "yield"}
Literals   == {"lit", "null"}
Primitives == {"boolean", "byte", "short", "int", "long", "char", "float", "double"}
BarredFromTypeIdentifier == {"permits", "record", "sealed", "var", "yield"}

Kind(t)     == CASE t = "~>" -> ">" [] t = "~>=" -> ">=" [] OTHER -> t
Adjacent(t) == t \in {"~>", "~>="}

Precedence(k) ==
  CASE k = "||" -> 1 [] k = "&&" -> 2 [] k = "|" -> 3 [] k = "^" -> 4 [] k = "&" -> 5
    [] k \in {"==", "!="} -> 6
    [] k \in {"<", ">", "<=", ">=", "instanceof"} -> 7
    [] k \in {"<<", ">>", ">>>"} -> 8
    [] k \in {"+", "-"} -> 9
    [] k \in {"*", "/", "%"} -> 10
    [] OTHER -> 0

(* The compound operator at the head of toks and the tokens it takes; greedy. *)
Join(toks) ==
  LET AdjacentIs(j, k) == j <= Len(toks) /\ Adjacent(toks[j]) /\ Kind(toks[j]) = k
  IN CASE Kind(toks[1]) # ">"                      -> [op |-> "none", n |-> 0]
       [] AdjacentIs(2, ">=")                      -> [op |-> ">>=", n |-> 2]
       [] AdjacentIs(2, ">") /\ AdjacentIs(3, ">=") -> [op |-> ">>>=", n |-> 3]
       [] AdjacentIs(2, ">") /\ AdjacentIs(3, ">")  -> [op |-> ">>>", n |-> 3]
       [] AdjacentIs(2, ">")                       -> [op |-> ">>", n |-> 2]
       [] OTHER                                    -> [op |-> "none", n |-> 0]

(* A node: its kind, the token that tells it from its siblings, its parts.  *)
(* NoNode is the part that is not there (a nil field).                      *)
N(k, v, c) == [k |-> k, v |-> v, c |-> c]
NoNode     == N("None", "", <<>>)

newParser(toks, mode) ==
  [toks |-> toks, mode |-> mode, i |-> 1, diags |-> <<>>, quiet |-> FALSE,
   lastErr |-> 0, resyncs |-> 0, depth |-> 0, st |-> <<>>, ok |-> TRUE]

(* --- cursor --- *)
kind(p)     == Kind(p.toks[p.i])
peek(p, n)  == Kind(p.toks[IF p.i + n > Len(p.toks) THEN Len(p.toks) ELSE p.i + n])
at(p, k)    == kind(p) = k
atEOF(p)    == at(p, "EOF")
atIn(p, S)  == kind(p) \in S
isIdent(k)  == k \in Names \cup Ctx
atIdent(p)  == isIdent(kind(p))
isPrimitiveKind(k) == k \in Primitives
next(p)     == [p EXCEPT !.i = IF atEOF(p) THEN @ ELSE @ + 1, !.quiet = FALSE]
accept(p, k) == IF at(p, k) THEN next(p) ELSE p

(* --- nodes --- *)
Push(p, n)  == [p EXCEPT !.st = Append(@, n)]
Top(p)      == p.st[Len(p.st)]
Missing(p)  == Push(p, NoNode)
Mark(p, k)  == Push(p, N(k, "", <<>>))
(* Everything pushed since p0 becomes the parts of one node. *)
Built(p0, p, k, v) ==
  [p EXCEPT !.st = Append(SubSeq(@, 1, Len(p0.st)),
                          N(k, v, SubSeq(@, Len(p0.st) + 1, Len(@))))]
(* The parts of the topmost node that the code keeps, of those just built. *)
Keep(p, Kept(_)) == [p EXCEPT !.st[Len(p.st)].c = Kept(@)]

(* --- diagnostics --- *)
error(p, lo) ==
  IF p.quiet \/ lo = p.lastErr THEN p
  ELSE [p EXCEPT !.quiet = TRUE, !.lastErr = lo, !.diags = Append(@, lo)]
errorExpected(p) == error(p, p.i)
expect(p, k)     == IF at(p, k) THEN next(p) ELSE errorExpected(p)
bad(p)           == Push(p, N("Bad", "", <<>>))
isBad(p)         == Top(p).k = "Bad"

(* --- identifiers --- *)
parseIdent(p) ==
  IF atIdent(p) THEN Push(next(p), N("Ident", p.toks[p.i], <<>>))
  ELSE Push(errorExpected(p), N("Ident", "", <<>>))
parseTypeIdent(p) ==
  parseIdent(IF kind(p) \in BarredFromTypeIdentifier THEN errorExpected(p) ELSE p)
parseMethodIdent(p) ==
  parseIdent(IF at(p, "yield") THEN errorExpected(p) ELSE p)
parseVarDeclaratorId(p) ==
  IF at(p, "_") THEN Push(next(p), N("Ident", "_", <<>>)) ELSE parseIdent(p)

(* --- recovery --- *)
(* Mutant of budget: attempts at recovery are not counted. *)
budgetUncounted(p) == [p |-> p, may |-> TRUE]

budget(p) ==
  IF "Tolerant" \in p.mode THEN [p |-> p, may |-> TRUE]
  ELSE [p |-> [p EXCEPT !.resyncs = @ + 1], may |-> p.resyncs + 1 <= MaxResync]
(* One bracket group, opener through closer.  closes counts the closers     *)
(* still to come: the code keeps which, and pops without comparing.         *)
RECURSIVE skipGroup(_, _)
skipGroup(p, closes) ==
  IF atEOF(p) THEN p
  ELSE LET closer == atIn(p, {")", "]", "}"})
           left   == IF atIn(p, {"(", "[", "{"}) THEN closes + 1
                     ELSE IF closer THEN closes - 1 ELSE closes
       IN IF closer /\ closes = 0 THEN p
          ELSE IF left = 0 THEN next(p)
          ELSE skipGroup(next(p), left)
skipBalanced(p) == skipGroup(p, 0)

RECURSIVE advance(_, _)
advance(p, follow) ==
  IF atEOF(p) \/ atIn(p, follow) THEN p
  ELSE advance(IF atIn(p, {"(", "[", "{"}) THEN skipBalanced(p) ELSE next(p), follow)
advanceTo(p, follow) ==
  LET b == budget(p)
  IN IF b.may THEN advance(b.p, follow) ELSE [b.p EXCEPT !.i = Len(b.p.toks)]
resync(p) == accept(advanceTo(p, {";", "}"}), ";")

(* --- nesting: a refused enter is never left --- *)
enter(p)   == [p EXCEPT !.depth = @ + 1]
leave(p)   == [p EXCEPT !.depth = @ - 1]
tooDeep(p) == p.depth + 1 > MaxDepth

(* --- speculation: a failed attempt leaves the parser exactly as it was --- *)
fail(p)         == [p EXCEPT !.ok = FALSE]

(* Mutant of rollback: the window in which errors are suppressed stays. *)
rollbackKeepsQuiet(m, q) ==
  [m EXCEPT !.ok = FALSE, !.quiet = q.quiet]

rollback(m, q)  == [m EXCEPT !.ok = FALSE]
spec(m, q)      == IF q.ok THEN q ELSE rollback(m, q)
Again(q)        == [q EXCEPT !.ok = TRUE]          \* go on after a failed attempt
Otherwise(q, alt(_)) == IF q.ok THEN q ELSE alt(Again(q))
=============================================================================
