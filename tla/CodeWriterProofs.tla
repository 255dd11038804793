--------------------------- MODULE CodeWriterProofs ---------------------------
(***************************************************************************)
(* Proofs about CodeWriter, for every body, every set of labels and every   *)
(* value of the limits.                                                     *)
(***************************************************************************)
EXTENDS CodeWriter, FiniteSetTheorems, TLAPS

-----------------------------------------------------------------------------
(* The writer's methods map writers to writers, and only branch touches the *)
(* list of branches.                                                        *)

(* Overwriting one field leaves the others as they were. *)
LEMMA SetField ==
  ASSUME NEW w \in Writer, NEW n \in Nat
  PROVE  /\ [w EXCEPT !.depth = n] \in Writer
         /\ [w EXCEPT !.depth = n].branches = w.branches
         /\ [w EXCEPT !.len = n] \in Writer
         /\ [w EXCEPT !.len = n].branches = w.branches
         /\ [w EXCEPT !.maxLocals = n] \in Writer
         /\ [w EXCEPT !.maxLocals = n].branches = w.branches
BY DEF Writer

(* fail sets the sticky error and nothing else. *)
LEMMA FailType ==
  ASSUME NEW w \in Writer, NEW e \in WriterErr
  PROVE  fail(w, e) \in Writer /\ fail(w, e).branches = w.branches
BY DEF fail, Writer

(* push tracks the depth and its maximum. *)
LEMMA PushType ==
  ASSUME NEW w \in Writer, NEW n \in Nat
  PROVE  push(w, n) \in Writer /\ push(w, n).branches = w.branches
<1> DEFINE d == w.depth + n
<1>1. d \in Nat BY DEF Writer
<1>2. [w EXCEPT !.depth = d] \in Writer /\ [w EXCEPT !.depth = d].branches = w.branches
  BY <1>1, SetField
<1>3. /\ [w EXCEPT !.depth = d, !.maxStack = MaxOf(@, d)] \in Writer
      /\ [w EXCEPT !.depth = d, !.maxStack = MaxOf(@, d)].branches = w.branches
  BY <1>1 DEF Writer, MaxOf
<1> QED BY <1>1, <1>2, <1>3, FailType DEF push, WriterErr

(* An underflow clamps the depth at zero. *)
LEMMA PopType ==
  ASSUME NEW w \in Writer, NEW n \in Nat
  PROVE  pop(w, n) \in Writer /\ pop(w, n).branches = w.branches
<1>1. CASE w.depth < n
  <2>1. /\ [w EXCEPT !.depth = 0] \in Writer
        /\ [w EXCEPT !.depth = 0].branches = w.branches
    BY SetField
  <2> QED BY <1>1, <2>1, FailType DEF pop, WriterErr
<1>2. CASE ~(w.depth < n)
  <2>1. w.depth - n \in Nat BY <1>2 DEF Writer
  <2> QED BY <1>2, <2>1, SetField DEF pop
<1> QED BY <1>1, <1>2

(* useLocal raises max_locals or refuses. *)
LEMMA UseLocalType ==
  ASSUME NEW w \in Writer, NEW n \in Nat
  PROVE  useLocal(w, n) \in Writer /\ useLocal(w, n).branches = w.branches
<1>1. MaxOf(w.maxLocals, n) \in Nat BY DEF Writer, MaxOf
<1> QED BY <1>1, SetField, FailType DEF useLocal, WriterErr

(* emitOp appends bytes or refuses unreachable code. *)
LEMMA EmitOpType ==
  ASSUME NEW w \in Writer, NEW n \in Nat
  PROVE  emitOp(w, n) \in Writer /\ emitOp(w, n).branches = w.branches
<1>1. w.len + n \in Nat BY DEF Writer
<1> QED BY <1>1, SetField, FailType DEF emitOp, WriterErr

(* terminate closes the open end. *)
LEMMA TerminateType ==
  ASSUME NEW w \in Writer
  PROVE  terminate(w) \in Writer /\ terminate(w).branches = w.branches
BY DEF terminate, Writer

(* noteDepth changes the depths recorded at labels. *)
LEMMA NoteDepthType ==
  ASSUME NEW w \in Writer, NEW T
  PROVE  noteDepth(w, T) \in Writer /\ noteDepth(w, T).branches = w.branches
<1> DEFINE D == [l \in Label |-> IF l \in T /\ w.ldepth[l] < 0 THEN w.depth ELSE w.ldepth[l]]
           noted == [w EXCEPT !.ldepth = D]
<1>1. D \in [Label -> Int] BY DEF Writer
<1>2. noted \in Writer /\ noted.branches = w.branches BY <1>1 DEF Writer
<1>3. fail(noted, "branch_depth") \in Writer
      /\ fail(noted, "branch_depth").branches = w.branches
  BY <1>2, FailType DEF WriterErr
<1>4. noteDepth(w, T) \in {noted, fail(noted, "branch_depth")} BY DEF noteDepth
<1> QED BY <1>2, <1>3, <1>4

-----------------------------------------------------------------------------
(* The calls a closure makes. *)

(* A straight-line run, with its local slots, pops and pushes. *)
LEMMA RunType ==
  ASSUME NEW w \in Writer, NEW slots \in Nat, NEW size \in Nat, NEW pops \in Nat,
         NEW pushes \in Nat
  PROVE  /\ push(pop(emitOp(useLocal(w, slots), size), pops), pushes) \in Writer
         /\ push(pop(emitOp(useLocal(w, slots), size), pops), pushes).branches = w.branches
<1> DEFINE u == useLocal(w, slots)
           e == emitOp(u, size)
           p == pop(e, pops)
           q == push(p, pushes)
<1>1. u \in Writer /\ u.branches = w.branches BY UseLocalType
<1>2. e \in Writer /\ e.branches = u.branches BY <1>1, EmitOpType
<1>3. p \in Writer /\ p.branches = e.branches BY <1>2, PopType
<1>4. q \in Writer /\ q.branches = p.branches BY <1>3, PushType
<1> QED BY <1>1, <1>2, <1>3, <1>4

(* A run that ends control also closes the open block. *)
LEMMA OpType ==
  ASSUME NEW w \in Writer, NEW i \in Call, i.call = "Op"
  PROVE  OpCall(w, i) \in Writer /\ OpCall(w, i).branches = w.branches
<1>1. PICK size \in Nat, pops \in Nat, pushes \in Nat, slots \in Nat :
        size = i.size /\ pops = i.pops /\ pushes = i.pushes /\ slots = i.slots
  BY DEF Call
<1> DEFINE q == push(pop(emitOp(useLocal(w, slots), size), pops), pushes)
<1>2. q \in Writer /\ q.branches = w.branches BY RunType
<1>3. OpCall(w, i) = IF i.ends THEN terminate(q) ELSE q BY <1>1 DEF OpCall
<1> HIDE DEF q
<1> QED BY <1>2, <1>3, TerminateType

(* A branch adds one row, wide exactly when its ordinal is to be widened. *)
LEMMA BranchType ==
  ASSUME NEW w \in Writer, NEW i \in Call, i.call = "branch"
  PROVE  /\ branch(w, i) \in Writer
         /\ \E r \in BranchRow :
              /\ branch(w, i).branches = Append(w.branches, r)
              /\ r.wide <=> Len(w.branches) + 1 \in widen
              /\ r.op = i.op /\ r.l = i.l /\ r.at = w.len
<1> DEFINE wide == Len(w.branches) + 1 \in widen
           r == [op |-> i.op, l |-> i.l, at |-> w.len, wide |-> wide]
<1>0. i.op \in {"goto", "if"} /\ i.l \in Label /\ i.pops \in Nat
  BY DEF Call
<1>1. PICK p \in Writer : p = pop(w, i.pops) /\ p.branches = w.branches
  BY <1>0, PopType
<1>2. PICK n \in Writer : n = noteDepth(p, {i.l}) /\ n.branches = w.branches
  BY <1>1, NoteDepthType
<1>3. PICK size \in Nat : size = BranchSize(i.op, wide) BY DEF BranchSize
<1>4. PICK e \in Writer : e = emitOp(n, size) /\ e.branches = w.branches
  <2>1. n.branches = w.branches BY <1>2
  <2> QED BY <2>1, EmitOpType
<1>5. wide \in BOOLEAN OBVIOUS
<1>6. w.len \in Nat BY DEF Writer
<1>7. r \in BranchRow BY <1>0, <1>5, <1>6 DEF BranchRow
<1>8. Append(e.branches, r) \in Seq(BranchRow) BY <1>4, <1>7 DEF Writer
<1> DEFINE b == [e EXCEPT !.branches = Append(@, r)]
<1>9. b \in Writer /\ b.branches = Append(w.branches, r)
  BY <1>4, <1>8 DEF Writer
<1>10. branch(w, i) = IF i.op = "goto" THEN terminate(b) ELSE b
  BY <1>1, <1>2, <1>3, <1>4 DEF branch
<1>11. branch(w, i) \in Writer /\ branch(w, i).branches = Append(w.branches, r)
  BY <1>9, <1>10, TerminateType
<1> QED BY <1>7, <1>11

(* A switch notes the depth at its targets and ends the open block. *)
LEMMA SwitchType ==
  ASSUME NEW w \in Writer, NEW i \in Call, i.call = "Switch"
  PROVE  SwitchCall(w, i) \in Writer /\ SwitchCall(w, i).branches = w.branches
<1>0. i.op \in {"table", "lookup"} /\ i.def \in Label /\ i.targets \in Seq(Label)
  BY DEF Call
<1>1. PICK pad \in 0..3 : pad = (4 - ((w.len + 1) % 4)) % 4
  <2>1. PICK n \in Nat : n = w.len BY DEF Writer
  <2>2. PICK k \in 0..3 : k = (n + 1) % 4 OBVIOUS
  <2>3. (4 - k) % 4 \in 0..3 OBVIOUS
  <2> QED BY <2>1, <2>2, <2>3
<1>2. PICK size \in Nat : size = SwitchSize(i, pad)
  <2>1. PICK n \in Nat : n = Len(i.targets) BY <1>0
  <2>2. 1 + pad + (12 + 4 * n) \in Nat /\ 1 + pad + (8 + 8 * n) \in Nat OBVIOUS
  <2> QED BY <2>1, <2>2 DEF SwitchSize
<1>3. PICK p \in Writer : p = pop(w, 1) /\ p.branches = w.branches
  BY PopType
<1>4. PICK n \in Writer : n = noteDepth(p, Targets(i)) /\ n.branches = w.branches
  BY <1>3, NoteDepthType
<1>5. PICK e \in Writer : e = emitOp(n, size) /\ e.branches = w.branches
  <2>1. n.branches = w.branches BY <1>4
  <2> QED BY <2>1, EmitOpType
<1> DEFINE r == [op |-> i.op, at |-> w.len, pad |-> pad, def |-> i.def, targets |-> i.targets]
           s == [e EXCEPT !.switches = Append(@, r)]
<1>6. r \in SwitchRow
  <2>1. w.len \in Nat BY DEF Writer
  <2> QED BY <1>0, <2>1 DEF SwitchRow
<1>7. Append(e.switches, r) \in Seq(SwitchRow) BY <1>6 DEF Writer
<1>8. s \in Writer /\ s.branches = w.branches BY <1>5, <1>7 DEF Writer
<1>9. SwitchCall(w, i) = terminate(s)
  BY <1>1, <1>2, <1>3, <1>4, <1>5 DEF SwitchCall
<1> HIDE DEF s
<1> QED BY <1>8, <1>9, TerminateType

(* Mark places a label, or refuses. *)
LEMMA MarkType ==
  ASSUME NEW w \in Writer, NEW l \in Label
  PROVE  MarkLabel(w, l) \in Writer /\ MarkLabel(w, l).branches = w.branches
<1>1. PICK placed \in Writer :
        /\ placed = [w EXCEPT !.pc[l] = w.len]
        /\ placed.branches = w.branches /\ placed.ldepth = w.ldepth
  <2> DEFINE P == [w EXCEPT !.pc[l] = w.len]
  <2>1. [w.pc EXCEPT ![l] = w.len] \in [Label -> Int] BY DEF Writer
  <2>2. P \in Writer BY <2>1 DEF Writer
  <2>3. P.branches = w.branches /\ P.ldepth = w.ldepth BY DEF Writer
  <2> HIDE DEF P
  <2>4. \E placed \in Writer : placed = P /\ placed.branches = w.branches
                                          /\ placed.ldepth = w.ldepth
    BY <2>2, <2>3
  <2> QED BY <2>4 DEF P
<1>2. ASSUME w.ldepth[l] >= 0
      PROVE  meetLabel(placed, l) \in Writer /\ meetLabel(placed, l).branches = w.branches
  <2>1. placed.ldepth[l] \in Nat BY <1>1, <1>2 DEF Writer
  <2> DEFINE a == [placed EXCEPT !.depth = placed.ldepth[l], !.reachable = TRUE]
  <2>2. a \in Writer /\ a.branches = w.branches BY <1>1, <2>1 DEF Writer
  <2>3. meetLabel(placed, l) \in {a, fail(placed, "fall_depth")} BY DEF meetLabel
  <2> HIDE DEF a
  <2>4. placed.branches = w.branches BY <1>1
  <2> QED BY <2>2, <2>3, <2>4, FailType DEF WriterErr
<1> DEFINE b == [placed EXCEPT !.ldepth[l] = w.depth]
<1>3. b \in Writer /\ b.branches = w.branches
  <2>1. [placed.ldepth EXCEPT ![l] = w.depth] \in [Label -> Int] BY <1>1 DEF Writer
  <2> QED BY <1>1, <2>1 DEF Writer
<1>4. \/ MarkLabel(w, l) = fail(w, "placed_twice")
      \/ w.ldepth[l] >= 0 /\ MarkLabel(w, l) = meetLabel(placed, l)
      \/ MarkLabel(w, l) = b
      \/ MarkLabel(w, l) = fail(placed, "unreachable_label")
  BY <1>1 DEF MarkLabel
<1>5. placed.branches = w.branches BY <1>1
<1> HIDE DEF b
<1> QED BY <1>2, <1>3, <1>4, <1>5, FailType DEF WriterErr

(* TryCatch, Line and Local add a row to a table. *)
LEMMA TableType ==
  ASSUME NEW w \in Writer, NEW i \in Call
  PROVE  /\ i.call = "TryCatch" =>
              TryCatchCall(w, i) \in Writer /\ TryCatchCall(w, i).branches = w.branches
         /\ LineCall(w) \in Writer /\ LineCall(w).branches = w.branches
         /\ i.call = "Local" =>
              LocalCall(w, i) \in Writer /\ LocalCall(w, i).branches = w.branches
<1>1. ASSUME i.call = "TryCatch"
      PROVE  TryCatchCall(w, i) \in Writer /\ TryCatchCall(w, i).branches = w.branches
  <2>0. i.start \in Label /\ i.end \in Label /\ i.handler \in Label BY <1>1 DEF Call
  <2> DEFINE r == [start |-> i.start, end |-> i.end, handler |-> i.handler]
             h == [w EXCEPT !.handlers = Append(@, r),
                            !.ldepth[i.handler] = IF @ < 0 THEN 1 ELSE @,
                            !.maxStack = MaxOf(@, 1)]
  <2>1. Append(w.handlers, r) \in Seq(HandlerRow)
    <3>1. r \in HandlerRow BY <2>0 DEF HandlerRow
    <3> QED BY <3>1 DEF Writer
  <2>2. [w.ldepth EXCEPT ![i.handler] = IF @ < 0 THEN 1 ELSE @] \in [Label -> Int]
    BY <2>0 DEF Writer
  <2>3. MaxOf(w.maxStack, 1) \in Nat BY DEF Writer, MaxOf
  <2>4. h \in Writer /\ h.branches = w.branches BY <2>1, <2>2, <2>3 DEF Writer
  <2>5. TryCatchCall(w, i) \in {h, fail(h, "handler_depth")} BY DEF TryCatchCall
  <2> HIDE DEF h
  <2> QED BY <2>4, <2>5, FailType DEF WriterErr
<1>2. LineCall(w) \in Writer /\ LineCall(w).branches = w.branches
  <2>1. U2(w.len) \in Nat BY DEF U2, Writer
  <2>2. Append(w.lines, U2(w.len)) \in Seq(Nat) BY <2>1 DEF Writer
  <2> QED BY <2>2 DEF LineCall, Writer
<1>3. ASSUME i.call = "Local"
      PROVE  LocalCall(w, i) \in Writer /\ LocalCall(w, i).branches = w.branches
  <2> DEFINE r == [start |-> i.start, end |-> i.end]
  <2>1. r \in LocalRow BY <1>3 DEF Call, LocalRow
  <2>2. Append(w.locals, r) \in Seq(LocalRow) BY <2>1 DEF Writer
  <2> QED BY <2>2 DEF LocalCall, Writer
<1> QED BY <1>1, <1>2, <1>3

(* Every call maps a writer to a writer; a branch call adds one row whose   *)
(* form follows widen, any other call leaves the branches alone.            *)
LEMMA ApplyType ==
  ASSUME NEW w \in Writer, NEW i \in Call
  PROVE  /\ Apply(w, i) \in Writer
         /\ i.call # "branch" => Apply(w, i).branches = w.branches
         /\ i.call = "branch" =>
              \E r \in BranchRow :
                /\ Apply(w, i).branches = Append(w.branches, r)
                /\ r.wide <=> Len(w.branches) + 1 \in widen
<1>0. i.call \in {"Op", "branch", "Switch", "Mark", "TryCatch", "Line", "Local", "Bad"}
  BY DEF Call
<1>1. CASE i.call = "Op" BY <1>1, OpType DEF Apply
<1>2. CASE i.call = "branch"
  <2>1. Apply(w, i) = branch(w, i) BY <1>2 DEF Apply
  <2> QED BY <1>2, <2>1, BranchType
<1>3. CASE i.call = "Switch" BY <1>3, SwitchType DEF Apply
<1>4. CASE i.call = "Mark"
  <2>1. i.l \in Label BY <1>4 DEF Call
  <2>2. Apply(w, i) = MarkLabel(w, i.l) BY <1>4 DEF Apply
  <2> QED BY <1>4, <2>1, <2>2, MarkType
<1>5. CASE i.call = "TryCatch" BY <1>5, TableType DEF Apply
<1>6. CASE i.call = "Line" BY <1>6, TableType DEF Apply
<1>7. CASE i.call = "Local" BY <1>7, TableType DEF Apply
<1>8. CASE i.call = "Bad" BY <1>8, FailType DEF Apply, WriterErr
<1> QED BY <1>0, <1>1, <1>2, <1>3, <1>4, <1>5, <1>6, <1>7, <1>8

-----------------------------------------------------------------------------
(* Counting the calls of a kind in a prefix of a body. *)

Count(b, k, i) == Cardinality({j \in 1..i : b[j].call = k})

(* One more call adds one or nothing. *)
LEMMA CountStep ==
  ASSUME NEW b, NEW k, NEW i \in Nat
  PROVE  /\ Count(b, k, i) \in Nat
         /\ Count(b, k, i + 1) = IF b[i + 1].call = k THEN Count(b, k, i) + 1
                                                       ELSE Count(b, k, i)
<1> DEFINE S(n) == {j \in 1..n : b[j].call = k}
<1>1. IsFiniteSet(S(i)) /\ Cardinality(S(i)) \in Nat
  <2>1. IsFiniteSet(1..i) BY FS_Interval
  <2>2. S(i) \subseteq 1..i OBVIOUS
  <2>3. IsFiniteSet(S(i)) BY <2>1, <2>2, FS_Subset
  <2> QED BY <2>3, FS_CardinalityType
<1>2. CASE b[i + 1].call = k
  <2>1. S(i + 1) = S(i) \cup {i + 1} BY <1>2
  <2>2. i + 1 \notin S(i) OBVIOUS
  <2> HIDE DEF S
  <2>3. Cardinality(S(i + 1)) = Cardinality(S(i)) + 1 BY <1>1, <2>1, <2>2, FS_AddElement
  <2> QED BY <1>1, <1>2, <2>3 DEF S, Count
<1>3. CASE b[i + 1].call # k
  <2>1. S(i + 1) = S(i) BY <1>3
  <2> QED BY <1>1, <1>3, <2>1 DEF Count
<1> QED BY <1>2, <1>3, <1>1 DEF Count

(* A longer prefix of a longer body counts at least as much. *)
LEMMA CountMono ==
  ASSUME NEW a, NEW b, NEW k, NEW i \in Nat, NEW j \in Nat, i <= j,
         \A n \in 1..i : a[n] = b[n]
  PROVE  Count(a, k, i) <= Count(b, k, j)
<1> DEFINE A == {n \in 1..i : a[n].call = k}
           B == {n \in 1..j : b[n].call = k}
<1>1. A \subseteq B OBVIOUS
<1>2. IsFiniteSet(B)
  <2>1. IsFiniteSet(1..j) BY FS_Interval
  <2>2. B \subseteq 1..j OBVIOUS
  <2> QED BY <2>1, <2>2, FS_Subset
<1> HIDE DEF A, B
<1>3. Cardinality(A) <= Cardinality(B) BY <1>1, <1>2, FS_Subset
<1> QED BY <1>3 DEF A, B, Count

(* Counts over equal prefixes are equal. *)
LEMMA CountSame ==
  ASSUME NEW a, NEW b, NEW k, NEW i \in Nat, \A n \in 1..i : a[n] = b[n]
  PROVE  Count(a, k, i) = Count(b, k, i)
<1>1. {n \in 1..i : a[n].call = k} = {n \in 1..i : b[n].call = k} OBVIOUS
<1> QED BY <1>1 DEF Count

(* Nth counts over the recorded body. *)
LEMMA NthIsCount == \A k, i : Nth(k, i) = Count(body, k, i)
BY DEF Nth, Count, IsCall

-----------------------------------------------------------------------------
(* The inductive invariant: every replay so far has been paid for by a      *)
(* branch that is wide now, and wide branches are branches of the body.     *)

Ledger ==
  /\ status = "emit" => /\ Len(c.branches) = Count(body, "branch", pos - 1)
                        /\ \A k \in DOMAIN c.branches : c.branches[k].wide <=> k \in widen
  /\ widen \subseteq 1..Count(body, "branch", Len(body))
  /\ pass <= Cardinality(widen)
  /\ status = "emit" => pass < maxReplays
  /\ err = "no_convergence" => pass >= maxReplays

CodeInv == TypeOK /\ Ledger

(* The initial state of Code. *)
LEMMA CodeInit == Init => CodeInv
<1> SUFFICES ASSUME Init PROVE CodeInv OBVIOUS
<1> USE DEF Init
<1>1. NewWriter \in Writer
  <2>1. [l \in Label |-> -1] \in [Label -> Int] OBVIOUS
  <2> QED BY <2>1, CodeAssumption DEF NewWriter, Writer
<1>2. TypeOK
  BY <1>1, CodeAssumption DEF TypeOK, NoErr, WriterErr, CodeErr
<1>3. Cardinality({}) = 0 BY FS_EmptySet
<1> QED BY <1>2, <1>3, CodeAssumption DEF CodeInv, Ledger, NoErr

(* widen is a finite set of ordinals. *)
LEMMA WidenFinite == 
  ASSUME Ledger, TypeOK
  PROVE  /\ IsFiniteSet(widen) /\ Cardinality(widen) \in Nat
         /\ Cardinality(widen) <= Count(body, "branch", Len(body))
         /\ Count(body, "branch", Len(body)) \in Nat
<1> DEFINE n == Count(body, "branch", Len(body))
<1>1. Len(body) \in Nat BY DEF TypeOK
<1>2. n \in Nat BY <1>1, CountStep
<1>3. widen \subseteq 1..n BY DEF Ledger
<1> HIDE DEF n
<1>4. IsFiniteSet(1..n) /\ Cardinality(1..n) = n BY <1>2, FS_Interval
<1>5. IsFiniteSet(widen) /\ Cardinality(widen) <= n BY <1>3, <1>4, FS_Subset
<1>6. Cardinality(widen) \in Nat BY <1>5, FS_CardinalityType
<1> QED BY <1>2, <1>5, <1>6 DEF n

(* Giving up: nothing changes but the verdict. *)
LEMMA FailStep ==
  ASSUME CodeInv, NEW e \in WriterErr \cup CodeErr, Fail(e), status \in {"emit", "replay"},
         e = "no_convergence" => pass >= maxReplays
  PROVE  CodeInv'
<1>1. TypeOK'
  <2>1. e # NoErr BY DEF NoErr, WriterErr, CodeErr
  <2> QED BY <2>1 DEF CodeInv, TypeOK, Fail
<1>2. Ledger' BY DEF CodeInv, Ledger, Fail
<1> QED BY <1>1, <1>2 DEF CodeInv

(* One call of the closure keeps the ledger. *)
LEMMA EmitStep ==
  ASSUME CodeInv, Emit
  PROVE  CodeInv'
<1> DEFINE i == body[pos]
<1> USE DEF CodeInv
<1>0. /\ body \in Seq(Call) /\ pos \in 1..Len(body) /\ pos - 1 \in Nat /\ c \in Writer
      /\ i \in Call
  BY DEF TypeOK, Emit
<1>1. c' = Apply(c, i) /\ pos' = pos + 1 /\ UNCHANGED <<body, pass, widen, status, err, method>>
  BY DEF Emit
<1>2. c' \in Writer BY <1>0, <1>1, ApplyType
<1>3. TypeOK'
  <2>1. pos' \in 1..(Len(body) + 1) BY <1>0, <1>1
  <2>2. trace' \in Seq([pc: Nat, depth: Nat, reachable: BOOLEAN])
    <3> DEFINE r == [pc |-> c.len, depth |-> c.depth, reachable |-> c.reachable]
    <3>1. r \in [pc: Nat, depth: Nat, reachable: BOOLEAN] BY <1>0 DEF Writer
    <3>2. trace' = Append(trace, r) BY DEF Emit
    <3> HIDE DEF r
    <3> QED BY <3>1, <3>2 DEF TypeOK
  <2> QED BY <1>1, <1>2, <2>1, <2>2 DEF TypeOK
<1>4. Len(c'.branches) = Count(body, "branch", pos)
      /\ \A k \in DOMAIN c'.branches : c'.branches[k].wide <=> k \in widen
  <2>1. /\ Len(c.branches) = Count(body, "branch", pos - 1)
        /\ \A k \in DOMAIN c.branches : c.branches[k].wide <=> k \in widen
    BY DEF Ledger, Emit
  <2>2. c.branches \in Seq(BranchRow) BY <1>0 DEF Writer
  <2>3. pos = (pos - 1) + 1 BY <1>0
  <2>4. Count(body, "branch", pos) = IF i.call = "branch" THEN Count(body, "branch", pos - 1) + 1
                                                         ELSE Count(body, "branch", pos - 1)
    BY <1>0, <2>3, CountStep
  <2>5. CASE i.call # "branch"
    <3>1. c'.branches = c.branches BY <1>0, <1>1, <2>5, ApplyType
    <3> QED BY <2>1, <2>4, <2>5, <3>1
  <2>6. CASE i.call = "branch"
    <3>1. PICK r \in BranchRow : /\ c'.branches = Append(c.branches, r)
                                 /\ r.wide <=> Len(c.branches) + 1 \in widen
      BY <1>0, <1>1, <2>6, ApplyType
    <3> QED BY <2>1, <2>2, <2>4, <2>6, <3>1
  <2> QED BY <2>5, <2>6
<1>5. Ledger'
  <2>1. pos' - 1 = pos BY <1>0, <1>1
  <2> QED BY <1>1, <1>4, <2>1 DEF Ledger
<1> QED BY <1>3, <1>5

(* Pass 0 extends the body; what was counted stays counted. *)
LEMMA ChooseStep ==
  ASSUME CodeInv, NEW f \in Fragment, Choose(f)
  PROVE  CodeInv'
<1> USE DEF CodeInv
<1>0. /\ body \in Seq(Call) /\ f \in Seq(Call) /\ body' = body \o f
      /\ UNCHANGED <<pos, pass, widen, c, trace, status, err, method>>
      /\ pos \in 1..(Len(body) + 1)
  BY CodeAssumption DEF Choose, TypeOK
<1>1. body' \in Seq(Call) /\ Len(body') = Len(body) + Len(f) /\ Len(f) \in Nat
      /\ Len(body) \in Nat /\ \A n \in 1..Len(body) : body[n] = body'[n]
  BY <1>0
<1>2. TypeOK' BY <1>0, <1>1 DEF TypeOK
<1>3. Count(body, "branch", pos - 1) = Count(body', "branch", pos - 1)
  <2>1. pos - 1 \in Nat /\ \A n \in 1..(pos - 1) : body[n] = body'[n] BY <1>0, <1>1
  <2> QED BY <2>1, CountSame
<1>4. Count(body, "branch", Len(body)) <= Count(body', "branch", Len(body'))
  BY <1>1, CountMono
<1>5. Count(body, "branch", Len(body)) \in Nat /\ Count(body', "branch", Len(body')) \in Nat
  BY <1>1, CountStep
<1>6. widen' \subseteq 1..Count(body', "branch", Len(body'))
  <2>1. PICK m \in Nat, n \in Nat : /\ m = Count(body, "branch", Len(body))
                                    /\ n = Count(body', "branch", Len(body'))
    BY <1>5
  <2>2. m <= n /\ widen \subseteq 1..m BY <1>4, <2>1 DEF Ledger
  <2>3. widen \subseteq 1..n BY <2>2
  <2> QED BY <1>0, <2>1, <2>3
<1>7. Ledger' BY <1>0, <1>3, <1>6 DEF Ledger
<1> QED BY <1>2, <1>7

(* A replay pays with at least one branch that was short. *)
LEMMA ReplayStep ==
  ASSUME CodeInv, Replay
  PROVE  /\ CodeInv'
         /\ widen \subseteq widen' /\ widen # widen'
<1> USE DEF CodeInv
<1>0. /\ status = "emit" /\ c.err = NoErr /\ pos = Len(body) + 1 /\ pos - 1 = Len(body)
      /\ c.branches \in Seq(BranchRow) /\ Len(body) \in Nat
  <2>1. status = "emit" /\ c.err = NoErr /\ pos > Len(body)
    BY DEF Replay, Resolvable, Returned
  <2>2. pos \in 1..(Len(body) + 1) /\ Len(body) \in Nat BY DEF TypeOK
  <2>3. c.branches \in Seq(BranchRow) BY DEF TypeOK, Writer
  <2> QED BY <2>1, <2>2, <2>3
<1>1. /\ widen' = widen \cup TooFar(c) /\ pass' = pass + 1 /\ status' = "replay"
      /\ UNCHANGED <<body, pos, c, trace, err, method>> /\ TooFar(c) # {}
  BY DEF Replay
<1>2. /\ Len(c.branches) = Count(body, "branch", Len(body))
      /\ \A k \in DOMAIN c.branches : c.branches[k].wide <=> k \in widen
      /\ pass < maxReplays
  BY <1>0 DEF Ledger
<1>3. TooFar(c) \subseteq 1..Count(body, "branch", Len(body)) /\ TooFar(c) \cap widen = {}
  BY <1>0, <1>2 DEF TooFar
<1>4. widen' \subseteq 1..Count(body, "branch", Len(body)) BY <1>1, <1>3 DEF Ledger
<1>5. TypeOK'
  <2>1. widen' \subseteq Nat BY <1>4
  <2>2. pass' \in 0..maxReplays BY <1>1, <1>2, CodeAssumption DEF TypeOK
  <2> QED BY <1>0, <1>1, <2>1, <2>2 DEF TypeOK
<1>6. pass' <= Cardinality(widen')
  <2>1. PICK k \in TooFar(c) : k \notin widen BY <1>1, <1>3
  <2>2. IsFiniteSet(widen) /\ Cardinality(widen) \in Nat BY WidenFinite
  <2>3. Cardinality(widen \cup {k}) = Cardinality(widen) + 1 BY <2>1, <2>2, FS_AddElement
  <2>4. IsFiniteSet(widen') /\ Cardinality(widen \cup {k}) <= Cardinality(widen')
    <3> DEFINE n == Count(body, "branch", Len(body))
    <3>1. n \in Nat BY <1>0, CountStep
    <3> HIDE DEF n
    <3>2. IsFiniteSet(1..n) BY <3>1, FS_Interval
    <3>3. IsFiniteSet(widen') BY <1>4, <3>2, FS_Subset DEF n
    <3>4. widen \cup {k} \subseteq widen' BY <1>1
    <3> QED BY <3>3, <3>4, FS_Subset
  <2>5. Cardinality(widen') \in Nat BY <2>4, FS_CardinalityType
  <2>6. pass \in Nat /\ pass <= Cardinality(widen)
    <3>1. pass \in Nat BY CodeAssumption DEF TypeOK
    <3> QED BY <3>1 DEF Ledger
  <2> QED BY <1>1, <2>2, <2>3, <2>4, <2>5, <2>6
<1>7. Ledger' BY <1>0, <1>1, <1>4, <1>6 DEF Ledger, TypeOK, NoErr
<1>8. widen \subseteq widen' /\ widen # widen' BY <1>1, <1>3
<1> QED BY <1>5, <1>7, <1>8

(* CodeInv is preserved by every step, and a step that starts a new pass    *)
(* widens.                                                                  *)
LEMMA CodeStep ==
  ASSUME CodeInv, [Next]_vars
  PROVE  CodeInv' /\ (pass' # pass => widen \subseteq widen' /\ widen # widen')
<1>1. CASE StartPass
  <2> USE <1>1 DEF StartPass
  <2>1. NewWriter \in Writer /\ NewWriter.branches = <<>>
    <3>1. [l \in Label |-> -1] \in [Label -> Int] OBVIOUS
    <3> QED BY <3>1, CodeAssumption DEF NewWriter, Writer
  <2>2. TypeOK'
    <3>1. 1 \in 1..(Len(body) + 1) BY DEF CodeInv, TypeOK
    <3> QED BY <2>1, <3>1 DEF CodeInv, TypeOK
  <2>3. Count(body, "branch", 0) = 0
    <3>1. {j \in 1..0 : body[j].call = "branch"} = {} OBVIOUS
    <3> QED BY <3>1, FS_EmptySet DEF Count
  <2>4. Ledger' BY <2>1, <2>3 DEF CodeInv, Ledger
  <2> QED BY <2>2, <2>4 DEF CodeInv
<1>2. CASE NotConverged
  BY <1>2, FailStep DEF NotConverged, Fail, CodeErr
<1>3. CASE Emit
  BY <1>3, EmitStep DEF Emit
<1>4. CASE Refuse
  <2>1. PICK e \in WriterErr \cup CodeErr : Fail(e) /\ e # "no_convergence"
    <3>1. c.err \in {NoErr} \cup WriterErr BY DEF CodeInv, TypeOK, Writer
    <3>2. CASE c.err # NoErr /\ Fail(c.err)
      BY <3>1, <3>2 DEF WriterErr
    <3>3. CASE Fail("falls_off_the_end") BY <3>3 DEF CodeErr
    <3>4. CASE Fail("never_placed") BY <3>4 DEF CodeErr
    <3> QED BY <1>4, <3>2, <3>3, <3>4 DEF Refuse
  <2>2. status = "emit" BY <1>4 DEF Refuse, Returned
  <2> QED BY <2>1, <2>2, FailStep DEF Fail
<1>5. CASE Replay
  BY <1>5, ReplayStep
<1>6. CASE Overflow
  <2>1. PICK e \in CodeErr : Fail(e) /\ e # "no_convergence"
    BY <1>6 DEF Overflow, CodeErr
  <2>2. status = "emit" BY <1>6 DEF Overflow, Settled, Resolvable, Returned
  <2> QED BY <2>1, <2>2, FailStep DEF Fail
<1>7. CASE Commit
  <2>1. /\ status = "emit" /\ status' = "done" /\ method' = Encoded(c)
        /\ UNCHANGED <<body, pos, pass, widen, c, trace, err>>
        /\ c.len \in 1..MaxCodeLength
    BY <1>7 DEF Commit, Settled, Resolvable, Returned
  <2>2. method' # None
    <3>1. method'.len = c.len BY <2>1 DEF Encoded
    <3>2. None.len = -1 BY DEF None
    <3> QED BY <2>1, <3>1, <3>2, CodeAssumption
  <2>3. TypeOK' BY <2>1, <2>2 DEF CodeInv, TypeOK
  <2>4. Ledger' BY <2>1 DEF CodeInv, Ledger
  <2> QED BY <2>1, <2>3, <2>4 DEF CodeInv
<1>8. ASSUME NEW f \in Fragment, Choose(f)
      PROVE  CodeInv' /\ (pass' # pass => widen \subseteq widen' /\ widen # widen')
  BY <1>8, ChooseStep DEF Choose
<1>9. CASE UNCHANGED vars
  BY <1>9 DEF CodeInv, TypeOK, Ledger, vars
<1> QED BY <1>1, <1>2, <1>3, <1>4, <1>5, <1>6, <1>7, <1>8, <1>9 DEF Next, Code

(* The inductive invariant holds throughout a call of Code. *)
LEMMA CodeSafe == Spec => []CodeInv
BY CodeInit, CodeStep, PTL DEF Spec

(* Code never leaves the types its Go declarations give its state: the      *)
(* stack depth never goes negative, the pass counter never runs past        *)
(* maxReplays and a body is committed exactly when Code succeeds.           *)
THEOREM CodeTypes == Spec => []TypeOK
<1>1. CodeInv => TypeOK BY DEF CodeInv
<1> QED BY <1>1, CodeSafe, PTL

(* Every replay widens a branch and narrows none (MethodBuilder.Code,       *)
(* CodeWriter.resolve).                                                     *)
THEOREM ReplaysWiden == Spec => EachReplayWidens
<1>1. CodeInv /\ [Next]_vars
        => [pass' # pass => widen \subseteq widen' /\ widen # widen']_vars
  BY CodeStep
<1> QED BY <1>1, CodeSafe, PTL DEF Spec, EachReplayWidens

(* A body with fewer branches than maxReplays is never refused for want of  *)
(* convergence, whatever its layout and whatever the limits (the loop of    *)
(* MethodBuilder.Code).                                                     *)
THEOREM ConvergesInTime == Spec => []FewBranchesConverge
<1>1. CodeInv => FewBranchesConverge
  <2> SUFFICES ASSUME CodeInv, err = "no_convergence"
               PROVE  ~(Nth("branch", Len(body)) < maxReplays)
    BY DEF FewBranchesConverge
  <2>1. pass >= maxReplays /\ pass <= Cardinality(widen) BY DEF CodeInv, Ledger
  <2>2. /\ Cardinality(widen) <= Count(body, "branch", Len(body))
        /\ Cardinality(widen) \in Nat /\ Count(body, "branch", Len(body)) \in Nat
    BY WidenFinite DEF CodeInv
  <2>3. maxReplays \in Nat /\ pass \in 0..maxReplays
    BY CodeAssumption DEF CodeInv, TypeOK
  <2>4. Nth("branch", Len(body)) = Count(body, "branch", Len(body)) BY NthIsCount
  <2>5. ~(Count(body, "branch", Len(body)) < maxReplays)
    <3>1. \A p, m, w, n \in Nat : p >= m /\ p <= w /\ w <= n => ~(n < m) OBVIOUS
    <3>2. pass \in Nat BY <2>3
    <3> QED BY <2>1, <2>2, <2>3, <3>1, <3>2
  <2> QED BY <2>4, <2>5
<1> QED BY <1>1, CodeSafe, PTL
=============================================================================
