--------------------------- MODULE CodeLayoutProofs ---------------------------
(***************************************************************************)
(* Proofs about the layout of the bodies CodeWriter commits: branches and   *)
(* switches land on their labels, stack depths agree on every edge and the  *)
(* tables speak of the final layout.                                        *)
(***************************************************************************)
EXTENDS CodeWriterProofs

Tables == {"branch", "Switch", "TryCatch", "Line", "Local"}

(* The writer's table that calls of kind k add to. *)
TableOf(w, k) ==
  CASE k = "branch"   -> w.branches
    [] k = "Switch"   -> w.switches
    [] k = "TryCatch" -> w.handlers
    [] k = "Line"     -> w.lines
    [] k = "Local"    -> w.locals

(* The row call x adds when it is made at offset a and is the n-th of its   *)
(* kind.                                                                    *)
Row(x, a, n) ==
  CASE x.call = "branch"   -> [op |-> x.op, l |-> x.l, at |-> a, wide |-> n \in widen]
    [] x.call = "Switch"   -> [op |-> x.op, at |-> a, pad |-> (4 - ((a + 1) % 4)) % 4,
                               def |-> x.def, targets |-> x.targets]
    [] x.call = "TryCatch" -> [start |-> x.start, end |-> x.end, handler |-> x.handler]
    [] x.call = "Line"     -> U2(a)
    [] x.call = "Local"    -> [start |-> x.start, end |-> x.end]

Adds(w, v, x) ==
  \A k \in Tables :
    TableOf(v, k) = IF x.call = k
                    THEN Append(TableOf(w, k), Row(x, w.len, Len(TableOf(w, k)) + 1))
                    ELSE TableOf(w, k)

Point == [pc: Nat, depth: Nat, reachable: BOOLEAN]
Now(w) == [pc |-> w.len, depth |-> w.depth, reachable |-> w.reachable]

(* What call x, the n-th of its kind, does to the point of control: from a  *)
(* to z, with the labels at pc and their depths ld.                         *)
Moves(x, n, a, z, pc, ld) ==
  /\ x.call = "Op" => /\ a.depth >= x.pops /\ z.depth = a.depth - x.pops + x.pushes
                      /\ z.reachable <=> ~x.ends
  /\ x.call = "branch" => /\ a.depth >= x.pops /\ z.depth = a.depth - x.pops
                          /\ z.pc = a.pc + BranchSize(x.op, n \in widen)
                          /\ z.reachable <=> x.op # "goto"
                          /\ ld[x.l] = z.depth
  /\ x.call = "Switch" => /\ a.depth >= 1 /\ z.depth = a.depth - 1
                          /\ ~z.reachable
                          /\ \A l \in Targets(x) : ld[l] = z.depth
  /\ x.call = "Mark" => /\ pc[x.l] = a.pc /\ ld[x.l] = z.depth
                        /\ z.reachable /\ (a.reachable => z.depth = a.depth)
  /\ x.call = "TryCatch" => z = a /\ ld[x.handler] = 1
  /\ x.call \in {"Line", "Local"} => z = a
  /\ x.call # "Bad"

(* Labels stay where they were put and keep the depth they were given. *)
Placing(w, v, x) ==
  /\ x.call = "Mark" => w.pc[x.l] < 0 /\ v.pc = [w.pc EXCEPT ![x.l] = w.len]
  /\ x.call # "Mark" => v.pc = w.pc
  /\ \A l \in Label : w.ldepth[l] >= 0 => v.ldepth[l] = w.ldepth[l]
  /\ w.len <= v.len /\ w.maxStack <= v.maxStack

(* max_stack covers the depth here and the depth at every label. *)
Covered(w) ==
  /\ w.depth <= w.maxStack /\ w.maxStack <= MaxStack
  /\ \A l \in Label : w.ldepth[l] <= w.maxStack

(* What a call that did not fail did. *)
Effect(w, v, x) ==
  /\ Adds(w, v, x) /\ Placing(w, v, x) /\ (Covered(w) => Covered(v))
  /\ \A n \in Nat : n = Len(TableOf(w, x.call)) + 1 \/ x.call \notin Tables =>
       Moves(x, n, Now(w), Now(v), v.pc, v.ldepth)
-----------------------------------------------------------------------------
(* The invariant of a pass that has not failed. *)

(* The point of control before call i, for the calls made and the next one. *)
At(i) == IF i <= Len(trace) THEN trace[i] ELSE Now(c)

Tabled ==
  \A k \in Tables :
    /\ Len(TableOf(c, k)) = Count(body, k, pos - 1)
    /\ \A i \in 1..(pos - 1) : body[i].call = k =>
         TableOf(c, k)[Count(body, k, i)] = Row(body[i], At(i).pc, Count(body, k, i))
Moved ==
  \A i \in 1..(pos - 1) :
    /\ Moves(body[i], Count(body, body[i].call, i), At(i), At(i + 1), c.pc, c.ldepth)
    /\ At(i).depth <= c.maxStack
Marked ==
  /\ \A l \in Label : c.pc[l] <= c.len
  /\ \A l \in Label : c.pc[l] >= 0 => \E i \in 1..(pos - 1) : body[i] = Mark(l)
  /\ \A i, j \in 1..(pos - 1) : \A l \in Label : body[i] = Mark(l) /\ body[j] = Mark(l) => i = j

Laid == Len(trace) = pos - 1 /\ Tabled /\ Moved /\ Marked /\ Covered(c)

(* What Code has checked when it commits. *)
Checked ==
  /\ pos = Len(body) + 1 /\ c.err = NoErr /\ ~c.reachable
  /\ ~UnplacedBranch(c) /\ ~UnplacedSwitch(c) /\ ~UnplacedLocal(c)
  /\ TooFar(c) = {} /\ c.len <= MaxCodeLength
  /\ method = Encoded(c)

LayoutInv ==
  /\ CodeInv
  /\ status \in {"emit", "done"} /\ c.err = NoErr => Laid
  /\ status = "done" => Checked
-----------------------------------------------------------------------------
(* The writer's methods, when the writer has not failed after them: then it *)
(* had not failed before, for its error is sticky.                          *)

(* Tables, placed labels and the length are left alone. *)
Still(w, v) ==
  /\ v.branches = w.branches /\ v.switches = w.switches /\ v.handlers = w.handlers
  /\ v.lines = w.lines /\ v.locals = w.locals /\ v.pc = w.pc

(* fail leaves an error. *)
LEMMA FailSticks ==
  ASSUME NEW w \in Writer, NEW e \in WriterErr
  PROVE  fail(w, e).err # NoErr
<1>1. e # NoErr BY DEF WriterErr, NoErr
<1> QED BY <1>1 DEF fail, Writer

(* push raises the depth, and max_stack with it. *)
LEMMA PushDoes ==
  ASSUME NEW w \in Writer, NEW n \in Nat, push(w, n).err = NoErr
  PROVE  LET v == push(w, n) IN
         /\ w.err = NoErr /\ Still(w, v) /\ v.len = w.len
         /\ v.ldepth = w.ldepth /\ v.reachable = w.reachable
         /\ v.depth = w.depth + n /\ v.depth <= MaxStack /\ v.maxStack = MaxOf(w.maxStack, v.depth)
<1>1. PICK d \in Nat : d = w.depth + n BY DEF Writer
<1>2. ~(d > MaxStack)
  <2>1. [w EXCEPT !.depth = d] \in Writer BY SetField
  <2> QED BY <1>1, <2>1, FailSticks DEF push, WriterErr
<1>3. push(w, n) = [w EXCEPT !.depth = d, !.maxStack = MaxOf(@, d)] BY <1>1, <1>2 DEF push
<1>4. d <= MaxStack BY <1>2, CodeAssumption
<1> QED BY <1>1, <1>3, <1>4 DEF Writer, Still

(* pop lowers it. *)
LEMMA PopDoes ==
  ASSUME NEW w \in Writer, NEW n \in Nat, pop(w, n).err = NoErr
  PROVE  LET v == pop(w, n) IN
         /\ w.err = NoErr /\ Still(w, v) /\ v.len = w.len
         /\ v.ldepth = w.ldepth /\ v.reachable = w.reachable
         /\ w.depth >= n /\ v.depth = w.depth - n /\ v.maxStack = w.maxStack
<1>1. ~(w.depth < n)
  <2>1. [w EXCEPT !.depth = 0] \in Writer BY SetField
  <2> QED BY <2>1, FailSticks DEF pop, WriterErr
<1>2. pop(w, n) = [w EXCEPT !.depth = @ - n] BY <1>1 DEF pop
<1>3. w.depth >= n BY <1>1 DEF Writer
<1> QED BY <1>2, <1>3 DEF Writer, Still

(* useLocal touches max_locals only. *)
LEMMA UseLocalDoes ==
  ASSUME NEW w \in Writer, NEW n \in Nat, useLocal(w, n).err = NoErr
  PROVE  LET v == useLocal(w, n) IN
         /\ w.err = NoErr /\ Still(w, v) /\ v.len = w.len
         /\ v.ldepth = w.ldepth /\ v.reachable = w.reachable
         /\ v.depth = w.depth /\ v.maxStack = w.maxStack
<1>1. ~(n > MaxLocals) BY FailSticks DEF useLocal, WriterErr
<1>2. useLocal(w, n) = [w EXCEPT !.maxLocals = MaxOf(@, n)] BY <1>1 DEF useLocal
<1> QED BY <1>2 DEF Writer, Still

(* emitOp is for reachable code and appends bytes. *)
LEMMA EmitOpDoes ==
  ASSUME NEW w \in Writer, NEW n \in Nat, emitOp(w, n).err = NoErr
  PROVE  LET v == emitOp(w, n) IN
         /\ w.err = NoErr /\ Still(w, v) /\ v.len = w.len + n
         /\ v.ldepth = w.ldepth /\ w.reachable /\ v.reachable = w.reachable
         /\ v.depth = w.depth /\ v.maxStack = w.maxStack
<1>1. w.reachable BY FailSticks DEF emitOp, WriterErr
<1>2. emitOp(w, n) = [w EXCEPT !.len = @ + n] BY <1>1 DEF emitOp
<1> QED BY <1>1, <1>2 DEF Writer, Still

(* terminate closes the open end. *)
LEMMA TerminateDoes ==
  ASSUME NEW w \in Writer
  PROVE  LET v == terminate(w) IN
         /\ v.err = w.err /\ Still(w, v) /\ v.len = w.len
         /\ v.ldepth = w.ldepth /\ v.reachable = FALSE
         /\ v.depth = w.depth /\ v.maxStack = w.maxStack
BY DEF Writer, Still, terminate

(* noteDepth gives its targets the depth here, those that have none; the    *)
(* others have it already.                                                  *)
LEMMA NoteDepthDoes ==
  ASSUME NEW w \in Writer, NEW T \in SUBSET Label, noteDepth(w, T).err = NoErr
  PROVE  LET v == noteDepth(w, T) IN
         /\ w.err = NoErr /\ Still(w, v) /\ v.len = w.len
         /\ \A l \in T : v.ldepth[l] = w.depth
         /\ \A l \in Label \ T : v.ldepth[l] = w.ldepth[l]
         /\ \A l \in Label : w.ldepth[l] >= 0 => v.ldepth[l] = w.ldepth[l]
         /\ v.reachable = w.reachable /\ v.depth = w.depth /\ v.maxStack = w.maxStack
<1> DEFINE D == [l \in Label |-> IF l \in T /\ w.ldepth[l] < 0 THEN w.depth ELSE w.ldepth[l]]
           noted == [w EXCEPT !.ldepth = D]
<1>1. D \in [Label -> Int] BY DEF Writer
<1>2. noted \in Writer /\ noted.ldepth = D BY <1>1 DEF Writer
<1>3. noteDepth(w, T) = IF \E l \in T : noted.ldepth[l] # w.depth
                        THEN fail(noted, "branch_depth") ELSE noted
  BY DEF noteDepth
<1>4. fail(noted, "branch_depth").err # NoErr BY <1>2, FailSticks DEF WriterErr
<1>5. noteDepth(w, T) = noted /\ \A l \in T : D[l] = w.depth BY <1>2, <1>3, <1>4
<1>6. noted.err = w.err /\ Still(w, noted) /\ noted.len = w.len /\ noted.reachable = w.reachable
      /\ noted.depth = w.depth /\ noted.maxStack = w.maxStack
  BY DEF Writer, Still
<1>7. /\ \A l \in Label \ T : D[l] = w.ldepth[l]
      /\ \A l \in Label : w.ldepth[l] >= 0 => D[l] = w.ldepth[l]
  BY DEF Writer
<1> HIDE DEF D, noted
<1> QED BY <1>2, <1>5, <1>6, <1>7
-----------------------------------------------------------------------------
(* The calls a closure makes, when they do not fail. *)

(* MaxOf is a least upper bound. *)
LEMMA MaxOfBounds ==
  ASSUME NEW a \in Nat, NEW b \in Nat
  PROVE  /\ MaxOf(a, b) \in Nat /\ a <= MaxOf(a, b) /\ b <= MaxOf(a, b)
         /\ \A m \in Nat : a <= m /\ b <= m => MaxOf(a, b) <= m
BY DEF MaxOf

(* A call without a table leaves every table alone. *)
LEMMA StillAdds ==
  ASSUME NEW w, NEW v, NEW x, Still(w, v), x.call \notin Tables
  PROVE  Adds(w, v, x)
BY DEF Still, Adds, Tables, TableOf

(* A straight-line run. *)
LEMMA OpDoes ==
  ASSUME NEW w \in Writer, NEW x \in Call, x.call = "Op", OpCall(w, x).err = NoErr
  PROVE  Effect(w, OpCall(w, x), x)
<1>1. PICK size \in Nat, pops \in Nat, pushes \in Nat, slots \in Nat :
        size = x.size /\ pops = x.pops /\ pushes = x.pushes /\ slots = x.slots
  BY DEF Call
<1>2. x.ends \in BOOLEAN BY DEF Call
<1>3. PICK u \in Writer : u = useLocal(w, slots) BY UseLocalType
<1>4. PICK e \in Writer : e = emitOp(u, size) BY EmitOpType
<1>5. PICK p \in Writer : p = pop(e, pops) BY PopType
<1>6. PICK q \in Writer : q = push(p, pushes) BY PushType
<1>7. PICK v \in Writer : v = OpCall(w, x) BY OpType
<1>8. v = IF x.ends THEN terminate(q) ELSE q BY <1>1, <1>3, <1>4, <1>5, <1>6, <1>7 DEF OpCall
<1>9. /\ q.err = NoErr /\ Still(q, v) /\ v.len = q.len /\ v.ldepth = q.ldepth
      /\ v.reachable = (q.reachable /\ ~x.ends) /\ v.depth = q.depth /\ v.maxStack = q.maxStack
  <2>1. CASE x.ends BY <1>7, <1>8, <2>1, TerminateDoes
  <2>2. CASE ~x.ends
    <3>1. q.reachable \in BOOLEAN BY DEF Writer
    <3> QED BY <1>7, <1>8, <2>2, <3>1 DEF Still
  <2> QED BY <1>2, <2>1, <2>2
<1>10. /\ p.err = NoErr /\ Still(p, q) /\ q.len = p.len
       /\ q.ldepth = p.ldepth /\ q.reachable = p.reachable
       /\ q.depth = p.depth + pushes /\ q.depth <= MaxStack /\ q.maxStack = MaxOf(p.maxStack, q.depth)
  BY <1>6, <1>9, PushDoes
<1>11. /\ e.err = NoErr /\ Still(e, p) /\ p.len = e.len
       /\ p.ldepth = e.ldepth /\ p.reachable = e.reachable
       /\ e.depth >= pops /\ p.depth = e.depth - pops /\ p.maxStack = e.maxStack
  BY <1>5, <1>10, PopDoes
<1>12. /\ u.err = NoErr /\ Still(u, e) /\ e.len = u.len + size
       /\ e.ldepth = u.ldepth /\ u.reachable /\ e.reachable = u.reachable
       /\ e.depth = u.depth /\ e.maxStack = u.maxStack
  BY <1>4, <1>11, EmitOpDoes
<1>13. /\ w.err = NoErr /\ Still(w, u) /\ u.len = w.len
       /\ u.ldepth = w.ldepth /\ u.reachable = w.reachable
       /\ u.depth = w.depth /\ u.maxStack = w.maxStack
  BY <1>3, <1>12, UseLocalDoes
<1>14. Still(w, v) BY <1>9, <1>10, <1>11, <1>12, <1>13 DEF Still
<1>15. /\ v.len = w.len + size /\ v.ldepth = w.ldepth /\ v.reachable = ~x.ends
       /\ w.depth >= pops /\ v.depth = w.depth - pops + pushes
       /\ v.depth <= MaxStack /\ v.maxStack = MaxOf(w.maxStack, v.depth)
  BY <1>2, <1>9, <1>10, <1>11, <1>12, <1>13
<1>16. w.len \in Nat /\ w.depth \in Nat /\ w.maxStack \in Nat /\ v.depth \in Nat
  BY DEF Writer
<1>17. w.len <= v.len /\ w.maxStack <= v.maxStack /\ (w.maxStack <= MaxStack => v.maxStack <= MaxStack)
       /\ v.depth <= v.maxStack
  <2>1. w.len <= v.len BY <1>15, <1>16
  <2>2. MaxStack \in Nat BY CodeAssumption
  <2>3. PICK a \in Nat, b \in Nat : a = w.maxStack /\ b = v.depth BY <1>16
  <2>4. b <= MaxStack /\ v.maxStack = MaxOf(a, b) BY <1>15, <2>3
  <2>5. a <= MaxOf(a, b) /\ b <= MaxOf(a, b) /\ (a <= MaxStack => MaxOf(a, b) <= MaxStack)
    BY <2>2, <2>4, MaxOfBounds
  <2> QED BY <2>1, <2>3, <2>4, <2>5
<1>18. Adds(w, v, x) BY <1>14, StillAdds DEF Tables
<1>19. Placing(w, v, x) BY <1>14, <1>15, <1>17 DEF Placing, Still
<1>20. Covered(w) => Covered(v)
  <2>1. w.ldepth \in [Label -> Int] /\ v.maxStack \in Nat BY DEF Writer
  <2> QED BY <1>15, <1>16, <1>17, <2>1 DEF Covered
<1>21. ASSUME NEW n PROVE Moves(x, n, Now(w), Now(v), v.pc, v.ldepth)
  BY <1>1, <1>15 DEF Moves, Now
<1> QED BY <1>7, <1>18, <1>19, <1>20, <1>21 DEF Effect

(* A branch records the depth at its target and adds a row. *)
LEMMA BranchDoes ==
  ASSUME NEW w \in Writer, NEW x \in Call, x.call = "branch", branch(w, x).err = NoErr
  PROVE  Effect(w, branch(w, x), x)
<1>0. x.op \in {"goto", "if"} /\ x.l \in Label /\ x.pops \in Nat BY DEF Call
<1>1. PICK wide \in BOOLEAN : wide = (Len(w.branches) + 1 \in widen)
  <2>1. (Len(w.branches) + 1 \in widen) \in BOOLEAN OBVIOUS
  <2> QED BY <2>1, Zenon
<1>2. PICK p \in Writer : p = pop(w, x.pops) BY <1>0, PopType
<1>3. PICK n \in Writer : n = noteDepth(p, {x.l}) BY NoteDepthType
<1>4. PICK size \in Nat : size = BranchSize(x.op, wide) BY DEF BranchSize
<1>5. PICK e \in Writer : e = emitOp(n, size) BY EmitOpType
<1>6. PICK r : r = [op |-> x.op, l |-> x.l, at |-> w.len, wide |-> wide] OBVIOUS
<1>7. r \in BranchRow
  <2>1. w.len \in Nat BY DEF Writer
  <2> QED BY <1>0, <1>6, <2>1 DEF BranchRow
<1>8. PICK b \in Writer : b = [e EXCEPT !.branches = Append(@, r)]
  <2>1. Append(e.branches, r) \in Seq(BranchRow) BY <1>7 DEF Writer
  <2>2. [e EXCEPT !.branches = Append(@, r)] \in Writer BY <2>1 DEF Writer
  <2> QED BY <2>2
<1>9. PICK v \in Writer : v = branch(w, x) BY BranchType
<1>10. v = IF x.op = "goto" THEN terminate(b) ELSE b
  BY <1>1, <1>2, <1>3, <1>4, <1>5, <1>6, <1>8, <1>9 DEF branch
<1>11. /\ b.err = NoErr /\ Still(b, v) /\ v.len = b.len /\ v.ldepth = b.ldepth
       /\ v.reachable = (b.reachable /\ x.op # "goto") /\ v.depth = b.depth /\ v.maxStack = b.maxStack
  <2>1. CASE x.op = "goto" BY <1>9, <1>10, <2>1, TerminateDoes
  <2>2. CASE x.op # "goto"
    <3>1. b.reachable \in BOOLEAN BY DEF Writer
    <3> QED BY <1>9, <1>10, <2>2, <3>1 DEF Still
  <2> QED BY <2>1, <2>2
<1>12. /\ b.err = e.err /\ b.switches = e.switches /\ b.handlers = e.handlers
       /\ b.lines = e.lines /\ b.locals = e.locals /\ b.pc = e.pc /\ b.ldepth = e.ldepth
       /\ b.branches = Append(e.branches, r)
       /\ b.len = e.len /\ b.reachable = e.reachable /\ b.depth = e.depth /\ b.maxStack = e.maxStack
  BY <1>8 DEF Writer
<1>13. /\ n.err = NoErr /\ Still(n, e) /\ e.len = n.len + size
       /\ e.ldepth = n.ldepth /\ n.reachable /\ e.reachable = n.reachable
       /\ e.depth = n.depth /\ e.maxStack = n.maxStack
  <2>1. e.err = NoErr BY <1>11, <1>12
  <2> QED BY <1>5, <2>1, EmitOpDoes
<1>14. /\ p.err = NoErr /\ Still(p, n) /\ n.len = p.len
       /\ n.ldepth[x.l] = p.depth
       /\ \A l \in Label : n.ldepth[l] = p.ldepth[l] \/ n.ldepth[l] = p.depth
       /\ \A l \in Label : p.ldepth[l] >= 0 => n.ldepth[l] = p.ldepth[l]
       /\ n.reachable = p.reachable /\ n.depth = p.depth /\ n.maxStack = p.maxStack
  <2>1. PICK T \in SUBSET Label : T = {x.l} BY <1>0
  <2>2. noteDepth(p, T).err = NoErr BY <1>3, <1>13, <2>1
  <2>3. x.l \in T /\ n = noteDepth(p, T) BY <1>3, <2>1
  <2>4. /\ p.err = NoErr /\ Still(p, n) /\ n.len = p.len
        /\ \A l \in T : n.ldepth[l] = p.depth
        /\ \A l \in Label \ T : n.ldepth[l] = p.ldepth[l]
        /\ \A l \in Label : p.ldepth[l] >= 0 => n.ldepth[l] = p.ldepth[l]
        /\ n.reachable = p.reachable /\ n.depth = p.depth /\ n.maxStack = p.maxStack
    BY <2>2, <2>3, NoteDepthDoes
  <2> QED BY <2>3, <2>4
<1>15. /\ w.err = NoErr /\ Still(w, p) /\ p.len = w.len
       /\ p.ldepth = w.ldepth /\ p.reachable = w.reachable
       /\ w.depth >= x.pops /\ p.depth = w.depth - x.pops /\ p.maxStack = w.maxStack
  <2>1. p.err = NoErr BY <1>14
  <2> QED BY <1>0, <1>2, <2>1, PopDoes
<1>16. /\ v.branches = Append(w.branches, r) /\ v.switches = w.switches /\ v.handlers = w.handlers
       /\ v.lines = w.lines /\ v.locals = w.locals /\ v.pc = w.pc
  BY <1>11, <1>12, <1>13, <1>14, <1>15 DEF Still
<1>17. /\ v.len = w.len + size /\ v.reachable = (x.op # "goto")
       /\ w.depth >= x.pops /\ v.depth = w.depth - x.pops /\ v.maxStack = w.maxStack
       /\ v.ldepth[x.l] = v.depth
       /\ \A l \in Label : v.ldepth[l] = w.ldepth[l] \/ v.ldepth[l] = v.depth
       /\ \A l \in Label : w.ldepth[l] >= 0 => v.ldepth[l] = w.ldepth[l]
  BY <1>11, <1>12, <1>13, <1>14, <1>15
<1>18. w.len \in Nat /\ w.depth \in Nat /\ w.maxStack \in Nat /\ v.depth \in Nat
  BY DEF Writer
<1>19. r = Row(x, w.len, Len(w.branches) + 1) BY <1>1, <1>6 DEF Row
<1>20. Adds(w, v, x) BY <1>16, <1>19 DEF Adds, Tables, TableOf
<1>21. Placing(w, v, x) BY <1>16, <1>17, <1>18 DEF Placing
<1>22. Covered(w) => Covered(v)
  <2> SUFFICES ASSUME Covered(w) PROVE Covered(v) OBVIOUS
  <2>1. v.depth <= v.maxStack BY <1>0, <1>17, <1>18 DEF Covered
  <2> QED BY <1>17, <2>1 DEF Covered
<1>23. Moves(x, Len(TableOf(w, x.call)) + 1, Now(w), Now(v), v.pc, v.ldepth)
  <2>1. TableOf(w, x.call) = w.branches BY DEF TableOf
  <2>2. size = BranchSize(x.op, Len(w.branches) + 1 \in widen) BY <1>1, <1>4
  <2> QED BY <1>17, <2>1, <2>2 DEF Moves, Now
<1> QED BY <1>9, <1>20, <1>21, <1>22, <1>23 DEF Effect, Tables

(* A switch does so for all its targets, and control ends. *)
LEMMA SwitchDoes ==
  ASSUME NEW w \in Writer, NEW x \in Call, x.call = "Switch", SwitchCall(w, x).err = NoErr
  PROVE  Effect(w, SwitchCall(w, x), x)
<1>0. /\ x.op \in {"table", "lookup"} /\ x.def \in Label /\ x.targets \in Seq(Label)
      /\ Targets(x) \in SUBSET Label
  <2>1. x.op \in {"table", "lookup"} /\ x.def \in Label /\ x.targets \in Seq(Label) BY DEF Call
  <2> QED BY <2>1 DEF Targets
<1>1. PICK pad \in 0..3 : pad = (4 - ((w.len + 1) % 4)) % 4
  <2>1. PICK n \in Nat : n = w.len BY DEF Writer
  <2>2. PICK k \in 0..3 : k = (n + 1) % 4 OBVIOUS
  <2>3. (4 - k) % 4 \in 0..3 OBVIOUS
  <2> QED BY <2>1, <2>2, <2>3
<1>2. PICK size \in Nat : size = SwitchSize(x, pad)
  <2>1. PICK n \in Nat : n = Len(x.targets) BY <1>0
  <2>2. 1 + pad + (12 + 4 * n) \in Nat /\ 1 + pad + (8 + 8 * n) \in Nat OBVIOUS
  <2> QED BY <2>1, <2>2 DEF SwitchSize
<1>3. PICK p \in Writer : p = pop(w, 1) BY PopType
<1>4. PICK n \in Writer : n = noteDepth(p, Targets(x)) BY NoteDepthType
<1>5. PICK e \in Writer : e = emitOp(n, size) BY EmitOpType
<1>6. PICK r : r = [op |-> x.op, at |-> w.len, pad |-> pad, def |-> x.def, targets |-> x.targets]
  OBVIOUS
<1>7. r \in SwitchRow
  <2>1. w.len \in Nat BY DEF Writer
  <2> QED BY <1>0, <1>6, <2>1 DEF SwitchRow
<1>8. PICK b \in Writer : b = [e EXCEPT !.switches = Append(@, r)]
  <2>1. Append(e.switches, r) \in Seq(SwitchRow) BY <1>7 DEF Writer
  <2>2. [e EXCEPT !.switches = Append(@, r)] \in Writer BY <2>1 DEF Writer
  <2> QED BY <2>2
<1>9. PICK v \in Writer : v = SwitchCall(w, x) BY SwitchType
<1>10. v = terminate(b)
  BY <1>1, <1>2, <1>3, <1>4, <1>5, <1>6, <1>8, <1>9 DEF SwitchCall
<1>11. /\ b.err = NoErr /\ Still(b, v) /\ v.len = b.len /\ v.ldepth = b.ldepth
       /\ v.reachable = FALSE /\ v.depth = b.depth /\ v.maxStack = b.maxStack
  BY <1>9, <1>10, TerminateDoes
<1>12. /\ b.err = e.err /\ b.branches = e.branches /\ b.handlers = e.handlers
       /\ b.lines = e.lines /\ b.locals = e.locals /\ b.pc = e.pc /\ b.ldepth = e.ldepth
       /\ b.switches = Append(e.switches, r)
       /\ b.len = e.len /\ b.depth = e.depth /\ b.maxStack = e.maxStack
  BY <1>8 DEF Writer
<1>13. /\ n.err = NoErr /\ Still(n, e) /\ e.len = n.len + size
       /\ e.ldepth = n.ldepth /\ e.depth = n.depth /\ e.maxStack = n.maxStack
  <2>1. e.err = NoErr BY <1>11, <1>12
  <2> QED BY <1>5, <2>1, EmitOpDoes
<1>14. /\ p.err = NoErr /\ Still(p, n) /\ n.len = p.len
       /\ \A l \in Targets(x) : n.ldepth[l] = p.depth
       /\ \A l \in Label : n.ldepth[l] = p.ldepth[l] \/ n.ldepth[l] = p.depth
       /\ \A l \in Label : p.ldepth[l] >= 0 => n.ldepth[l] = p.ldepth[l]
       /\ n.depth = p.depth /\ n.maxStack = p.maxStack
  <2>1. n.err = NoErr BY <1>13
  <2> QED BY <1>0, <1>4, <2>1, NoteDepthDoes
<1>15. /\ w.err = NoErr /\ Still(w, p) /\ p.len = w.len
       /\ p.ldepth = w.ldepth
       /\ w.depth >= 1 /\ p.depth = w.depth - 1 /\ p.maxStack = w.maxStack
  <2>1. p.err = NoErr BY <1>14
  <2> QED BY <1>3, <2>1, PopDoes
<1>16. /\ v.switches = Append(w.switches, r) /\ v.branches = w.branches /\ v.handlers = w.handlers
       /\ v.lines = w.lines /\ v.locals = w.locals /\ v.pc = w.pc
  BY <1>11, <1>12, <1>13, <1>14, <1>15 DEF Still
<1>17. /\ v.len = w.len + size /\ v.reachable = FALSE
       /\ w.depth >= 1 /\ v.depth = w.depth - 1 /\ v.maxStack = w.maxStack
       /\ \A l \in Targets(x) : v.ldepth[l] = v.depth
       /\ \A l \in Label : v.ldepth[l] = w.ldepth[l] \/ v.ldepth[l] = v.depth
       /\ \A l \in Label : w.ldepth[l] >= 0 => v.ldepth[l] = w.ldepth[l]
  BY <1>11, <1>12, <1>13, <1>14, <1>15
<1>18. w.len \in Nat /\ w.depth \in Nat /\ w.maxStack \in Nat /\ v.depth \in Nat
  BY DEF Writer
<1>19. r = Row(x, w.len, Len(w.switches) + 1) BY <1>1, <1>6 DEF Row
<1>20. Adds(w, v, x) BY <1>16, <1>19 DEF Adds, Tables, TableOf
<1>21. Placing(w, v, x) BY <1>16, <1>17, <1>18 DEF Placing
<1>22. Covered(w) => Covered(v)
  <2> SUFFICES ASSUME Covered(w) PROVE Covered(v) OBVIOUS
  <2>1. v.depth <= v.maxStack BY <1>17, <1>18 DEF Covered
  <2> QED BY <1>17, <2>1 DEF Covered
<1>23. ASSUME NEW k PROVE Moves(x, k, Now(w), Now(v), v.pc, v.ldepth)
  BY <1>17 DEF Moves, Now
<1> QED BY <1>9, <1>20, <1>21, <1>22, <1>23 DEF Effect

(* Mark puts a label that has no place yet where control is; the depth it   *)
(* was given, if any, is the depth of control that falls into it.           *)
LEMMA MarkDoes ==
  ASSUME NEW w \in Writer, NEW x \in Call, x.call = "Mark", MarkLabel(w, x.l).err = NoErr
  PROVE  Effect(w, MarkLabel(w, x.l), x)
<1>0. PICK l \in Label : l = x.l BY DEF Call
<1>1. PICK placed \in Writer : placed = [w EXCEPT !.pc[l] = w.len]
  <2>1. [w.pc EXCEPT ![l] = w.len] \in [Label -> Int] BY DEF Writer
  <2>2. [w EXCEPT !.pc[l] = w.len] \in Writer BY <2>1 DEF Writer
  <2> QED BY <2>2
<1>2. /\ placed.branches = w.branches /\ placed.switches = w.switches
      /\ placed.handlers = w.handlers /\ placed.lines = w.lines /\ placed.locals = w.locals
      /\ placed.pc = [w.pc EXCEPT ![l] = w.len] /\ placed.ldepth = w.ldepth
      /\ placed.len = w.len /\ placed.depth = w.depth /\ placed.reachable = w.reachable
      /\ placed.maxStack = w.maxStack /\ placed.err = w.err
  BY <1>1 DEF Writer
<1>3. PICK v \in Writer : v = MarkLabel(w, l) BY MarkType
<1>4. v.err = NoErr BY <1>0, <1>3
<1>5. w.pc[l] \in Int /\ w.ldepth[l] \in Int /\ w.len \in Nat /\ w.depth \in Nat
      /\ w.maxStack \in Nat /\ w.reachable \in BOOLEAN
  BY DEF Writer
<1>6. ~(w.pc[l] >= 0) BY <1>3, <1>4, FailSticks DEF MarkLabel, WriterErr
<1>7. v = IF w.ldepth[l] >= 0 THEN meetLabel(placed, l)
          ELSE IF w.reachable THEN [placed EXCEPT !.ldepth[l] = w.depth]
          ELSE fail(placed, "unreachable_label")
  BY <1>1, <1>3, <1>6 DEF MarkLabel
<1>8. /\ v.branches = w.branches /\ v.switches = w.switches
      /\ v.handlers = w.handlers /\ v.lines = w.lines /\ v.locals = w.locals
      /\ v.pc = [w.pc EXCEPT ![l] = w.len] /\ v.len = w.len /\ v.maxStack = w.maxStack
      /\ v.reachable = TRUE /\ v.depth = v.ldepth[l] /\ (w.reachable => v.depth = w.depth)
      /\ v.depth = w.depth \/ v.depth = w.ldepth[l]
      /\ \A m \in Label : w.ldepth[m] >= 0 => v.ldepth[m] = w.ldepth[m]
      /\ \A m \in Label : v.ldepth[m] = w.ldepth[m] \/ v.ldepth[m] = w.depth
  <2>1. CASE w.ldepth[l] >= 0
    <3>1. v = meetLabel(placed, l) BY <1>7, <2>1
    <3>2. ~(placed.reachable /\ placed.depth # placed.ldepth[l])
      BY <1>4, <3>1, FailSticks DEF meetLabel, WriterErr
    <3>3. v = [placed EXCEPT !.depth = placed.ldepth[l], !.reachable = TRUE]
      BY <3>1, <3>2 DEF meetLabel
    <3>4. /\ v.branches = placed.branches /\ v.switches = placed.switches
          /\ v.handlers = placed.handlers /\ v.lines = placed.lines /\ v.locals = placed.locals
          /\ v.pc = placed.pc /\ v.len = placed.len /\ v.maxStack = placed.maxStack
          /\ v.reachable = TRUE /\ v.depth = placed.ldepth[l] /\ v.ldepth = placed.ldepth
      BY <3>3 DEF Writer
    <3> QED BY <1>2, <3>2, <3>4
  <2>2. CASE ~(w.ldepth[l] >= 0)
    <3>1. w.reachable BY <1>4, <1>7, <2>2, FailSticks DEF WriterErr
    <3>2. v = [placed EXCEPT !.ldepth[l] = w.depth] BY <1>7, <2>2, <3>1
    <3>3. /\ v.branches = placed.branches /\ v.switches = placed.switches
          /\ v.handlers = placed.handlers /\ v.lines = placed.lines /\ v.locals = placed.locals
          /\ v.pc = placed.pc /\ v.len = placed.len /\ v.maxStack = placed.maxStack
          /\ v.reachable = placed.reachable /\ v.depth = placed.depth
          /\ v.ldepth = [placed.ldepth EXCEPT ![l] = w.depth]
      BY <3>2 DEF Writer
    <3>4. /\ v.ldepth[l] = w.depth
          /\ \A m \in Label : m # l => v.ldepth[m] = w.ldepth[m]
      BY <1>2, <3>3 DEF Writer
    <3>5. v.reachable = TRUE BY <1>2, <1>5, <3>1, <3>3
    <3> QED BY <1>2, <2>2, <3>3, <3>4, <3>5
  <2> QED BY <2>1, <2>2
<1>9. Adds(w, v, x) BY <1>8 DEF Adds, Tables, TableOf
<1>10. Placing(w, v, x) BY <1>0, <1>5, <1>6, <1>8 DEF Placing
<1>11. Covered(w) => Covered(v) BY <1>5, <1>8 DEF Covered
<1>12. ASSUME NEW k PROVE Moves(x, k, Now(w), Now(v), v.pc, v.ldepth)
  <2>1. v.pc[l] = w.len BY <1>8 DEF Writer
  <2>2. Now(w).pc = w.len /\ Now(w).depth = w.depth /\ Now(w).reachable = w.reachable
        /\ Now(v).depth = v.depth /\ Now(v).reachable = TRUE
    BY <1>8 DEF Now
  <2> QED BY <1>0, <1>8, <2>1, <2>2 DEF Moves
<1> QED BY <1>0, <1>3, <1>9, <1>10, <1>11, <1>12 DEF Effect

(* TryCatch adds a row and has the handler entered at depth one. *)
LEMMA TryCatchDoes ==
  ASSUME NEW w \in Writer, NEW x \in Call, x.call = "TryCatch", TryCatchCall(w, x).err = NoErr
  PROVE  Effect(w, TryCatchCall(w, x), x)
<1>0. x.start \in Label /\ x.end \in Label /\ x.handler \in Label BY DEF Call
<1>1. PICK r : r = [start |-> x.start, end |-> x.end, handler |-> x.handler] OBVIOUS
<1>2. w.len \in Nat /\ w.depth \in Nat /\ w.maxStack \in Nat /\ w.ldepth \in [Label -> Int] BY DEF Writer
<1>3. PICK ld \in [Label -> Int] : ld = [w.ldepth EXCEPT ![x.handler] = IF @ < 0 THEN 1 ELSE @]
  <2>1. [w.ldepth EXCEPT ![x.handler] = IF @ < 0 THEN 1 ELSE @] \in [Label -> Int] BY <1>0, <1>2
  <2> QED BY <2>1
<1>4. PICK m \in Nat : m = MaxOf(w.maxStack, 1) /\ w.maxStack <= m /\ 1 <= m
        /\ (w.maxStack <= MaxStack => m <= MaxStack)
  <2>1. MaxStack \in Nat /\ 1 <= MaxStack BY CodeAssumption
  <2>2. PICK a \in Nat : a = w.maxStack BY <1>2
  <2>3. /\ MaxOf(a, 1) \in Nat /\ a <= MaxOf(a, 1) /\ 1 <= MaxOf(a, 1)
        /\ (a <= MaxStack => MaxOf(a, 1) <= MaxStack)
    BY <2>1, MaxOfBounds
  <2> QED BY <2>2, <2>3
<1>5. PICK h \in Writer : h = [w EXCEPT !.handlers = Append(@, r),
                                        !.ldepth[x.handler] = IF @ < 0 THEN 1 ELSE @,
                                        !.maxStack = MaxOf(@, 1)]
  <2> DEFINE H == [w EXCEPT !.handlers = Append(@, r),
                            !.ldepth[x.handler] = IF @ < 0 THEN 1 ELSE @,
                            !.maxStack = MaxOf(@, 1)]
  <2>1. r \in HandlerRow BY <1>0, <1>1 DEF HandlerRow
  <2>2. Append(w.handlers, r) \in Seq(HandlerRow) BY <2>1 DEF Writer
  <2>3. H \in Writer BY <1>3, <1>4, <2>2 DEF Writer
  <2> HIDE DEF H
  <2>4. \E h \in Writer : h = H BY <2>3
  <2> QED BY <2>4 DEF H
<1>6. PICK v \in Writer : v = TryCatchCall(w, x) BY TableType
<1>7. v = IF h.ldepth[x.handler] # 1 THEN fail(h, "handler_depth") ELSE h
  BY <1>1, <1>5, <1>6 DEF TryCatchCall
<1>8. v = h /\ v.ldepth[x.handler] = 1 BY <1>6, <1>7, FailSticks DEF WriterErr
<1>9. /\ v.branches = w.branches /\ v.switches = w.switches
      /\ v.handlers = Append(w.handlers, r) /\ v.lines = w.lines /\ v.locals = w.locals
      /\ v.pc = w.pc /\ v.len = w.len /\ v.depth = w.depth /\ v.reachable = w.reachable
      /\ v.maxStack = m /\ v.ldepth = ld
  <2>1. h.handlers = Append(w.handlers, r) BY <1>5 DEF Writer
  <2>2. h.ldepth = ld /\ h.maxStack = m BY <1>3, <1>4, <1>5 DEF Writer
  <2>3. /\ h.branches = w.branches /\ h.switches = w.switches /\ h.lines = w.lines
        /\ h.locals = w.locals /\ h.pc = w.pc /\ h.len = w.len /\ h.depth = w.depth
        /\ h.reachable = w.reachable
    BY <1>5 DEF Writer
  <2> QED BY <1>8, <2>1, <2>2, <2>3
<1>10. \A l \in Label : /\ w.ldepth[l] >= 0 => v.ldepth[l] = w.ldepth[l]
                        /\ v.ldepth[l] = w.ldepth[l] \/ v.ldepth[l] = 1
  BY <1>0, <1>2, <1>3, <1>9
<1>11. Adds(w, v, x)
  <2>1. r = Row(x, w.len, Len(w.handlers) + 1) BY <1>1 DEF Row
  <2> QED BY <1>9, <2>1 DEF Adds, Tables, TableOf
<1>12. Placing(w, v, x) BY <1>2, <1>4, <1>9, <1>10 DEF Placing
<1>13. Covered(w) => Covered(v)
  <2> SUFFICES ASSUME Covered(w) PROVE Covered(v) OBVIOUS
  <2>1. \A l \in Label : w.ldepth[l] <= m BY <1>2, <1>4 DEF Covered
  <2>2. \A l \in Label : v.ldepth[l] <= m BY <1>4, <1>10, <2>1
  <2> QED BY <1>2, <1>4, <1>9, <2>2 DEF Covered
<1>14. ASSUME NEW k PROVE Moves(x, k, Now(w), Now(v), v.pc, v.ldepth)
  BY <1>8, <1>9 DEF Moves, Now
<1> QED BY <1>6, <1>11, <1>12, <1>13, <1>14 DEF Effect

(* Line and Local add a row. *)
LEMMA DebugDoes ==
  ASSUME NEW w \in Writer, NEW x \in Call
  PROVE  /\ x.call = "Line" => Effect(w, LineCall(w), x)
         /\ x.call = "Local" => Effect(w, LocalCall(w, x), x)
<1>1. w.len \in Nat /\ w.maxStack \in Nat /\ w.ldepth \in [Label -> Int] BY DEF Writer
<1>2. ASSUME x.call = "Line" PROVE Effect(w, LineCall(w), x)
  <2>1. PICK v \in Writer : v = LineCall(w) BY TableType
  <2>2. v = [w EXCEPT !.lines = Append(@, U2(w.len))] BY <2>1 DEF LineCall
  <2>3. /\ v.branches = w.branches /\ v.switches = w.switches
        /\ v.handlers = w.handlers /\ v.lines = Append(w.lines, U2(w.len)) /\ v.locals = w.locals
        /\ v.pc = w.pc /\ v.len = w.len /\ v.depth = w.depth /\ v.reachable = w.reachable
        /\ v.maxStack = w.maxStack /\ v.ldepth = w.ldepth
    BY <2>2 DEF Writer
  <2>4. Adds(w, v, x)
    <3>1. U2(w.len) = Row(x, w.len, Len(w.lines) + 1) BY <1>2 DEF Row
    <3> QED BY <1>2, <2>3, <3>1 DEF Adds, Tables, TableOf
  <2>5. Placing(w, v, x) BY <1>1, <1>2, <2>3 DEF Placing
  <2>6. Covered(w) => Covered(v) BY <2>3 DEF Covered
  <2>7. ASSUME NEW k PROVE Moves(x, k, Now(w), Now(v), v.pc, v.ldepth)
    BY <1>2, <2>3 DEF Moves, Now
  <2> QED BY <2>1, <2>4, <2>5, <2>6, <2>7 DEF Effect
<1>3. ASSUME x.call = "Local" PROVE Effect(w, LocalCall(w, x), x)
  <2>1. PICK v \in Writer : v = LocalCall(w, x) BY <1>3, TableType
  <2>2. PICK r : r = [start |-> x.start, end |-> x.end] OBVIOUS
  <2>3. v = [w EXCEPT !.locals = Append(@, r)] BY <2>1, <2>2 DEF LocalCall
  <2>4. /\ v.branches = w.branches /\ v.switches = w.switches
        /\ v.handlers = w.handlers /\ v.lines = w.lines /\ v.locals = Append(w.locals, r)
        /\ v.pc = w.pc /\ v.len = w.len /\ v.depth = w.depth /\ v.reachable = w.reachable
        /\ v.maxStack = w.maxStack /\ v.ldepth = w.ldepth
    BY <2>3 DEF Writer
  <2>5. Adds(w, v, x)
    <3>1. r = Row(x, w.len, Len(w.locals) + 1) BY <1>3, <2>2 DEF Row
    <3> QED BY <1>3, <2>4, <3>1 DEF Adds, Tables, TableOf
  <2>6. Placing(w, v, x) BY <1>1, <1>3, <2>4 DEF Placing
  <2>7. Covered(w) => Covered(v) BY <2>4 DEF Covered
  <2>8. ASSUME NEW k PROVE Moves(x, k, Now(w), Now(v), v.pc, v.ldepth)
    BY <1>3, <2>4 DEF Moves, Now
  <2> QED BY <2>1, <2>5, <2>6, <2>7, <2>8 DEF Effect
<1> QED BY <1>2, <1>3

(* Every call that does not fail has its effect. *)
LEMMA ApplyDoes ==
  ASSUME NEW w \in Writer, NEW x \in Call, Apply(w, x).err = NoErr
  PROVE  Effect(w, Apply(w, x), x)
<1>0. x.call \in {"Op", "branch", "Switch", "Mark", "TryCatch", "Line", "Local", "Bad"}
  BY DEF Call
<1>1. CASE x.call = "Op" BY <1>1, OpDoes DEF Apply
<1>2. CASE x.call = "branch" BY <1>2, BranchDoes DEF Apply
<1>3. CASE x.call = "Switch" BY <1>3, SwitchDoes DEF Apply
<1>4. CASE x.call = "Mark" BY <1>4, MarkDoes DEF Apply
<1>5. CASE x.call = "TryCatch" BY <1>5, TryCatchDoes DEF Apply
<1>6. CASE x.call = "Line" BY <1>6, DebugDoes DEF Apply
<1>7. CASE x.call = "Local" BY <1>7, DebugDoes DEF Apply
<1>8. x.call # "Bad" BY FailSticks DEF Apply, WriterErr
<1> QED BY <1>0, <1>1, <1>2, <1>3, <1>4, <1>5, <1>6, <1>7, <1>8
-----------------------------------------------------------------------------
(* The steps of a pass *)

(* A Mark is known by its label. *)
LEMMA MarkIs ==
  /\ \A x \in Call : x.call = "Mark" => x.l \in Label /\ x = Mark(x.l)
  /\ \A l : Mark(l).call = "Mark" /\ Mark(l).l = l
BY DEF Call, Mark

(* What Append does. *)
LEMMA AppendDoes ==
  ASSUME NEW S, NEW s \in Seq(S), NEW e
  PROVE  /\ Len(Append(s, e)) = Len(s) + 1 /\ Append(s, e)[Len(s) + 1] = e
         /\ \A i \in 1..Len(s) : Append(s, e)[i] = s[i]
OBVIOUS

(* A writer's tables are sequences. *)
LEMMA TablesAreSeqs ==
  ASSUME NEW w \in Writer, NEW k \in Tables
  PROVE  \E S : TableOf(w, k) \in Seq(S)
<1>1. /\ w.branches \in Seq(BranchRow) /\ w.switches \in Seq(SwitchRow)
      /\ w.handlers \in Seq(HandlerRow) /\ w.lines \in Seq(Nat) /\ w.locals \in Seq(LocalRow)
  BY DEF Writer
<1> QED BY <1>1 DEF Tables, TableOf

(* What a call did stays true of labels that keep their places and depths.  *)
LEMMA MovesKeeps ==
  ASSUME NEW x \in Call, NEW n, NEW a \in Point, NEW z \in Point,
         NEW pc, NEW ld, NEW pc2, NEW ld2,
         Moves(x, n, a, z, pc, ld),
         \A l \in Label : pc[l] >= 0 => pc2[l] = pc[l],
         \A l \in Label : ld[l] >= 0 => ld2[l] = ld[l]
  PROVE  Moves(x, n, a, z, pc2, ld2)
<1>1. a.pc \in Nat /\ a.depth \in Nat /\ z.depth \in Nat BY DEF Point
<1>2. CASE x.call = "branch"
  <2>1. x.l \in Label BY <1>2 DEF Call
  <2> QED BY <1>1, <1>2, <2>1 DEF Moves
<1>3. CASE x.call = "Switch"
  <2>1. \A l \in Targets(x) : l \in Label
    <3>1. x.def \in Label /\ x.targets \in Seq(Label) BY <1>3 DEF Call
    <3> QED BY <3>1 DEF Targets
  <2> QED BY <1>1, <1>3, <2>1 DEF Moves
<1>4. CASE x.call = "Mark"
  <2>1. x.l \in Label BY <1>4 DEF Call
  <2> QED BY <1>1, <1>4, <2>1 DEF Moves
<1>5. CASE x.call = "TryCatch"
  <2>1. x.handler \in Label BY <1>5 DEF Call
  <2> QED BY <1>1, <1>5, <2>1 DEF Moves
<1>6. CASE x.call \notin {"branch", "Switch", "Mark", "TryCatch"} BY <1>6 DEF Moves
<1> QED BY <1>2, <1>3, <1>4, <1>5, <1>6

(* Points are typed. *)
LEMMA AtType ==
  ASSUME CodeInv, Len(trace) = pos - 1, NEW i \in 1..pos
  PROVE  At(i) \in Point
<1>1. trace \in Seq(Point) /\ c \in Writer /\ pos \in Nat BY DEF CodeInv, TypeOK, Point
<1>2. Now(c) \in Point BY <1>1 DEF Now, Point, Writer
<1> QED BY <1>1, <1>2 DEF At

(* A call that does not fail appends a point and has its effect. *)
LEMMA EmitDoes ==
  ASSUME LayoutInv, Emit, c'.err = NoErr
  PROVE  /\ Laid /\ body \in Seq(Call) /\ pos \in 1..Len(body) /\ body[pos] \in Call
         /\ c \in Writer /\ c' \in Writer /\ Effect(c, c', body[pos])
         /\ pos' = pos + 1 /\ UNCHANGED <<body, widen>>
         /\ Len(trace') = pos /\ (\A i \in 1..pos : At(i)' = At(i))
         /\ At(pos) = Now(c) /\ (\A i : i = pos + 1 => At(i)' = Now(c)')
<1>1. /\ status = "emit" /\ c.err = NoErr /\ pos <= Len(body) /\ c' = Apply(c, body[pos])
      /\ trace' = Append(trace, Now(c)) /\ pos' = pos + 1 /\ UNCHANGED <<body, widen>>
  BY DEF Emit, Now
<1>2. Laid BY <1>1 DEF LayoutInv
<1>3. body \in Seq(Call) /\ pos \in 1..Len(body) /\ body[pos] \in Call /\ c \in Writer
      /\ trace \in Seq(Point)
  BY <1>1 DEF LayoutInv, CodeInv, TypeOK, Point
<1>4. c' \in Writer BY <1>1, <1>3, ApplyType
<1>5. Effect(c, c', body[pos]) BY <1>1, <1>3, ApplyDoes
<1>6. Len(trace) = pos - 1 BY <1>2 DEF Laid
<1>7. Len(trace') = pos /\ trace'[pos] = Now(c) /\ \A i \in 1..(pos - 1) : trace'[i] = trace[i]
  BY <1>1, <1>3, <1>6, AppendDoes
<1>8. ASSUME NEW i \in 1..pos PROVE At(i)' = At(i)
  <2>1. i <= Len(trace') /\ (i <= Len(trace) <=> i # pos) BY <1>3, <1>6, <1>7
  <2>2. At(i)' = trace'[i] BY <2>1 DEF At
  <2>3. CASE i = pos BY <1>7, <2>1, <2>2, <2>3 DEF At
  <2>4. CASE i # pos
    <3>1. i \in 1..(pos - 1) BY <1>3, <2>4
    <3> QED BY <1>7, <2>1, <2>2, <2>4, <3>1 DEF At
  <2> QED BY <2>3, <2>4
<1>9. At(pos) = Now(c) BY <1>3, <1>6 DEF At
<1>10. ASSUME NEW i, i = pos + 1 PROVE At(i)' = Now(c)'
  <2>1. ~(i <= Len(trace')) BY <1>3, <1>7, <1>10
  <2> QED BY <2>1 DEF At
<1> QED BY <1>1, <1>2, <1>3, <1>4, <1>5, <1>7, <1>8, <1>9, <1>10

(* The tables hold the rows of the calls made, one each. *)
LEMMA EmitTabled ==
  ASSUME LayoutInv, Emit, c'.err = NoErr
  PROVE  Tabled'
<1>0. /\ Laid /\ body \in Seq(Call) /\ pos \in 1..Len(body)
      /\ c \in Writer /\ Effect(c, c', body[pos])
      /\ pos' = pos + 1 /\ UNCHANGED <<body, widen>>
      /\ (\A i \in 1..pos : At(i)' = At(i)) /\ At(pos) = Now(c)
  BY EmitDoes
<1>1. \A x, a, n : Row(x, a, n)' = Row(x, a, n) BY <1>0 DEF Row
<1>2. PICK p \in Nat, b \in Seq(Call) : p = pos - 1 /\ pos = p + 1 /\ b = body /\ p + 1 \in 1..Len(b)
  BY <1>0
<1>3. b[p + 1] = body[pos] /\ Now(c).pc = c.len BY <1>2 DEF Now
<1> SUFFICES ASSUME NEW k \in Tables
             PROVE  /\ Len(TableOf(c', k)) = Count(b, k, p + 1)
                    /\ \A i \in 1..(p + 1) : b[i].call = k =>
                         TableOf(c', k)[Count(b, k, i)] = Row(b[i], At(i).pc, Count(b, k, i))
  <2>1. pos' - 1 = p + 1 /\ body' = b BY <1>0, <1>2
  <2>2. \A i \in 1..(p + 1) : At(i)' = At(i) BY <1>0, <1>2
  <2> QED BY <1>1, <2>1, <2>2 DEF Tabled
<1>4. PICK T, U : T = TableOf(c, k) /\ U = TableOf(c', k) OBVIOUS
<1>5. PICK S : T \in Seq(S) BY <1>0, <1>4, TablesAreSeqs
<1>6. /\ Len(T) = Count(b, k, p)
      /\ \A i \in 1..p : b[i].call = k => T[Count(b, k, i)] = Row(b[i], At(i).pc, Count(b, k, i))
  BY <1>0, <1>2, <1>4 DEF Laid, Tabled
<1>7. U = IF b[p + 1].call = k THEN Append(T, Row(b[p + 1], c.len, Len(T) + 1)) ELSE T
  BY <1>0, <1>3, <1>4 DEF Effect, Adds
<1>8. /\ Count(b, k, p) \in Nat
      /\ Count(b, k, p + 1) = IF b[p + 1].call = k THEN Count(b, k, p) + 1 ELSE Count(b, k, p)
  BY CountStep, Zenon
<1>9. CASE b[p + 1].call # k
  <2>1. \A i \in 1..(p + 1) : b[i].call = k => i \in 1..p BY <1>2, <1>9
  <2> QED BY <1>4, <1>6, <1>7, <1>8, <1>9, <2>1
<1>10. CASE b[p + 1].call = k
  <2>1. PICK e : e = Row(b[p + 1], c.len, Len(T) + 1) OBVIOUS
  <2>2. U = Append(T, e) BY <1>7, <1>10, <2>1
  <2>3. Len(U) = Len(T) + 1 /\ U[Len(T) + 1] = e /\ \A i \in 1..Len(T) : U[i] = T[i]
    BY <1>5, <2>2, AppendDoes
  <2>4. ASSUME NEW i \in 1..(p + 1), b[i].call = k
        PROVE  U[Count(b, k, i)] = Row(b[i], At(i).pc, Count(b, k, i))
    <3>1. CASE i = p + 1
      <4>1. Count(b, k, i) = Len(T) + 1 BY <1>6, <1>8, <1>10, <3>1
      <4>2. At(i).pc = c.len BY <1>0, <1>2, <1>3, <3>1
      <4> QED BY <2>1, <2>3, <3>1, <4>1, <4>2
    <3>2. CASE i # p + 1
      <4>1. i \in 1..p BY <1>2, <3>2
      <4>2. Count(b, k, i) \in 1..Len(T)
        <5>1. PICK j \in Nat : i = j + 1 BY <4>1
        <5>2. Count(b, k, j) \in Nat /\ Count(b, k, j + 1) = Count(b, k, j) + 1
          BY <2>4, <5>1, CountStep
        <5>3. Count(b, k, i) <= Count(b, k, p) BY <1>2, <4>1, CountMono
        <5> QED BY <1>6, <1>8, <5>1, <5>2, <5>3
      <4> QED BY <1>6, <2>3, <2>4, <4>1, <4>2
    <3> QED BY <3>1, <3>2
  <2> QED BY <1>4, <1>6, <1>8, <1>10, <2>3, <2>4
<1> QED BY <1>9, <1>10

(* Every call made has had its effect on control, and what later calls do   *)
(* to the labels does not undo it.                                          *)
LEMMA EmitMoved ==
  ASSUME LayoutInv, Emit, c'.err = NoErr
  PROVE  Moved'
<1>0. /\ Laid /\ body \in Seq(Call) /\ pos \in 1..Len(body) /\ body[pos] \in Call
      /\ c \in Writer /\ c' \in Writer /\ Effect(c, c', body[pos])
      /\ pos' = pos + 1 /\ UNCHANGED <<body, widen>>
      /\ (\A i \in 1..pos : At(i)' = At(i))
      /\ At(pos) = Now(c) /\ (\A i : i = pos + 1 => At(i)' = Now(c)')
  BY EmitDoes
<1>1. \A x, n, a, z, pc, ld : Moves(x, n, a, z, pc, ld)' <=> Moves(x, n, a, z, pc, ld)
  BY <1>0 DEF Moves
<1>2. Placing(c, c', body[pos]) BY <1>0 DEF Effect
<1>3. /\ \A l \in Label : c.pc[l] >= 0 => c'.pc[l] = c.pc[l]
      /\ \A l \in Label : c.ldepth[l] >= 0 => c'.ldepth[l] = c.ldepth[l]
      /\ c.maxStack <= c'.maxStack
  <2>1. c.pc \in [Label -> Int] BY <1>0 DEF Writer
  <2>2. CASE body[pos].call = "Mark" BY <1>2, <2>1, <2>2 DEF Placing
  <2>3. CASE body[pos].call # "Mark" BY <1>2, <2>3 DEF Placing
  <2> QED BY <1>2, <2>2, <2>3 DEF Placing
<1> SUFFICES ASSUME NEW i \in 1..pos, NEW j, j = i + 1
             PROVE  /\ Moves(body[i], Count(body, body[i].call, i), At(i), At(j)', c'.pc, c'.ldepth)
                    /\ At(i).depth <= c'.maxStack
  <2>1. pos' - 1 = pos BY <1>0
  <2> QED BY <1>0, <1>1, <2>1 DEF Moved
<1>4. At(i) \in Point /\ c.maxStack \in Nat /\ c'.maxStack \in Nat
  BY <1>0, AtType DEF LayoutInv, Laid, Writer
<1>5. At(i).depth \in Nat BY <1>4 DEF Point
<1>6. CASE i # pos
  <2>1. i \in 1..(pos - 1) /\ j \in 1..pos BY <1>0, <1>6
  <2>2. /\ Moves(body[i], Count(body, body[i].call, i), At(i), At(j), c.pc, c.ldepth)
        /\ At(i).depth <= c.maxStack
    BY <1>0, <2>1 DEF Laid, Moved
  <2>3. At(j) \in Point BY <2>1, <1>0, AtType DEF LayoutInv, Laid
  <2>4. body[i] \in Call BY <1>0
  <2>5. Moves(body[i], Count(body, body[i].call, i), At(i), At(j), c'.pc, c'.ldepth)
    BY <1>3, <1>4, <2>2, <2>3, <2>4, MovesKeeps
  <2>6. At(j)' = At(j) BY <1>0, <2>1
  <2> QED BY <1>3, <1>4, <1>5, <2>2, <2>5, <2>6
<1>7. CASE i = pos
  <2>1. PICK x \in Call, n \in {Count(body, body[i].call, i)} : x = body[i] BY <1>0, <1>7
  <2>2. PICK p \in Nat : i = p + 1 /\ p = pos - 1 BY <1>7
  <2>3. n \in Nat /\ n = Count(body, x.call, p) + 1 BY <2>1, <2>2, CountStep
  <2>4. x.call \in Tables => n = Len(TableOf(c, x.call)) + 1
    BY <1>0, <2>2, <2>3 DEF Laid, Tabled
  <2>5. Effect(c, c', x) BY <1>0, <1>7, <2>1
  <2>6. Moves(x, n, Now(c), Now(c'), c'.pc, c'.ldepth) BY <2>3, <2>4, <2>5 DEF Effect
  <2>7. At(i) = Now(c) /\ At(j)' = Now(c') BY <1>0, <1>7 DEF Now
  <2>8. At(i).depth <= c.maxStack BY <1>0, <2>7 DEF Laid, Covered, Now
  <2> QED BY <1>3, <1>4, <1>5, <2>1, <2>6, <2>7, <2>8
<1> QED BY <1>6, <1>7

(* A label has the place of its one Mark call. *)
LEMMA EmitMarked ==
  ASSUME LayoutInv, Emit, c'.err = NoErr
  PROVE  Marked'
<1>0. /\ Laid /\ body \in Seq(Call) /\ pos \in 1..Len(body) /\ body[pos] \in Call
      /\ c \in Writer /\ c' \in Writer /\ Effect(c, c', body[pos])
      /\ pos' = pos + 1 /\ UNCHANGED <<body, widen>>
  BY EmitDoes
<1>1. PICK x \in Call : x = body[pos] BY <1>0
<1>2. Placing(c, c', x) BY <1>0, <1>1 DEF Effect
<1>3. c.pc \in [Label -> Int] /\ c.len \in Nat /\ c'.len \in Nat BY <1>0 DEF Writer
<1>4. Marked /\ Moved BY <1>0 DEF Laid
<1>5. pos' - 1 = pos BY <1>0
<1>6. ASSUME NEW l \in Label
      PROVE  /\ c'.pc[l] = c.pc[l] \/ (x = Mark(l) /\ c'.pc[l] = c.len)
             /\ x = Mark(l) => c.pc[l] < 0
  <2>1. CASE x.call = "Mark"
    <3>1. x = Mark(x.l) /\ x.l \in Label BY <2>1, MarkIs
    <3>2. c'.pc = [c.pc EXCEPT ![x.l] = c.len] /\ c.pc[x.l] < 0 BY <1>2, <2>1 DEF Placing
    <3>3. x = Mark(l) => x.l = l BY MarkIs
    <3> QED BY <1>3, <3>1, <3>2, <3>3
  <2>2. CASE x.call # "Mark"
    <3>1. x # Mark(l) BY <2>2, MarkIs
    <3> QED BY <1>2, <2>2, <3>1 DEF Placing
  <2> QED BY <2>1, <2>2
<1>7. \A l \in Label : c'.pc[l] <= c'.len
  <2> SUFFICES ASSUME NEW l \in Label PROVE c'.pc[l] <= c'.len OBVIOUS
  <2>1. c.pc[l] <= c.len BY <1>4 DEF Marked
  <2>2. c.len <= c'.len BY <1>2 DEF Placing
  <2> QED BY <1>3, <1>6, <2>1, <2>2
<1>8. \A l \in Label : c'.pc[l] >= 0 => \E i \in 1..pos : body[i] = Mark(l)
  <2> SUFFICES ASSUME NEW l \in Label, c'.pc[l] >= 0 PROVE \E i \in 1..pos : body[i] = Mark(l)
    OBVIOUS
  <2>1. CASE x = Mark(l)
    <3>1. pos \in 1..pos BY <1>0
    <3> QED BY <1>1, <2>1, <3>1
  <2>2. CASE x # Mark(l)
    <3>1. PICK i \in 1..(pos - 1) : body[i] = Mark(l) BY <1>4, <1>6, <2>2 DEF Marked
    <3> QED BY <1>0, <3>1
  <2> QED BY <2>1, <2>2
<1>9. ASSUME NEW l \in Label, NEW i \in 1..(pos - 1), body[i] = Mark(l) PROVE x # Mark(l)
  <2>1. body[i].call = "Mark" /\ body[i].l = l BY <1>9, MarkIs
  <2>2. c.pc[l] = At(i).pc BY <1>4, <2>1 DEF Moved, Moves
  <2>3. At(i) \in Point
    <3>1. i \in 1..pos BY <1>0
    <3> QED BY <1>0, <3>1, AtType DEF LayoutInv, Laid
  <2>4. At(i).pc \in Nat BY <2>3 DEF Point
  <2> QED BY <1>6, <2>2, <2>4
<1>10. ASSUME NEW i \in 1..pos, NEW j \in 1..pos, NEW l \in Label, body[i] = Mark(l), body[j] = Mark(l)
       PROVE  i = j
  <2>1. i \in 1..(pos - 1) \/ i = pos BY <1>0
  <2>2. j \in 1..(pos - 1) \/ j = pos BY <1>0
  <2>3. CASE i \in 1..(pos - 1) /\ j \in 1..(pos - 1) BY <1>4, <1>10, <2>3 DEF Marked
  <2> QED BY <1>1, <1>9, <1>10, <2>1, <2>2, <2>3
<1> QED BY <1>0, <1>5, <1>7, <1>8, <1>10 DEF Marked

(* A call that does not fail keeps the pass laid out. *)
LEMMA EmitLaid ==
  ASSUME LayoutInv, Emit, c'.err = NoErr
  PROVE  Laid'
<1>1. Laid /\ Len(trace') = pos /\ pos' = pos + 1 /\ Effect(c, c', body[pos]) /\ pos \in Nat
  BY EmitDoes
<1>2. Covered(c)' BY <1>1 DEF Laid, Effect, Covered
<1>3. Len(trace') = pos' - 1 BY <1>1
<1> QED BY <1>2, <1>3, EmitTabled, EmitMoved, EmitMarked DEF Laid

(* A pass begins with nothing laid out. *)
LEMMA StartLaid ==
  ASSUME CodeInv, StartPass
  PROVE  Laid'
<1>1. /\ pos' = 1 /\ c' = NewWriter /\ trace' = <<>> /\ body' = body /\ pos' - 1 = 0
      /\ Len(trace') = 0
  BY DEF StartPass
<1>2. \A k : Count(body, k, 0) = 0
  <2> TAKE k
  <2>1. {j \in 1..0 : body[j].call = k} = {} OBVIOUS
  <2> QED BY <2>1, FS_EmptySet DEF Count
<1>3. \A k \in Tables : TableOf(NewWriter, k) = <<>> BY DEF Tables, TableOf, NewWriter
<1>4. Tabled'
  <2>1. \A k \in Tables : Len(TableOf(c', k)) = Count(body', k, pos' - 1) BY <1>1, <1>2, <1>3
  <2>2. \A i \in 1..(pos' - 1) : FALSE BY <1>1
  <2> QED BY <2>1, <2>2, Zenon DEF Tabled
<1>5. Moved' BY <1>1 DEF Moved
<1>6. Marked'
  <2>1. NewWriter.len = 0 /\ \A l \in Label : NewWriter.pc[l] = -1 BY DEF NewWriter
  <2> QED BY <1>1, <2>1 DEF Marked
<1>7. Covered(c)'
  <2>1. NewWriter.depth = 0 /\ NewWriter.maxStack = 0 /\ \A l \in Label : NewWriter.ldepth[l] = -1
    BY DEF NewWriter
  <2>2. MaxStack \in Nat BY CodeAssumption
  <2>3. 0 <= 0 /\ 0 <= MaxStack /\ -1 <= 0 BY <2>2
  <2> QED BY <1>1, <2>1, <2>3 DEF Covered
<1> QED BY <1>1, <1>4, <1>5, <1>6, <1>7 DEF Laid

(* The layout is about the calls made, which a longer body begins with. *)
LEMMA ChooseLaid ==
  ASSUME CodeInv, Laid, NEW f \in Fragment, Choose(f)
  PROVE  Laid'
<1>0. /\ body \in Seq(Call) /\ f \in Seq(Call) /\ body' = body \o f
      /\ UNCHANGED <<pos, widen, c, trace>>
      /\ pos \in 1..(Len(body) + 1)
  <2>1. f \in Seq(Call) BY CodeAssumption
  <2>2. body \in Seq(Call) /\ pos \in 1..(Len(body) + 1) BY DEF CodeInv, TypeOK
  <2> QED BY <2>1, <2>2 DEF Choose
<1>1. \A i \in 1..(pos - 1) : body'[i] = body[i] /\ i \in Nat BY <1>0
<1>2. \A k : \A i \in 0..(pos - 1) : Count(body', k, i) = Count(body, k, i)
  <2> SUFFICES ASSUME NEW k, NEW i \in 0..(pos - 1) PROVE Count(body', k, i) = Count(body, k, i)
    OBVIOUS
  <2>1. i \in Nat /\ \A n \in 1..i : body'[n] = body[n] BY <1>0, <1>1
  <2> QED BY <2>1, CountSame
<1>3. pos - 1 \in 0..(pos - 1) /\ \A i \in 1..(pos - 1) : i \in 0..(pos - 1) BY <1>0
<1>4. \A i : At(i)' = At(i) BY <1>0 DEF At, Now
<1>5. Tabled'
  <2>1. \A x, a, n : Row(x, a, n)' = Row(x, a, n) BY <1>0 DEF Row
  <2> QED BY <1>0, <1>1, <1>2, <1>3, <1>4, <2>1 DEF Laid, Tabled
<1>6. Moved'
  <2>1. \A x, n, a, z, pc, ld : Moves(x, n, a, z, pc, ld)' <=> Moves(x, n, a, z, pc, ld)
    BY <1>0 DEF Moves
  <2> QED BY <1>0, <1>1, <1>2, <1>3, <1>4, <2>1 DEF Laid, Moved
<1>7. Marked' BY <1>0, <1>1 DEF Laid, Marked
<1> QED BY <1>0, <1>5, <1>6, <1>7 DEF Laid, Covered

(* Where nothing changes, the layout does not. *)
LEMMA SameLaid ==
  ASSUME Laid, UNCHANGED <<body, pos, widen, c, trace>>
  PROVE  Laid'
<1>1. \A i : At(i)' = At(i) BY DEF At, Now
<1>2. Tabled'
  <2>1. \A x, a, n : Row(x, a, n)' = Row(x, a, n) BY DEF Row
  <2> QED BY <1>1, <2>1 DEF Laid, Tabled
<1>3. Moved'
  <2>1. \A x, n, a, z, pc, ld : Moves(x, n, a, z, pc, ld)' <=> Moves(x, n, a, z, pc, ld)
    BY DEF Moves
  <2> QED BY <1>1, <2>1 DEF Laid, Moved
<1> QED BY <1>2, <1>3 DEF Laid, Marked, Covered

(* A body is committed when it has been checked. *)
LEMMA CommitChecks ==
  ASSUME CodeInv, Commit
  PROVE  status = "emit" /\ c.err = NoErr /\ Checked' /\ UNCHANGED <<body, pos, widen, c, trace>>
<1>1. /\ status = "emit" /\ c.err = NoErr /\ pos > Len(body) /\ ~c.reachable
      /\ ~UnplacedBranch(c) /\ ~UnplacedSwitch(c) /\ ~UnplacedLocal(c)
      /\ TooFar(c) = {} /\ c.len \in 1..MaxCodeLength
      /\ method' = Encoded(c) /\ UNCHANGED <<body, pos, widen, c, trace>>
  BY DEF Commit, Settled, Resolvable, Returned
<1>2. pos \in 1..(Len(body) + 1) /\ Len(body) \in Nat BY DEF CodeInv, TypeOK
<1>3. pos = Len(body) + 1 /\ c.len <= MaxCodeLength BY <1>1, <1>2
<1>4. /\ UnplacedBranch(c)' = UnplacedBranch(c) /\ UnplacedSwitch(c)' = UnplacedSwitch(c)
      /\ UnplacedLocal(c)' = UnplacedLocal(c)
  BY <1>1 DEF UnplacedBranch, UnplacedSwitch, UnplacedLocal
<1>5. TooFar(c)' = TooFar(c) /\ Encoded(c)' = Encoded(c)
  BY <1>1
<1> QED BY <1>1, <1>3, <1>4, <1>5 DEF Checked

(* LayoutInv is preserved by every step. *)
LEMMA LayoutStep ==
  ASSUME LayoutInv, [Next]_vars
  PROVE  LayoutInv'
<1>0. CodeInv /\ CodeInv' BY CodeStep DEF LayoutInv
<1>1. CASE StartPass
  <2>1. status' = "emit" BY <1>1 DEF StartPass
  <2> QED BY <1>0, <1>1, <2>1, StartLaid DEF LayoutInv
<1>2. CASE status' \notin {"emit", "done"} BY <1>0, <1>2 DEF LayoutInv
<1>3. CASE Emit
  <2>1. status' = "emit" BY <1>3 DEF Emit
  <2> QED BY <1>0, <1>3, <2>1, EmitLaid DEF LayoutInv
<1>4. CASE Commit
  <2>1. status = "emit" /\ c.err = NoErr /\ Checked' /\ UNCHANGED <<body, pos, widen, c, trace>>
    BY <1>0, <1>4, CommitChecks
  <2>2. Laid BY <2>1 DEF LayoutInv
  <2> QED BY <1>0, <2>1, <2>2, SameLaid DEF LayoutInv
<1>5. ASSUME NEW f \in Fragment, Choose(f) PROVE LayoutInv'
  <2>1. status = "emit" /\ status' = "emit" /\ c.err = NoErr BY <1>5 DEF Choose
  <2>2. Laid BY <2>1 DEF LayoutInv
  <2> QED BY <1>0, <1>5, <2>1, <2>2, ChooseLaid DEF LayoutInv
<1>6. CASE UNCHANGED vars
  <2>1. UNCHANGED <<body, pos, widen, c, trace, status, method>> BY <1>6 DEF vars
  <2>2. Checked => Checked'
    <3>1. /\ UnplacedBranch(c)' = UnplacedBranch(c) /\ UnplacedSwitch(c)' = UnplacedSwitch(c)
          /\ UnplacedLocal(c)' = UnplacedLocal(c)
      BY <2>1 DEF UnplacedBranch, UnplacedSwitch, UnplacedLocal
    <3>2. TooFar(c)' = TooFar(c) /\ Encoded(c)' = Encoded(c) BY <2>1
    <3> QED BY <2>1, <3>1, <3>2 DEF Checked
  <2> QED BY <1>0, <2>1, <2>2, SameLaid DEF LayoutInv
<1>7. CASE NotConverged \/ Refuse \/ Replay \/ Overflow
  <2>1. status' \in {"replay", "failed"}
    BY <1>7 DEF NotConverged, Refuse, Replay, Overflow, Fail
  <2> QED BY <1>2, <2>1
<1> QED BY <1>1, <1>3, <1>4, <1>5, <1>6, <1>7 DEF Next, Code

(* The layout holds throughout a call of Code. *)
LEMMA LayoutSafe == Spec => []LayoutInv
<1>1. Init => LayoutInv BY CodeInit DEF Init, LayoutInv
<1> QED BY <1>1, LayoutStep, PTL DEF Spec
-----------------------------------------------------------------------------
(* A committed body *)

(* The remainder of a small number is the number. *)
LEMMA ModSmall == \A a \in Nat : \A b \in Nat : a < b => a % b = a
OBVIOUS

(* What fits a u2 is stored as it is. *)
LEMMA FitsU2 == \A n \in Nat : n <= 65535 => U2(n) = n
BY DEF U2

(* A JVM reads a displacement that reaches back as it was. *)
LEMMA FitsInt16 ==
  ASSUME NEW off \in Int, Reaches(off)
  PROVE  Int16(off) = off
<1>1. PICK s \in Nat : s = ShortMax BY CodeAssumption
<1>2. off >= -s - 1 /\ off <= s BY <1>1 DEF Reaches, ShortMin
<1>3. PICK a \in Nat, b \in Nat : a = off + s + 1 /\ b = 2 * (s + 1) BY <1>2
<1>4. a < b BY <1>2, <1>3
<1>5. a % b = a BY <1>4, ModSmall
<1> QED BY <1>1, <1>3, <1>5 DEF Int16

(* The points of a committed body are those of its trace, and control never *)
(* gets behind its last call.                                               *)
LEMMA DonePoints ==
  ASSUME LayoutInv, Done
  PROVE  /\ Laid /\ Checked /\ body \in Seq(Call) /\ DOMAIN body = 1..Len(body)
         /\ pos - 1 = Len(body) /\ c \in Writer
         /\ \A i \in 1..Len(body) :
              /\ At(i) = trace[i] /\ trace[i] \in Point /\ At(i + 1) \in Point
              /\ At(i + 1).reachable => i + 1 \in 1..Len(body) /\ At(i + 1) = trace[i + 1]
<1>1. Laid /\ Checked /\ c.err = NoErr /\ pos = Len(body) + 1 /\ ~c.reachable
  BY DEF LayoutInv, Done, Checked
<1>2. body \in Seq(Call) /\ c \in Writer /\ trace \in Seq(Point)
  BY DEF LayoutInv, CodeInv, TypeOK, Point
<1>3. Len(body) \in Nat /\ DOMAIN body = 1..Len(body) /\ pos - 1 = Len(body) BY <1>1, <1>2
<1>4. Len(trace) = Len(body) BY <1>1, <1>3 DEF Laid
<1>5. ASSUME NEW i \in 1..Len(body)
      PROVE  /\ At(i) = trace[i] /\ trace[i] \in Point /\ At(i + 1) \in Point
             /\ At(i + 1).reachable => i + 1 \in 1..Len(body) /\ At(i + 1) = trace[i + 1]
  <2>1. At(i) = trace[i] /\ trace[i] \in Point BY <1>2, <1>4 DEF At
  <2>2. At(i + 1) \in Point
    <3>1. i + 1 \in 1..pos BY <1>1, <1>3
    <3> QED BY <1>1, <3>1, AtType DEF LayoutInv, Laid
  <2>3. CASE i + 1 <= Len(body)
    <3>1. i + 1 \in 1..Len(body) BY <1>3, <2>3
    <3> QED BY <1>4, <2>1, <2>2, <2>3, <3>1 DEF At
  <2>4. CASE ~(i + 1 <= Len(body))
    <3>1. At(i + 1) = Now(c) BY <1>4, <2>4 DEF At
    <3>2. ~Now(c).reachable BY <1>1 DEF Now
    <3> QED BY <2>1, <2>2, <3>1, <3>2
  <2> QED BY <2>3, <2>4
<1> QED BY <1>1, <1>2, <1>3, <1>5

(* A placed label has the place of its Mark call, and control leaves that   *)
(* call with the label's depth.                                             *)
LEMMA PlacedWhere ==
  ASSUME LayoutInv, Done, NEW l \in Label
  PROVE  /\ Placed(l) <=> c.pc[l] >= 0
         /\ c.pc[l] >= 0 => PlaceOf(l) = c.pc[l] /\ trace[MarkOf(l) + 1].depth = c.ldepth[l]
<1>0. /\ Laid /\ body \in Seq(Call) /\ DOMAIN body = 1..Len(body) /\ pos - 1 = Len(body)
      /\ c \in Writer
      /\ \A i \in 1..Len(body) :
              /\ At(i) = trace[i] /\ trace[i] \in Point /\ At(i + 1) \in Point
              /\ At(i + 1).reachable => i + 1 \in 1..Len(body) /\ At(i + 1) = trace[i + 1]
  BY DonePoints
<1>1. ASSUME NEW m \in 1..Len(body), body[m] = Mark(l)
      PROVE  c.pc[l] = trace[m].pc /\ c.pc[l] >= 0 /\ trace[m + 1].depth = c.ldepth[l]
  <2>1. body[m].call = "Mark" /\ body[m].l = l BY <1>1, MarkIs
  <2>2. Moves(body[m], Count(body, body[m].call, m), At(m), At(m + 1), c.pc, c.ldepth)
    BY <1>0 DEF Laid, Moved
  <2>3. c.pc[l] = At(m).pc /\ c.ldepth[l] = At(m + 1).depth /\ At(m + 1).reachable
    BY <2>1, <2>2 DEF Moves
  <2>4. trace[m].pc \in Nat BY <1>0 DEF Point
  <2> QED BY <1>0, <2>3, <2>4
<1>2. Placed(l) => c.pc[l] >= 0 BY <1>0, <1>1 DEF Placed
<1>3. c.pc[l] >= 0 => Placed(l) BY <1>0 DEF Laid, Marked, Placed
<1>4. ASSUME Placed(l) PROVE MarkOf(l) \in 1..Len(body) /\ body[MarkOf(l)] = Mark(l)
  BY <1>0, <1>4 DEF Placed, MarkOf
<1> QED BY <1>1, <1>2, <1>3, <1>4 DEF PlaceOf

(* Every call with a table has its row in the writer. *)
LEMMA RowOfCall ==
  ASSUME LayoutInv, Done, NEW k \in Tables, NEW i \in 1..Len(body), IsCall(i, k)
  PROVE  /\ Nth(k, i) \in 1..Len(TableOf(c, k))
         /\ TableOf(c, k)[Nth(k, i)] = Row(body[i], trace[i].pc, Nth(k, i))
<1>1. /\ Tabled /\ pos - 1 = Len(body) /\ At(i) = trace[i] /\ Len(body) \in Nat
  <2>1. Laid /\ pos - 1 = Len(body) /\ At(i) = trace[i] /\ body \in Seq(Call) BY DonePoints
  <2> QED BY <2>1 DEF Laid
<1>2. Nth(k, i) = Count(body, k, i) BY NthIsCount
<1>3. Len(TableOf(c, k)) = Count(body, k, Len(body)) BY <1>1 DEF Tabled
<1>4. PICK j \in Nat : i = j + 1 BY <1>1
<1>5. Count(body, k, j) \in Nat /\ Count(body, k, i) = Count(body, k, j) + 1
  BY <1>4, CountStep DEF IsCall
<1>6. Count(body, k, i) <= Count(body, k, Len(body)) /\ Count(body, k, Len(body)) \in Nat
  BY <1>1, CountMono, CountStep
<1> QED BY <1>1, <1>2, <1>3, <1>5, <1>6 DEF Tabled, IsCall
-----------------------------------------------------------------------------
(* The properties *)

(* Where a committed branch lands. *)
LEMMA BranchLands ==
  ASSUME LayoutInv, Done, NEW i \in 1..Len(body), IsCall(i, "branch"),
         NEW k, k = Nth("branch", i), NEW wide \in BOOLEAN, wide <=> k \in widen
  PROVE  /\ trace[i].pc + (IF wide /\ body[i].op = "if" THEN 3 ELSE 0) + method.branches[k]
              = PlaceOf(body[i].l)
         /\ body[i].op = "if" => trace[i + 1].pc = trace[i].pc + (IF wide THEN 8 ELSE 3)
<1>0. /\ Laid /\ Checked /\ body \in Seq(Call) /\ pos - 1 = Len(body) /\ c \in Writer
      /\ At(i) = trace[i] /\ trace[i] \in Point
      /\ At(i + 1).reachable => i + 1 \in 1..Len(body) /\ At(i + 1) = trace[i + 1]
  BY DonePoints
<1>1. PICK x \in Call : x = body[i] /\ x.call = "branch" BY <1>0 DEF IsCall
<1>2. x.l \in Label /\ x.op \in {"goto", "if"} BY <1>1 DEF Call
<1>3. PICK p \in Nat : p = trace[i].pc BY <1>0 DEF Point
<1>4. k \in 1..Len(c.branches) /\ c.branches[k] = Row(x, p, k)
  <2>1. TableOf(c, "branch") = c.branches /\ "branch" \in Tables BY DEF TableOf, Tables
  <2> QED BY <1>1, <1>3, <2>1, RowOfCall
<1>5. PICK r : r = c.branches[k] /\ r.op = x.op /\ r.l = x.l /\ r.at = p /\ r.wide = wide
  <2>1. Row(x, p, k) = [op |-> x.op, l |-> x.l, at |-> p, wide |-> k \in widen]
    BY <1>1 DEF Row
  <2>2. (k \in widen) = wide OBVIOUS
  <2> QED BY <1>4, <2>1, <2>2
<1>6. DOMAIN c.branches = 1..Len(c.branches) BY <1>0 DEF Writer
<1>7. PICK q \in Nat : q = c.pc[x.l]
  <2>1. ~(c.pc[x.l] < 0) BY <1>0, <1>4, <1>5, <1>6 DEF Checked, UnplacedBranch
  <2>2. c.pc[x.l] \in Int BY <1>0, <1>2 DEF Writer
  <2> QED BY <2>1, <2>2
<1>8. PlaceOf(x.l) = q
  <2>1. c.pc[x.l] >= 0 BY <1>7
  <2> QED BY <1>2, <1>7, <2>1, PlacedWhere
<1>9. Offset(c, r) = q - p BY <1>5, <1>7 DEF Offset
<1>10. method.branches[k] = Patch(c, r)
  <2>1. method = Encoded(c) BY <1>0 DEF Checked
  <2> QED BY <1>4, <1>5, <2>1 DEF Encoded
<1>11. ~wide => Int16(q - p) = q - p
  <2> SUFFICES ASSUME ~wide PROVE Int16(q - p) = q - p OBVIOUS
  <2>1. TooFar(c) = {} BY <1>0 DEF Checked
  <2>2. Reaches(Offset(c, r)) BY <1>4, <1>5, <1>6, <2>1 DEF TooFar
  <2>3. q - p \in Int OBVIOUS
  <2> QED BY <1>9, <2>2, <2>3, FitsInt16
<1>12. p + (IF wide /\ x.op = "if" THEN 3 ELSE 0) + method.branches[k] = q
  <2>1. CASE ~wide
    <3>1. method.branches[k] = q - p BY <1>5, <1>9, <1>10, <1>11, <2>1 DEF Patch
    <3> QED BY <2>1, <3>1
  <2>2. CASE wide /\ x.op = "goto"
    <3>1. method.branches[k] = q - p BY <1>5, <1>9, <1>10, <2>2 DEF Patch
    <3> QED BY <2>2, <3>1
  <2>3. CASE wide /\ x.op = "if"
    <3>1. method.branches[k] = q - p - 3 BY <1>5, <1>9, <1>10, <2>3 DEF Patch
    <3> QED BY <2>3, <3>1
  <2> QED BY <1>2, <2>1, <2>2, <2>3
<1>13. ASSUME x.op = "if" PROVE trace[i + 1].pc = p + (IF wide THEN 8 ELSE 3)
  <2>1. Moves(x, Count(body, "branch", i), At(i), At(i + 1), c.pc, c.ldepth)
    BY <1>0, <1>1 DEF Laid, Moved
  <2>2. Count(body, "branch", i) = k BY NthIsCount
  <2>3. At(i + 1).reachable /\ At(i + 1).pc = At(i).pc + BranchSize("if", k \in widen)
    BY <1>1, <1>13, <2>1, <2>2 DEF Moves
  <2>4. BranchSize("if", k \in widen) = IF wide THEN 8 ELSE 3 BY DEF BranchSize
  <2> QED BY <1>0, <1>3, <2>3, <2>4
<1> QED BY <1>1, <1>3, <1>8, <1>12, <1>13

(* Every branch of every committed body jumps to its label's final place,   *)
(* whatever was widened on the way (branch, resolve: codewriter.go).        *)
THEOREM JumpsLand == Spec => []BranchesLand
<1>1. LayoutInv => BranchesLand
  <2> SUFFICES ASSUME LayoutInv, Done, NEW i \in DOMAIN body, IsCall(i, "branch"),
                      NEW k, k = Nth("branch", i)
               PROVE  /\ trace[i].pc + (IF k \in widen /\ body[i].op = "if" THEN 3 ELSE 0)
                           + method.branches[k] = PlaceOf(body[i].l)
                      /\ body[i].op = "if" =>
                           trace[i + 1].pc = trace[i].pc + (IF k \in widen THEN 8 ELSE 3)
    BY DEF BranchesLand
  <2>1. i \in 1..Len(body) BY DonePoints
  <2>2. PICK wide \in BOOLEAN : wide = (k \in widen) 
    <3>1. (k \in widen) \in BOOLEAN OBVIOUS
    <3> QED BY <3>1, Zenon
  <2> QED BY <2>1, <2>2, BranchLands
<1> QED BY <1>1, LayoutSafe, PTL

(* Where a committed switch lands. *)
LEMMA SwitchLands ==
  ASSUME LayoutInv, Done, NEW i \in 1..Len(body), IsCall(i, "Switch"),
         NEW s, s = method.switches[Nth("Switch", i)]
  PROVE  /\ s.at = trace[i].pc /\ (s.at + 1 + s.pad) % 4 = 0 /\ s.pad \in 0..3
         /\ s.at + s.def = PlaceOf(body[i].def)
         /\ \A j \in 1..Len(body[i].targets) : s.at + s.targets[j] = PlaceOf(body[i].targets[j])
<1>0. /\ Checked /\ body \in Seq(Call) /\ c \in Writer /\ trace[i] \in Point
  BY DonePoints
<1>1. PICK x \in Call : x = body[i] /\ x.call = "Switch" BY <1>0 DEF IsCall
<1>2. x.def \in Label /\ x.targets \in Seq(Label) BY <1>1 DEF Call
<1>3. PICK p \in Nat : p = trace[i].pc BY <1>0 DEF Point
<1>4. PICK k : k = Nth("Switch", i) OBVIOUS
<1>5. k \in 1..Len(c.switches) /\ c.switches[k] = Row(x, p, k)
  <2>1. TableOf(c, "Switch") = c.switches /\ "Switch" \in Tables BY DEF TableOf, Tables
  <2> QED BY <1>1, <1>3, <1>4, <2>1, RowOfCall
<1>6. PICK r : /\ r = c.switches[k] /\ r.at = p /\ r.pad = (4 - ((p + 1) % 4)) % 4
               /\ r.def = x.def /\ r.targets = x.targets
  BY <1>1, <1>5 DEF Row
<1>7. DOMAIN c.switches = 1..Len(c.switches) BY <1>0 DEF Writer
<1>8. ASSUME NEW l \in Targets(x) PROVE c.pc[l] \in Nat /\ PlaceOf(l) = c.pc[l]
  <2>1. l \in Label BY <1>2 DEF Targets
  <2>2. Targets(r) = Targets(x) BY <1>6 DEF Targets
  <2>3. ~(c.pc[l] < 0) BY <1>0, <1>5, <1>6, <1>7, <2>2 DEF Checked, UnplacedSwitch
  <2>4. c.pc[l] \in Int BY <1>0, <2>1 DEF Writer
  <2>5. c.pc[l] >= 0 BY <2>3, <2>4
  <2> QED BY <2>1, <2>4, <2>5, PlacedWhere
<1>9. s = PatchedSwitch(c, r)
  <2>1. method = Encoded(c) BY <1>0 DEF Checked
  <2> QED BY <1>4, <1>5, <1>6, <2>1 DEF Encoded
<1>10. /\ s.at = p /\ s.pad = r.pad /\ s.def = c.pc[x.def] - p
       /\ \A j \in 1..Len(x.targets) : s.targets[j] = c.pc[x.targets[j]] - p
  BY <1>6, <1>9 DEF PatchedSwitch
<1>11. (p + 1 + r.pad) % 4 = 0 /\ r.pad \in 0..3
  <2>1. PICK m \in 0..3 : m = (p + 1) % 4 OBVIOUS
  <2>2. PICK d \in Nat : p + 1 = 4 * d + m BY <2>1
  <2>3. r.pad = (4 - m) % 4 BY <1>6, <2>1
  <2>4. (m = 0 /\ r.pad = 0) \/ (m = 1 /\ r.pad = 3) \/ (m = 2 /\ r.pad = 2) \/ (m = 3 /\ r.pad = 1)
    BY <2>1, <2>3
  <2> QED BY <2>2, <2>4
<1>12. \A a, q \in Nat : a + (q - a) = q OBVIOUS
<1>13. s.at + s.def = PlaceOf(x.def)
  <2>1. x.def \in Targets(x) BY DEF Targets
  <2> QED BY <1>8, <1>10, <1>12, <2>1
<1>14. ASSUME NEW j \in 1..Len(x.targets) PROVE s.at + s.targets[j] = PlaceOf(x.targets[j])
  <2>1. x.targets[j] \in Targets(x) BY DEF Targets
  <2> QED BY <1>8, <1>10, <1>12, <2>1
<1> QED BY <1>1, <1>3, <1>10, <1>11, <1>13, <1>14

(* Every switch of every committed body jumps to its labels' final places   *)
(* and is aligned in the final layout (TableSwitch, LookupSwitch, resolve:  *)
(* codewriter.go).                                                          *)
THEOREM SwitchesJump == Spec => []SwitchesLand
<1>1. LayoutInv => SwitchesLand
  <2> SUFFICES ASSUME LayoutInv, Done, NEW i \in DOMAIN body, IsCall(i, "Switch"),
                      NEW s, s = method.switches[Nth("Switch", i)]
               PROVE  /\ s.at = trace[i].pc /\ (s.at + 1 + s.pad) % 4 = 0 /\ s.pad \in 0..3
                      /\ s.at + s.def = PlaceOf(body[i].def)
                      /\ \A j \in 1..Len(body[i].targets) :
                           s.at + s.targets[j] = PlaceOf(body[i].targets[j])
    BY DEF SwitchesLand
  <2>1. i \in 1..Len(body) BY DonePoints
  <2> QED BY <2>1, SwitchLands
<1> QED BY <1>1, LayoutSafe, PTL

(* What a call of a committed body does to control, in the words of the     *)
(* properties.                                                              *)
LEMMA CallFlows ==
  ASSUME LayoutInv, Done, NEW i \in 1..Len(body)
  PROVE  /\ DepthAfter(i) \in Nat /\ trace[i].depth \in Nat
         /\ trace[i].depth <= c.maxStack
         /\ trace[i].reachable => DepthAfter(i) <= c.maxStack
         /\ FallsThrough(i) => i < Len(body) /\ trace[i + 1].depth = DepthAfter(i)
         /\ \A l \in JumpsTo(i) : l \in Label /\ c.pc[l] >= 0 /\ c.ldepth[l] = DepthAfter(i)
         /\ IsCall(i, "TryCatch") => body[i].handler \in Label /\ c.ldepth[body[i].handler] = 1
<1>0. /\ Laid /\ Checked /\ body \in Seq(Call) /\ pos - 1 = Len(body) /\ c \in Writer
      /\ At(i) = trace[i] /\ trace[i] \in Point /\ At(i + 1) \in Point
      /\ At(i + 1).reachable => i + 1 \in 1..Len(body) /\ At(i + 1) = trace[i + 1]
  BY DonePoints
<1>1. PICK x \in Call : x = body[i] BY <1>0
<1>2. PICK a \in Point, z \in Point, n \in {Count(body, x.call, i)} :
        a = trace[i] /\ z = At(i + 1)
  BY <1>0
<1>3. Moves(x, n, a, z, c.pc, c.ldepth) /\ a.depth <= c.maxStack
  BY <1>0, <1>1, <1>2 DEF Laid, Moved
<1>4. a.depth \in Nat /\ z.depth \in Nat /\ a.pc \in Nat BY DEF Point
<1>5. c.maxStack \in Nat /\ c.pc \in [Label -> Int] BY <1>0 DEF Writer
<1>6. DepthAfter(i) = a.depth + (CASE x.call = "Op"     -> x.pushes - x.pops
                                   [] x.call = "branch" -> -x.pops
                                   [] x.call = "Switch" -> -1
                                   [] OTHER             -> 0)
  BY <1>1, <1>2 DEF DepthAfter, IsCall
<1>7. PICK d : d = DepthAfter(i) OBVIOUS
<1>8. /\ d = z.depth \/ (x.call = "Mark" /\ d = a.depth)
      /\ a.reachable => d = z.depth
  <2>1. CASE x.call = "Op"
    <3>1. x.pushes \in Nat /\ x.pops \in Nat BY <2>1 DEF Call
    <3>2. d = a.depth + (x.pushes - x.pops) BY <1>6, <1>7, <2>1
    <3>3. z.depth = a.depth - x.pops + x.pushes BY <1>3, <2>1 DEF Moves
    <3> QED BY <1>4, <3>1, <3>2, <3>3
  <2>2. CASE x.call = "branch"
    <3>1. x.pops \in Nat BY <2>2 DEF Call
    <3>2. d = a.depth + (-x.pops) BY <1>6, <1>7, <2>2
    <3>3. z.depth = a.depth - x.pops BY <1>3, <2>2 DEF Moves
    <3> QED BY <1>4, <3>1, <3>2, <3>3
  <2>3. CASE x.call = "Switch"
    <3>1. d = a.depth + (-1) BY <1>6, <1>7, <2>3
    <3>2. z.depth = a.depth - 1 BY <1>3, <2>3 DEF Moves
    <3> QED BY <1>4, <3>1, <3>2
  <2>4. CASE x.call \notin {"Op", "branch", "Switch"}
    <3>1. d = a.depth + 0 BY <1>6, <1>7, <2>4
    <3>2. d = a.depth BY <1>4, <3>1
    <3>3. x.call \in {"Mark", "TryCatch", "Line", "Local", "Bad"} BY <2>4 DEF Call
    <3> QED BY <1>3, <3>2, <3>3 DEF Moves
  <2> QED BY <2>1, <2>2, <2>3, <2>4
<1>9. d \in Nat BY <1>4, <1>8
<1>10. z.depth <= c.maxStack
  <2>1. CASE i + 1 \in 1..Len(body)
    <3>1. At(i + 1).depth <= c.maxStack BY <1>0, <2>1 DEF Laid, Moved
    <3> QED BY <1>2, <3>1
  <2>2. CASE i + 1 \notin 1..Len(body)
    <3>1. Len(body) \in Nat /\ Len(trace) = Len(body) BY <1>0 DEF Laid
    <3>2. ~(i + 1 <= Len(trace)) BY <2>2, <3>1
    <3>3. At(i + 1) = Now(c) BY <3>2 DEF At
    <3> QED BY <1>0, <1>2, <3>3 DEF Now, Laid, Covered
  <2> QED BY <2>1, <2>2
<1>11. ASSUME FallsThrough(i) PROVE i < Len(body) /\ trace[i + 1].depth = d
  <2>1. /\ a.reachable /\ x.call # "Switch" /\ (x.call = "Op" => ~x.ends)
        /\ (x.call = "branch" => x.op # "goto")
    BY <1>1, <1>2, <1>11 DEF FallsThrough, IsCall
  <2>2. x.call \in {"Op", "branch", "Mark", "TryCatch", "Line", "Local", "Bad"}
    BY <2>1 DEF Call
  <2>3. z.reachable BY <1>3, <2>1, <2>2 DEF Moves
  <2>4. i + 1 \in 1..Len(body) /\ z = trace[i + 1] BY <1>0, <1>2, <2>3
  <2>5. Len(body) \in Nat BY <1>0
  <2> QED BY <1>8, <2>1, <2>4, <2>5
<1>12. ASSUME NEW l \in JumpsTo(i) PROVE l \in Label /\ c.pc[l] >= 0 /\ c.ldepth[l] = d
  <2>1. CASE x.call = "branch"
    <3>1. l = x.l BY <1>1, <1>12, <2>1 DEF JumpsTo, IsCall
    <3>2. l \in Label BY <2>1, <3>1 DEF Call
    <3>3. c.ldepth[l] = z.depth BY <1>3, <2>1, <3>1 DEF Moves
    <3>4. PICK k : /\ k \in 1..Len(c.branches) /\ c.branches[k] = Row(x, trace[i].pc, k)
      <4>1. TableOf(c, "branch") = c.branches /\ "branch" \in Tables BY DEF TableOf, Tables
      <4>2. IsCall(i, "branch") BY <1>1, <2>1 DEF IsCall
      <4> QED BY <1>1, <4>1, <4>2, RowOfCall
    <3>5. c.branches[k].l = l BY <2>1, <3>1, <3>4 DEF Row
    <3>6. DOMAIN c.branches = 1..Len(c.branches) BY <1>0 DEF Writer
    <3>7. ~(c.pc[l] < 0) BY <1>0, <3>4, <3>5, <3>6 DEF Checked, UnplacedBranch
    <3> QED BY <1>5, <1>8, <2>1, <3>2, <3>3, <3>7
  <2>2. CASE x.call = "Switch"
    <3>1. l \in Targets(x) BY <1>1, <1>12, <2>2 DEF JumpsTo, IsCall
    <3>2. l \in Label
      <4>1. x.def \in Label /\ x.targets \in Seq(Label) BY <2>2 DEF Call
      <4> QED BY <3>1, <4>1 DEF Targets
    <3>3. c.ldepth[l] = z.depth BY <1>3, <2>2, <3>1 DEF Moves
    <3>4. PICK k : /\ k \in 1..Len(c.switches) /\ c.switches[k] = Row(x, trace[i].pc, k)
      <4>1. TableOf(c, "Switch") = c.switches /\ "Switch" \in Tables BY DEF TableOf, Tables
      <4>2. IsCall(i, "Switch") BY <1>1, <2>2 DEF IsCall
      <4> QED BY <1>1, <4>1, <4>2, RowOfCall
    <3>5. c.switches[k].def = x.def /\ c.switches[k].targets = x.targets BY <2>2, <3>4 DEF Row
    <3>6. Targets(c.switches[k]) = Targets(x) BY <3>5 DEF Targets
    <3>7. DOMAIN c.switches = 1..Len(c.switches) BY <1>0 DEF Writer
    <3>8. ~(c.pc[l] < 0) BY <1>0, <3>1, <3>4, <3>6, <3>7 DEF Checked, UnplacedSwitch
    <3> QED BY <1>5, <1>8, <2>2, <3>2, <3>3, <3>8
  <2>3. CASE x.call \notin {"branch", "Switch"} BY <1>1, <1>12, <2>3 DEF JumpsTo, IsCall
  <2> QED BY <2>1, <2>2, <2>3
<1>13. ASSUME IsCall(i, "TryCatch") PROVE body[i].handler \in Label /\ c.ldepth[body[i].handler] = 1
  <2>1. x.call = "TryCatch" BY <1>1, <1>13 DEF IsCall
  <2> QED BY <1>1, <1>3, <2>1 DEF Moves, Call
<1> QED BY <1>2, <1>3, <1>4, <1>7, <1>8, <1>9, <1>10, <1>11, <1>12, <1>13

(* On every control-flow edge of every committed body there is one stack    *)
(* depth per instruction, control stays inside the body and max_stack       *)
(* covers it all (Mark, noteDepth, TryCatch, push: codewriter.go).          *)
THEOREM DepthsMeet == Spec => []DepthsAgree
<1>1. LayoutInv => DepthsAgree
  <2> SUFFICES ASSUME LayoutInv, Done, NEW i \in DOMAIN body
               PROVE  /\ FallsThrough(i) => i < Len(body) /\ trace[i + 1].depth = DepthAfter(i)
                      /\ \A l \in JumpsTo(i) : trace[MarkOf(l) + 1].depth = DepthAfter(i)
                      /\ IsCall(i, "TryCatch") /\ Placed(body[i].handler)
                           => trace[MarkOf(body[i].handler) + 1].depth = 1
                      /\ trace[i].reachable => MaxOf(trace[i].depth, DepthAfter(i)) <= method.maxStack
    BY DEF DepthsAgree
  <2>1. i \in 1..Len(body) BY DonePoints
  <2>2. /\ DepthAfter(i) \in Nat /\ trace[i].depth \in Nat
        /\ trace[i].depth <= c.maxStack
        /\ trace[i].reachable => DepthAfter(i) <= c.maxStack
        /\ FallsThrough(i) => i < Len(body) /\ trace[i + 1].depth = DepthAfter(i)
        /\ \A l \in JumpsTo(i) : l \in Label /\ c.pc[l] >= 0 /\ c.ldepth[l] = DepthAfter(i)
        /\ IsCall(i, "TryCatch") => body[i].handler \in Label /\ c.ldepth[body[i].handler] = 1
    BY <2>1, CallFlows
  <2>3. \A l \in JumpsTo(i) : trace[MarkOf(l) + 1].depth = DepthAfter(i)
    BY <2>2, PlacedWhere
  <2>4. IsCall(i, "TryCatch") /\ Placed(body[i].handler)
          => trace[MarkOf(body[i].handler) + 1].depth = 1
    BY <2>2, PlacedWhere
  <2>5. c.maxStack \in Nat /\ method.maxStack = c.maxStack
    <3>1. Laid /\ Checked /\ c \in Writer BY DonePoints
    <3>2. c.maxStack \in Nat BY <3>1 DEF Writer
    <3>3. c.maxStack <= 65535
      <4>1. c.maxStack <= MaxStack BY <3>1 DEF Laid, Covered
      <4>2. MaxStack \in Nat BY CodeAssumption
      <4> QED BY <3>2, <4>1, <4>2, WidthAssumption
    <3>4. U2(c.maxStack) = c.maxStack BY <3>2, <3>3, FitsU2
    <3>5. method = Encoded(c) BY <3>1 DEF Checked
    <3> QED BY <3>2, <3>4, <3>5 DEF Encoded
  <2>6. trace[i].reachable => MaxOf(trace[i].depth, DepthAfter(i)) <= method.maxStack
    <3> SUFFICES ASSUME trace[i].reachable PROVE MaxOf(trace[i].depth, DepthAfter(i)) <= c.maxStack
      BY <2>5
    <3> QED BY <2>2, <2>5, MaxOfBounds
  <2> QED BY <2>2, <2>3, <2>4, <2>6
<1> QED BY <1>1, LayoutSafe, PTL

(* The line numbers of a committed body. *)
LEMMA LinesCurrent ==
  ASSUME LayoutInv, Done
  PROVE  /\ Len(method.lines) = Nth("Line", Len(body))
         /\ \A i \in 1..Len(body) : IsCall(i, "Line") =>
              method.lines[Nth("Line", i)] = U2(trace[i].pc)
<1>0. Laid /\ Checked /\ pos - 1 = Len(body) BY DonePoints
<1>1. method.lines = c.lines
  <2>1. method = Encoded(c) BY <1>0 DEF Checked
  <2> QED BY <2>1 DEF Encoded
<1>2. TableOf(c, "Line") = c.lines /\ "Line" \in Tables BY DEF TableOf, Tables
<1>3. Len(c.lines) = Nth("Line", Len(body)) BY <1>0, <1>2, NthIsCount DEF Laid, Tabled
<1>4. ASSUME NEW i \in 1..Len(body), IsCall(i, "Line")
      PROVE  c.lines[Nth("Line", i)] = U2(trace[i].pc)
  <2>1. c.lines[Nth("Line", i)] = Row(body[i], trace[i].pc, Nth("Line", i))
    BY <1>2, <1>4, RowOfCall
  <2> QED BY <1>4, <2>1 DEF Row, IsCall
<1> QED BY <1>1, <1>3, <1>4

(* The exception table of a committed body. *)
LEMMA HandlersCurrent ==
  ASSUME LayoutInv, Done
  PROVE  /\ Len(method.handlers) = Nth("TryCatch", Len(body))
         /\ \A i \in 1..Len(body) : IsCall(i, "TryCatch") =>
              LET h == method.handlers[Nth("TryCatch", i)] IN
                /\ Placed(body[i].start)   => h.start   = U2(PlaceOf(body[i].start))
                /\ Placed(body[i].end)     => h.end     = U2(PlaceOf(body[i].end))
                /\ Placed(body[i].handler) => h.handler = U2(PlaceOf(body[i].handler))
<1>0. Laid /\ Checked /\ pos - 1 = Len(body) /\ body \in Seq(Call) /\ c \in Writer BY DonePoints
<1>1. method.handlers = [k \in 1..Len(c.handlers) |->
                          [start   |-> U2(c.pc[c.handlers[k].start]),
                           end     |-> U2(c.pc[c.handlers[k].end]),
                           handler |-> U2(c.pc[c.handlers[k].handler])]]
  <2>1. method = Encoded(c) BY <1>0 DEF Checked
  <2> QED BY <2>1 DEF Encoded
<1>2. TableOf(c, "TryCatch") = c.handlers /\ "TryCatch" \in Tables BY DEF TableOf, Tables
<1>3. Len(c.handlers) = Nth("TryCatch", Len(body)) BY <1>0, <1>2, NthIsCount DEF Laid, Tabled
<1>4. Len(method.handlers) = Len(c.handlers)
  <2>1. Len(c.handlers) \in Nat BY <1>0 DEF Writer
  <2> QED BY <1>1, <2>1
<1>5. ASSUME NEW i \in 1..Len(body), IsCall(i, "TryCatch"),
             NEW h, h = method.handlers[Nth("TryCatch", i)]
      PROVE  /\ Placed(body[i].start)   => h.start   = U2(PlaceOf(body[i].start))
             /\ Placed(body[i].end)     => h.end     = U2(PlaceOf(body[i].end))
             /\ Placed(body[i].handler) => h.handler = U2(PlaceOf(body[i].handler))
  <2>1. PICK x \in Call : x = body[i] /\ x.call = "TryCatch" BY <1>0, <1>5 DEF IsCall
  <2>2. x.start \in Label /\ x.end \in Label /\ x.handler \in Label BY <2>1 DEF Call
  <2>3. PICK k : k = Nth("TryCatch", i) OBVIOUS
  <2>4. k \in 1..Len(c.handlers) /\ c.handlers[k] = Row(x, trace[i].pc, k)
    BY <1>2, <1>5, <2>1, <2>3, RowOfCall
  <2>5. c.handlers[k] = [start |-> x.start, end |-> x.end, handler |-> x.handler]
    BY <2>1, <2>4 DEF Row
  <2>6. h.start = U2(c.pc[x.start]) /\ h.end = U2(c.pc[x.end]) /\ h.handler = U2(c.pc[x.handler])
    <3>1. h = [start   |-> U2(c.pc[c.handlers[k].start]),
               end     |-> U2(c.pc[c.handlers[k].end]),
               handler |-> U2(c.pc[c.handlers[k].handler])]
      BY <1>1, <1>5, <2>3, <2>4
    <3>2. PICK r : r = c.handlers[k] OBVIOUS
    <3>3. r.start = x.start /\ r.end = x.end /\ r.handler = x.handler BY <2>5, <3>2
    <3> QED BY <3>1, <3>2, <3>3
  <2>7. \A l \in Label : Placed(l) => c.pc[l] = PlaceOf(l) BY PlacedWhere
  <2> QED BY <2>1, <2>2, <2>6, <2>7
<1> QED BY <1>3, <1>4, <1>5

(* The local variable ranges of a committed body. *)
LEMMA LocalsCurrent ==
  ASSUME LayoutInv, Done
  PROVE  /\ DOMAIN method.locals \subseteq 1..Nth("Local", Len(body))
         /\ \A i \in 1..Len(body) : IsCall(i, "Local") =>
              LET k     == Nth("Local", i)
                  start == PlaceOf(body[i].start)
                  end   == PlaceOf(body[i].end)
              IN  /\ k \in DOMAIN method.locals <=> end > start
                  /\ end > start => method.locals[k] = [start |-> start, length |-> end - start]
<1>0. Laid /\ Checked /\ pos - 1 = Len(body) /\ body \in Seq(Call) /\ c \in Writer BY DonePoints
<1>1. method.locals = localRows(c)
  <2>1. method = Encoded(c) BY <1>0 DEF Checked
  <2> QED BY <2>1 DEF Encoded
<1>2. TableOf(c, "Local") = c.locals /\ "Local" \in Tables BY DEF TableOf, Tables
<1>3. Len(c.locals) = Nth("Local", Len(body)) BY <1>0, <1>2, NthIsCount DEF Laid, Tabled
<1>4. DOMAIN c.locals = 1..Len(c.locals) BY <1>0 DEF Writer
<1>5. DOMAIN method.locals = {k \in DOMAIN c.locals : c.pc[c.locals[k].end] > c.pc[c.locals[k].start]}
  BY <1>1 DEF localRows
<1>6. ASSUME NEW i \in 1..Len(body), IsCall(i, "Local"), NEW k, k = Nth("Local", i),
             NEW s, s = PlaceOf(body[i].start), NEW e, e = PlaceOf(body[i].end)
      PROVE  /\ k \in DOMAIN method.locals <=> e > s
             /\ e > s => method.locals[k] = [start |-> s, length |-> e - s]
  <2>1. PICK x \in Call : x = body[i] /\ x.call = "Local" BY <1>0, <1>6 DEF IsCall
  <2>2. x.start \in Label /\ x.end \in Label BY <2>1 DEF Call
  <2>3. k \in 1..Len(c.locals) /\ c.locals[k] = Row(x, trace[i].pc, k)
    BY <1>2, <1>6, <2>1, RowOfCall
  <2>4. c.locals[k].start = x.start /\ c.locals[k].end = x.end BY <2>1, <2>3 DEF Row
  <2>5. ~(c.pc[x.start] < 0) /\ ~(c.pc[x.end] < 0)
    BY <1>0, <1>4, <2>3, <2>4 DEF Checked, UnplacedLocal
  <2>6. c.pc[x.start] \in Int /\ c.pc[x.end] \in Int BY <1>0, <2>2 DEF Writer
  <2>7. c.pc[x.start] >= 0 /\ c.pc[x.end] >= 0 BY <2>5, <2>6
  <2>8. s = c.pc[x.start] /\ e = c.pc[x.end] BY <1>6, <2>1, <2>2, <2>7, PlacedWhere
  <2>9. s \in Nat /\ e \in Nat BY <2>6, <2>7, <2>8
  <2>10. s <= 65535 /\ e <= 65535
    <3>1. c.pc[x.start] <= c.len /\ c.pc[x.end] <= c.len BY <1>0, <2>2 DEF Laid, Marked
    <3>2. c.len <= MaxCodeLength BY <1>0 DEF Checked
    <3>3. c.len \in Nat BY <1>0 DEF Writer
    <3>4. MaxCodeLength \in Nat BY CodeAssumption
    <3> QED BY <2>8, <2>9, <3>1, <3>2, <3>3, <3>4, WidthAssumption
  <2>11. k \in DOMAIN method.locals <=> e > s BY <1>4, <1>5, <2>3, <2>4, <2>8
  <2>12. ASSUME e > s PROVE method.locals[k] = [start |-> s, length |-> e - s]
    <3>1. k \in DOMAIN method.locals BY <2>11, <2>12
    <3>2. method.locals[k] = [start |-> U2(s), length |-> U2(e - s)]
      BY <1>1, <1>5, <2>4, <2>8, <3>1 DEF localRows
    <3>3. e - s \in Nat /\ e - s <= 65535 BY <2>9, <2>10, <2>12
    <3>4. U2(s) = s /\ U2(e - s) = e - s BY <2>9, <2>10, <3>3, FitsU2
    <3> QED BY <3>2, <3>4
  <2> QED BY <2>11, <2>12
<1> QED BY <1>3, <1>4, <1>5, <1>6

(* The exception table, the line numbers and the local variable ranges of   *)
(* every committed body speak of its final layout (TryCatch, Line,          *)
(* localRows: codewriter.go).                                               *)
THEOREM TablesStayCurrent == Spec => []TablesAreCurrent
<1>1. LayoutInv => TablesAreCurrent
  <2> SUFFICES ASSUME LayoutInv, Done PROVE TablesAreCurrent BY DEF TablesAreCurrent
  <2>1. DOMAIN body = 1..Len(body) BY DonePoints
  <2> QED BY <2>1, LinesCurrent, HandlersCurrent, LocalsCurrent DEF TablesAreCurrent
<1> QED BY <1>1, LayoutSafe, PTL
=============================================================================
