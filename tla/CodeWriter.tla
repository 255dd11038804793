------------------------------ MODULE CodeWriter ------------------------------
(***************************************************************************)
(* One call of MethodBuilder.Code (src/classfile/builder.go): the closure   *)
(* that emits a method body is replayed against a fresh CodeWriter          *)
(* (src/classfile/codewriter.go) until no branch has to be widened, then    *)
(* the resolved body is committed to the method.                            *)
(*                                                                         *)
(* A body is the sequence of writer calls its closure makes.  Pass 0        *)
(* records it, picking a Fragment (a run of calls) at a time; later passes  *)
(* replay the recorded calls, which is what "the closure must be            *)
(* deterministic" asks of the caller.  A straight-line run of instructions  *)
(* is one "Op" call with the run's length, so the real 16-bit limits are    *)
(* reached with a handful of calls.                                         *)
(***************************************************************************)
EXTENDS Integers, Sequences, FiniteSets

CONSTANTS
  Label,          \* the labels a closure creates with NewLabel
  Fragment,       \* sequences of writer calls the closure is made of
  ShortMax,       \* 32767, the largest displacement of a 16-bit branch
  MaxCodeLength,  \* 65535
  MaxStack,       \* 65535
  MaxLocals,      \* 65535
  ArgSlots,       \* slots of the method's arguments, receiver included
  maxReplays,     \* 10
  MaxBody,        \* bound: calls in a body
  Continues(_, _) \* which fragments a closure may make after the calls so far

Calls == {"Op", "branch", "Switch", "Mark", "TryCatch", "Line", "Local", "Bad"}

(* The calls.  Op stands for a straight-line run: its bytes, its stack      *)
(* effect, the highest local slot it needs, whether control ends there.     *)
Op(size, pops, pushes, slots, ends) ==
  [call |-> "Op", size |-> size, pops |-> pops, pushes |-> pushes,
   slots |-> slots, ends |-> ends]
Goto(l)         == [call |-> "branch", op |-> "goto", l |-> l, pops |-> 0]
If(l, pops)     == [call |-> "branch", op |-> "if", l |-> l, pops |-> pops]
(* targets: a tableswitch's in order, a lookupswitch's in the order of its  *)
(* sorted matches.                                                          *)
Switch(op, def, targets) ==
  [call |-> "Switch", op |-> op, def |-> def, targets |-> targets]
Mark(l)         == [call |-> "Mark", l |-> l]
TryCatch(s, e, h) == [call |-> "TryCatch", start |-> s, end |-> e, handler |-> h]
Line            == [call |-> "Line"]
Local(s, e)     == [call |-> "Local", start |-> s, end |-> e]
(* A call whose arguments the writer refuses: a malformed descriptor, an    *)
(* iinc delta out of range, duplicate lookupswitch matches, ...             *)
Bad             == [call |-> "Bad"]

Call ==
       [call: {"Op"}, size: Nat \ {0}, pops: Nat, pushes: Nat, slots: Nat, ends: BOOLEAN]
  \cup [call: {"branch"}, op: {"goto", "if"}, l: Label, pops: Nat]
  \cup [call: {"Switch"}, op: {"table", "lookup"}, def: Label, targets: Seq(Label)]
  \cup [call: {"Mark"}, l: Label]
  \cup [call: {"TryCatch"}, start: Label, end: Label, handler: Label]
  \cup [call: {"Line"}]
  \cup [call: {"Local"}, start: Label, end: Label]
  \cup [call: {"Bad"}]

ASSUME CodeAssumption ==
  /\ ShortMax \in Nat /\ MaxCodeLength \in Nat /\ MaxStack \in Nat \ {0}
  /\ MaxLocals \in Nat /\ ArgSlots \in 0..MaxLocals
  /\ maxReplays \in Nat \ {0} /\ MaxBody \in Nat
  /\ Fragment \subseteq Seq(Call)
(* Offsets and depths the limits allow fit the class file's u2. *)
ASSUME WidthAssumption == MaxCodeLength <= 65535 /\ MaxStack <= 65535

VARIABLES
  body,    \* the calls the closure makes, as recorded by pass 0
  pos,     \* the next call of the current pass
  pass,    \* the loop counter of Code
  widen,   \* branch ordinals that must use the long form
  c,       \* the CodeWriter of the current pass
  trace,   \* history: offset, depth and reachability before each call
  status,  \* where Code is: "replay", "emit", "done" or "failed"
  err,     \* the builder's error
  method   \* what Code committed to the MethodBuilder

vars == <<body, pos, pass, widen, c, trace, status, err, method>>

NoErr == "none"
(* Errors a writer call leaves in the writer, and those Code adds. *)
WriterErr == {"max_stack", "underflow", "max_locals", "unreachable_code", "branch_depth",
              "placed_twice", "fall_depth", "unreachable_label", "handler_depth", "argument"}
CodeErr == {"no_convergence", "falls_off_the_end", "never_placed", "code_too_long",
            "local_spans_unplaced"}
None  == [len |-> -1]
U2(n) == n % 65536
ShortMin == -ShortMax - 1
(* int16(off): what a JVM reads back from the two patched bytes *)
Int16(off) == ((off + ShortMax + 1) % (2 * (ShortMax + 1))) - (ShortMax + 1)
MaxOf(a, b) == IF a >= b THEN a ELSE b

-----------------------------------------------------------------------------
(* The CodeWriter's own methods: each maps a writer to the writer after it. *)

(* Labels are created inside the closure, so a fresh writer has fresh ones. *)
NewWriter ==
  [len |-> 0, err |-> NoErr, depth |-> 0, maxStack |-> 0,
   maxLocals |-> ArgSlots, reachable |-> TRUE,
   pc |-> [l \in Label |-> -1], ldepth |-> [l \in Label |-> -1],
   branches |-> <<>>, switches |-> <<>>, handlers |-> <<>>,
   lines |-> <<>>, locals |-> <<>>]

fail(w, e) == IF w.err = NoErr THEN [w EXCEPT !.err = e] ELSE w

push(w, n) ==
  LET d == w.depth + n IN
  IF d > MaxStack THEN fail([w EXCEPT !.depth = d], "max_stack")
  ELSE [w EXCEPT !.depth = d, !.maxStack = MaxOf(@, d)]

pop(w, n) ==
  IF w.depth < n THEN fail([w EXCEPT !.depth = 0], "underflow")
  ELSE [w EXCEPT !.depth = @ - n]

useLocal(w, n) ==
  IF n > MaxLocals THEN fail(w, "max_locals")
  ELSE [w EXCEPT !.maxLocals = MaxOf(@, n)]

terminate(w) == [w EXCEPT !.reachable = FALSE]

(* emitOp and the operand bytes that follow it *)
emitOp(w, size) ==
  IF w.reachable THEN [w EXCEPT !.len = @ + size] ELSE fail(w, "unreachable_code")

(* Mutant of noteDepth: only the first jump to a label is looked at. *)
noteDepthFirst(w, targets) ==
  [w EXCEPT !.ldepth = [l \in Label |->
     IF l \in targets /\ w.ldepth[l] < 0 THEN w.depth ELSE w.ldepth[l]]]

(* Records the depth a jump requires at each of its target labels. *)
noteDepth(w, targets) ==
  LET noted == [w EXCEPT !.ldepth = [l \in Label |->
                  IF l \in targets /\ w.ldepth[l] < 0 THEN w.depth ELSE w.ldepth[l]]]
  IN  IF \E l \in targets : noted.ldepth[l] # w.depth
      THEN fail(noted, "branch_depth") ELSE noted

(* Control meets a label some jump has already recorded a depth for. *)
meetLabel(w, l) ==
  IF w.reachable /\ w.depth # w.ldepth[l] THEN fail(w, "fall_depth")
  ELSE [w EXCEPT !.depth = w.ldepth[l], !.reachable = TRUE]

MarkLabel(w, l) ==
  LET placed == [w EXCEPT !.pc[l] = w.len] IN
  IF w.pc[l] >= 0 THEN fail(w, "placed_twice")
  ELSE IF w.ldepth[l] >= 0 THEN meetLabel(placed, l)
  ELSE IF w.reachable THEN [placed EXCEPT !.ldepth[l] = w.depth]
  ELSE fail(placed, "unreachable_label")

OpCall(w, i) ==
  LET u == useLocal(w, i.slots)
      e == push(pop(emitOp(u, i.size), i.pops), i.pushes)
  IN  IF i.ends THEN terminate(e) ELSE e

(* A narrow branch is 3 bytes, a goto_w 5; a conditional has no long form,  *)
(* so the inverted test over a goto_w takes 8.                              *)
BranchSize(op, wide) == IF ~wide THEN 3 ELSE IF op = "goto" THEN 5 ELSE 8

branch(w, i) ==
  LET wide == Len(w.branches) + 1 \in widen
      e    == emitOp(noteDepth(pop(w, i.pops), {i.l}), BranchSize(i.op, wide))
      b    == [e EXCEPT !.branches = Append(@,
                 [op |-> i.op, l |-> i.l, at |-> w.len, wide |-> wide])]
  IN  IF i.op = "goto" THEN terminate(b) ELSE b

Targets(i) == {i.def} \cup {i.targets[k] : k \in 1..Len(i.targets)}

(* tableswitch: default, low, high, one offset each; lookupswitch: default, *)
(* npairs, a match and an offset each.                                      *)
SwitchSize(i, pad) ==
  1 + pad + (IF i.op = "table" THEN 12 + 4 * Len(i.targets)
                               ELSE 8 + 8 * Len(i.targets))

(* Mutant of SwitchCall: the padding is counted from the opcode itself. *)
SwitchCallMispadded(w, i) ==
  LET pad == (4 - (w.len % 4)) % 4
      e   == emitOp(noteDepth(pop(w, 1), Targets(i)), SwitchSize(i, pad))
  IN  terminate([e EXCEPT !.switches = Append(@,
        [op |-> i.op, at |-> w.len, pad |-> pad, def |-> i.def, targets |-> i.targets])])

SwitchCall(w, i) ==
  LET pad == (4 - ((w.len + 1) % 4)) % 4
      e   == emitOp(noteDepth(pop(w, 1), Targets(i)), SwitchSize(i, pad))
  IN  terminate([e EXCEPT !.switches = Append(@,
        [op |-> i.op, at |-> w.len, pad |-> pad, def |-> i.def, targets |-> i.targets])])

TryCatchCall(w, i) ==
  LET h == [w EXCEPT !.handlers = Append(@, [start |-> i.start, end |-> i.end,
                                             handler |-> i.handler]),
                     !.ldepth[i.handler] = IF @ < 0 THEN 1 ELSE @,
                     !.maxStack = MaxOf(@, 1)]
  IN  IF h.ldepth[i.handler] # 1 THEN fail(h, "handler_depth") ELSE h

LineCall(w)     == [w EXCEPT !.lines = Append(@, U2(w.len))]
LocalCall(w, i) == [w EXCEPT !.locals = Append(@, [start |-> i.start, end |-> i.end])]

Apply(w, i) ==
  CASE i.call = "Op"       -> OpCall(w, i)
    [] i.call = "branch"   -> branch(w, i)
    [] i.call = "Switch"   -> SwitchCall(w, i)
    [] i.call = "Mark"     -> MarkLabel(w, i.l)
    [] i.call = "TryCatch" -> TryCatchCall(w, i)
    [] i.call = "Line"     -> LineCall(w)
    [] i.call = "Local"    -> LocalCall(w, i)
    [] i.call = "Bad"      -> fail(w, "argument")

-----------------------------------------------------------------------------
(* resolve: patching the offsets of a finished pass *)

Offset(w, b) == w.pc[b.l] - b.at
(* Mutant of Reaches: off by one at the top of the range. *)
ReachesOneMore(off) == off >= ShortMin /\ off <= ShortMax + 1

Reaches(off) == off >= ShortMin /\ off <= ShortMax

(* Mutant of TooFar: a branch already widened is reported again. *)
TooFarAgain(w) == {k \in DOMAIN w.branches : ~Reaches(Offset(w, w.branches[k]))}

(* Ordinals of the short branches whose offset does not fit 16 bits.       *)
TooFar(w) == {k \in DOMAIN w.branches :
                ~w.branches[k].wide /\ ~Reaches(Offset(w, w.branches[k]))}

(* The displacement a settled branch is patched with: the goto_w of an      *)
(* expanded conditional starts three bytes in.                              *)
Patch(w, b) ==
  IF ~b.wide THEN Int16(Offset(w, b))
  ELSE IF b.op = "goto" THEN Offset(w, b)
  ELSE Offset(w, b) - 3

UnplacedBranch(w) == \E k \in DOMAIN w.branches : w.pc[w.branches[k].l] < 0
UnplacedSwitch(w) == \E k \in DOMAIN w.switches :
                       \E l \in Targets(w.switches[k]) : w.pc[l] < 0
UnplacedLocal(w)  == \E k \in DOMAIN w.locals :
                       w.pc[w.locals[k].start] < 0 \/ w.pc[w.locals[k].end] < 0

PatchedSwitch(w, s) ==
  [at |-> s.at, pad |-> s.pad, def |-> w.pc[s.def] - s.at,
   targets |-> [k \in 1..Len(s.targets) |-> w.pc[s.targets[k]] - s.at]]

(* localRows: a row whose range holds no instruction is dropped.  Rows keep *)
(* the order of their Local calls and are named by the ordinal of the call. *)
localRows(w) ==
  [k \in {k \in DOMAIN w.locals : w.pc[w.locals[k].end] > w.pc[w.locals[k].start]} |->
     LET r == w.locals[k] IN
     [start |-> U2(w.pc[r.start]), length |-> U2(w.pc[r.end] - w.pc[r.start])]]

Encoded(w) ==
  [len       |-> w.len,
   maxStack  |-> U2(w.maxStack),
   maxLocals |-> U2(w.maxLocals),
   branches  |-> [k \in 1..Len(w.branches) |-> Patch(w, w.branches[k])],
   switches  |-> [k \in 1..Len(w.switches) |-> PatchedSwitch(w, w.switches[k])],
   lines     |-> w.lines,
   locals    |-> localRows(w),
   handlers  |-> [k \in 1..Len(w.handlers) |->
                    [start   |-> U2(w.pc[w.handlers[k].start]),
                     end     |-> U2(w.pc[w.handlers[k].end]),
                     handler |-> U2(w.pc[w.handlers[k].handler])]]]
-----------------------------------------------------------------------------
(* MethodBuilder.Code *)

Init ==
  /\ body = <<>> /\ pos = 1 /\ pass = 0 /\ widen = {}
  /\ c = NewWriter /\ trace = <<>>
  /\ status = "replay" /\ err = NoErr /\ method = None

Fail(e) ==
  /\ status' = "failed" /\ err' = e
  /\ UNCHANGED <<body, pos, pass, widen, c, trace, method>>

(* The head of the loop, the bound reached. *)
NotConverged == status = "replay" /\ pass >= maxReplays /\ Fail("no_convergence")

(* Mutant of StartPass: the exception table of the last pass is kept. *)
StartPassStale ==
  /\ status = "replay" /\ pass < maxReplays
  /\ status' = "emit" /\ pos' = 1 /\ trace' = <<>>
  /\ c' = [NewWriter EXCEPT !.handlers = c.handlers]
  /\ UNCHANGED <<body, pass, widen, err, method>>

StartPass ==
  /\ status = "replay" /\ pass < maxReplays
  /\ status' = "emit" /\ pos' = 1 /\ c' = NewWriter /\ trace' = <<>>
  /\ UNCHANGED <<body, pass, widen, err, method>>

(* Pass 0: the closure decides what it emits next. *)
Choose(f) ==
  /\ status = "emit" /\ pass = 0 /\ c.err = NoErr
  /\ pos > Len(body) /\ Len(body) + Len(f) <= MaxBody /\ Continues(body, f)
  /\ body' = body \o f
  /\ UNCHANGED <<pos, pass, widen, c, trace, status, err, method>>

(* The closure makes its next call.  Once the writer has failed, further    *)
(* calls cannot change the outcome: Code discards the writer.               *)
Emit ==
  /\ status = "emit" /\ c.err = NoErr /\ pos <= Len(body)
  /\ c' = Apply(c, body[pos])
  /\ trace' = Append(trace, [pc |-> c.len, depth |-> c.depth, reachable |-> c.reachable])
  /\ pos' = pos + 1
  /\ UNCHANGED <<body, pass, widen, status, err, method>>

Returned == status = "emit" /\ (c.err # NoErr \/ pos > Len(body))

(* The closure left an error or an open end, or a branch has no target. *)
Refuse ==
  /\ Returned
  /\ \/ c.err # NoErr /\ Fail(c.err)
     \/ c.err = NoErr /\ c.reachable /\ Fail("falls_off_the_end")
     \/ c.err = NoErr /\ ~c.reachable /\ UnplacedBranch(c) /\ Fail("never_placed")

Resolvable == Returned /\ c.err = NoErr /\ ~c.reachable /\ ~UnplacedBranch(c)

(* resolve returned true: widen and run the closure again. *)
Replay ==
  /\ Resolvable /\ TooFar(c) # {}
  /\ widen' = widen \cup TooFar(c)
  /\ pass' = pass + 1 /\ status' = "replay"
  /\ UNCHANGED <<body, pos, c, trace, err, method>>

Settled == Resolvable /\ TooFar(c) = {}

(* The checks on a settled body, in order.  The others Code makes cannot    *)
(* fail here: an empty body falls off the end, and push and useLocal have   *)
(* already refused what exceeds max_stack or max_locals.  A local whose     *)
(* range is unplaced is found after the body is assigned, but the builder's *)
(* error keeps Bytes from ever writing it.                                  *)
Overflow ==
  /\ Settled
  /\ \/ UnplacedSwitch(c) /\ Fail("never_placed")
     \/ ~UnplacedSwitch(c) /\ c.len > MaxCodeLength /\ Fail("code_too_long")
     \/ ~UnplacedSwitch(c) /\ c.len \in 1..MaxCodeLength /\ UnplacedLocal(c)
          /\ Fail("local_spans_unplaced")

Commit ==
  /\ Settled /\ ~UnplacedSwitch(c) /\ ~UnplacedLocal(c)
  /\ c.len \in 1..MaxCodeLength
  /\ method' = Encoded(c) /\ status' = "done"
  /\ UNCHANGED <<body, pos, pass, widen, c, trace, err>>

Code == StartPass \/ NotConverged \/ Emit \/ Refuse \/ Replay \/ Overflow \/ Commit

Next == Code \/ \E f \in Fragment : Choose(f)

Spec == Init /\ [][Next]_vars
-----------------------------------------------------------------------------
(* What the bytes mean to a JVM, defined from the recorded calls and the    *)
(* final layout only, never from the writer's own tables.                   *)

Done == status = "done"

IsCall(i, k)  == body[i].call = k
Nth(k, i)     == Cardinality({j \in 1..i : IsCall(j, k)})  \* ordinal of call i
MarkOf(l)     == CHOOSE i \in DOMAIN body : body[i] = Mark(l)
PlaceOf(l)    == trace[MarkOf(l)].pc
Placed(l)     == \E i \in DOMAIN body : body[i] = Mark(l)

(* What a CodeWriter can hold between two calls. *)
BranchRow  == [op: {"goto", "if"}, l: Label, at: Nat, wide: BOOLEAN]
SwitchRow  == [op: {"table", "lookup"}, at: Nat, pad: 0..3, def: Label, targets: Seq(Label)]
HandlerRow == [start: Label, end: Label, handler: Label]
LocalRow   == [start: Label, end: Label]
Writer ==
  [len: Nat, err: {NoErr} \cup WriterErr, depth: Nat, maxStack: Nat, maxLocals: Nat,
   reachable: BOOLEAN, pc: [Label -> Int], ldepth: [Label -> Int],
   branches: Seq(BranchRow), switches: Seq(SwitchRow), handlers: Seq(HandlerRow),
   lines: Seq(Nat), locals: Seq(LocalRow)]

TypeOK ==
  /\ body \in Seq(Call) /\ pos \in 1..(Len(body) + 1) /\ pass \in 0..maxReplays
  /\ widen \subseteq Nat
  /\ c \in Writer
  /\ trace \in Seq([pc: Nat, depth: Nat, reachable: BOOLEAN])
  /\ status \in {"replay", "emit", "done", "failed"}
  /\ err \in {NoErr} \cup WriterErr \cup CodeErr
  /\ err # NoErr <=> status = "failed"
  /\ method # None <=> status = "done"

(* Every branch of a committed body jumps to the place its label has in the *)
(* final layout, and the inverted test of an expanded conditional skips     *)
(* exactly the goto_w behind it (branch, resolve: codewriter.go).           *)
BranchesLand ==
  Done => \A i \in DOMAIN body : IsCall(i, "branch") =>
    LET k    == Nth("branch", i)
        wide == k \in widen
        from == trace[i].pc + (IF wide /\ body[i].op = "if" THEN 3 ELSE 0)
    IN  /\ from + method.branches[k] = PlaceOf(body[i].l)
        /\ body[i].op = "if" => trace[i + 1].pc = trace[i].pc + (IF wide THEN 8 ELSE 3)

(* Every switch of a committed body jumps to the final places of its        *)
(* labels, and its operands start on a multiple of four of the final        *)
(* layout, although widening an earlier branch moves it (SwitchCall).       *)
SwitchesLand ==
  Done => \A i \in DOMAIN body : IsCall(i, "Switch") =>
    LET s == method.switches[Nth("Switch", i)] IN
      /\ s.at = trace[i].pc /\ (s.at + 1 + s.pad) % 4 = 0 /\ s.pad \in 0..3
      /\ s.at + s.def = PlaceOf(body[i].def)
      /\ \A k \in 1..Len(body[i].targets) : s.at + s.targets[k] = PlaceOf(body[i].targets[k])

(* The depth a JVM has after call i, and where control may go from it. *)
DepthAfter(i) ==
  trace[i].depth + CASE IsCall(i, "Op")     -> body[i].pushes - body[i].pops
                     [] IsCall(i, "branch") -> -body[i].pops
                     [] IsCall(i, "Switch") -> -1
                     [] OTHER               -> 0
FallsThrough(i) ==
  /\ trace[i].reachable
  /\ ~IsCall(i, "Switch")
  /\ IsCall(i, "Op") => ~body[i].ends
  /\ IsCall(i, "branch") => body[i].op # "goto"
JumpsTo(i) == CASE IsCall(i, "branch") -> {body[i].l}
                [] IsCall(i, "Switch") -> Targets(body[i])
                [] OTHER -> {}

(* On every control-flow edge of a committed body the operand stack has one *)
(* depth per instruction, whichever way control arrives there, handlers are *)
(* entered with exactly the throwable, control never runs past the end, and *)
(* max_stack covers every depth (Mark, noteDepth, TryCatch, push).          *)
DepthsAgree ==
  Done => \A i \in DOMAIN body :
    /\ FallsThrough(i) => i < Len(body) /\ trace[i + 1].depth = DepthAfter(i)
    /\ \A l \in JumpsTo(i) : trace[MarkOf(l) + 1].depth = DepthAfter(i)
    /\ IsCall(i, "TryCatch") /\ Placed(body[i].handler)
         => trace[MarkOf(body[i].handler) + 1].depth = 1
    /\ trace[i].reachable => MaxOf(trace[i].depth, DepthAfter(i)) <= method.maxStack

(* The exception table, the line numbers and the local variable ranges of a *)
(* committed body speak of its final layout, not of an earlier pass's       *)
(* (TryCatch, Line, localRows).                                             *)
TablesAreCurrent ==
  Done =>
    /\ Len(method.lines) = Nth("Line", Len(body))
    /\ \A i \in DOMAIN body : IsCall(i, "Line") =>
         method.lines[Nth("Line", i)] = U2(trace[i].pc)
    /\ Len(method.handlers) = Nth("TryCatch", Len(body))
    /\ \A i \in DOMAIN body : IsCall(i, "TryCatch") =>
         LET h == method.handlers[Nth("TryCatch", i)] IN
           /\ Placed(body[i].start)   => h.start   = U2(PlaceOf(body[i].start))
           /\ Placed(body[i].end)     => h.end     = U2(PlaceOf(body[i].end))
           /\ Placed(body[i].handler) => h.handler = U2(PlaceOf(body[i].handler))
    /\ DOMAIN method.locals \subseteq 1..Nth("Local", Len(body))
    /\ \A i \in DOMAIN body : IsCall(i, "Local") =>
         LET k     == Nth("Local", i)
             start == PlaceOf(body[i].start)
             end   == PlaceOf(body[i].end)
         IN  /\ k \in DOMAIN method.locals <=> end > start
             /\ end > start => method.locals[k] = [start |-> start, length |-> end - start]

(* A replay always widens a branch that was short and never narrows one:    *)
(* the reason the loop in Code terminates (builder.go, maxReplays).         *)
EachReplayWidens == [][pass' # pass => widen \subseteq widen' /\ widen # widen']_vars

(* A body with fewer branches than maxReplays is never refused for want of  *)
(* convergence: each replay uses up a short branch (the loop of Code).      *)
FewBranchesConverge ==
  Nth("branch", Len(body)) < maxReplays => err # "no_convergence"
=============================================================================
