-------------------------------- MODULE Machine --------------------------------
(***************************************************************************)
(* The Java virtual machine as far as lower's output needs one: it runs a   *)
(* sequence of writer calls and yields the events Run yields for a tree.    *)
(*                                                                         *)
(* The operand stack holds words; a long or a double is its term and a      *)
(* half.  A slot holds the variable that was stored in it, so reading the   *)
(* wrong slot shows as an event of the wrong variable, and reading half a   *)
(* value as a torn one.                                                     *)
(***************************************************************************)
EXTENDS JavaTree

CONSTANT MaxSteps   \* bound: an execution takes at most 2^MaxSteps instructions

Half(v)     == Term("half", <<v>>)
Torn        == Leaf("torn")
Words(v, t) == IF Slots(t) = 2 THEN <<v, Half(v)>> ELSE <<v>>

(* m: an execution as in JavaTree, with the next call, stack and slots. *)
Boot(mem, tape) == [ev |-> <<>>, tape |-> tape, out |-> Normal, val |-> Unit, ask |-> NoAsk,
                    pc |-> 1, st |-> <<>>, mem |-> mem]

Drop(m, n)   == [m EXCEPT !.st = SubSeq(@, 1, Len(@) - n)]
PushV(m, v, t) == IF Going(m) THEN [m EXCEPT !.st = @ \o Words(v, t)] ELSE m
(* The value of type t whose last word is the i-th from the top. *)
Peek(m, i, t) ==
  LET n == Len(m.st) - i + 1 IN
  IF Slots(t) = 1 THEN m.st[n]
  ELSE IF m.st[n] = Half(m.st[n - 1]) THEN m.st[n - 1] ELSE Torn

Slot(m, s)   == IF s \in DOMAIN m.mem THEN m.mem[s] ELSE [v |-> "none", x |-> Torn]
SlotValue(m, s, t) ==
  IF Slots(t) = 1 \/ Slot(m, s + 1).x = Half(Slot(m, s).x) THEN Slot(m, s).x ELSE Torn
Written(m, s, t, v, x) ==
  [m EXCEPT !.mem = (IF Slots(t) = 2 THEN (s + 1) :> [v |-> "half", x |-> Half(x)] ELSE <<>>)
                    @@ (s :> [v |-> v, x |-> x]) @@ @]

(* The shuffles: the last n words are put again below the k words under     *)
(* them.                                                                    *)
DupUnder(m, n, k) ==
  LET len == Len(m.st)
      top == SubSeq(m.st, len - n + 1, len)
  IN  [m EXCEPT !.st = SubSeq(m.st, 1, len - n - k) \o top \o SubSeq(m.st, len - n - k + 1, len)]

Place2(lhs, m) ==
  LET n == Slots(lhs.t) IN
  CASE lhs.k = "field" -> <<Peek(m, n + 1, "int")>>
    [] lhs.k = "index" -> <<Peek(m, n + 2, "int"), Peek(m, n + 1, "int")>>
    [] OTHER -> <<>>
OrderTerm(r, nan) == IF r = "nan" THEN nan ELSE r

(* One instruction that neither jumps nor ends the method. *)
Simple(m, i) ==
  LET x == i.x IN
  CASE i.do = "const" -> PushV(m, x, IF i.pushes = 2 THEN "long" ELSE "int")
    [] i.do = "val"   -> PushV(Say(m, "val", x.id, Unit), Leaf(x.id), x.t)
    [] i.do = "test"  -> LET a == Ask(Drop(m, i.pops), "test", x, Unit) IN PushV(a, a.val, "int")
    [] i.do \in {"disabled", "next"} ->
         LET a == Ask(Drop(m, i.pops), i.do, x, Unit) IN PushV(a, a.val, "int")
    [] i.do = "element" -> PushV(Drop(m, 1), Leaf(x), IF i.pushes = 2 THEN "long" ELSE "int")
    [] i.do = "call"  -> LET a == Ask(Drop(m, x.n), "call", x.id,
                                      Term("", SubSeq(m.st, Len(m.st) - x.n + 1, Len(m.st))))
                         IN  IF i.pushes = 0 THEN a ELSE PushV(a, Leaf(x.id), "int")
    [] i.do = "close" -> Ask(Drop(m, 1), "close", x, Unit)
    [] i.do \in {"lock", "unlock"} -> Say(Drop(m, 1), i.do, x, Unit)
    [] i.do = "suppress" -> Drop(m, 2)
    [] i.do = "load"  -> LET c == Slot(m, x.slot) IN
         PushV(IF c.v = "$" THEN m ELSE Say(m, "read", c.v, Unit), SlotValue(m, x.slot, x.t), x.t)
    [] i.do = "store" -> LET v == Peek(m, 1, x.t) IN
         Written(Drop(IF x.v = "$" THEN m ELSE Say(m, "write", x.v, v), Slots(x.t)),
                 x.slot, x.t, x.v, v)
    [] i.do = "iinc"  -> LET c == Slot(m, x.slot)
                             v == Term("add", <<c.x, Leaf("1")>>)
                         IN  Written(Say(Say(m, "read", c.v, Unit), "write", x.v, v),
                                     x.slot, "int", x.v, v)
    [] i.do = "conv"  -> PushV(Drop(m, Slots(x.from)), Term(x.to, <<Peek(m, 1, x.from)>>), x.to)
    [] i.do = "arith" ->
         LET rt == IF IsShift(x.op) THEN "int" ELSE x.t IN
         PushV(Drop(m, i.pops), Term(x.op, <<Peek(m, 1 + Slots(rt), x.t), Peek(m, 1, rt)>>), x.t)
    [] i.do = "get"   -> LET on == CASE x.k = "field" -> <<Peek(m, 1, "int")>>
                                     [] x.k = "index" -> <<Peek(m, 2, "int"), Peek(m, 1, "int")>>
                                     [] OTHER -> <<>>
                         IN  PushV(Say(Drop(m, i.pops), "get", x.k, Term("", on)), Term("old", on), x.t)
    [] i.do = "put"   -> Say(Drop(m, i.pops), "put", x.k,
                             Term("", Append(Place2(x, m), Peek(m, 1, x.t))))
    [] i.do = "cmp"   -> LET a == Ask(Drop(m, i.pops), "cmp", x.t,
                                      Term("", <<Peek(m, 1 + Slots(x.t), x.t), Peek(m, 1, x.t)>>))
                         IN  IF Going(a) THEN PushV(a, Leaf(OrderTerm(LastOf(a), x.nan)), "int") ELSE a
    [] i.do = "dup"     -> DupUnder(m, 1, 0)
    [] i.do = "dup_x1"  -> DupUnder(m, 1, 1)
    [] i.do = "dup_x2"  -> DupUnder(m, 1, 2)
    [] i.do = "dup2"    -> DupUnder(m, 2, 0)
    [] i.do = "dup2_x1" -> DupUnder(m, 2, 1)
    [] i.do = "dup2_x2" -> DupUnder(m, 2, 2)
    [] i.do = "pop"     -> Drop(m, 1)
    [] i.do = "pop2"    -> Drop(m, 2)
    [] i.do = "swap"    -> LET n == Len(m.st) IN
                           [m EXCEPT !.st = SubSeq(@, 1, n - 2) \o <<m.st[n], m.st[n - 1]>>]
    [] i.do = "throw"   -> [Drop(m, 1) EXCEPT !.out = Exit("throw", Peek(m, 1, "int").f)]
    [] i.do = "return"  -> [m EXCEPT !.out = Exit("return", ""),
                                     !.val = IF x = "void" THEN Unit ELSE Peek(m, 1, x)]
    [] i.do = "mark"    -> m

(* A test of the stack: whether it jumps.  Zero compares what a cmp or a    *)
(* boolean left with zero.                                                  *)
Taken(m, i) ==
  LET v == m.st[Len(m.st)] IN
  CASE i.do = "goto" -> TRUE
    [] i.do = "null" -> v = Leaf("null")
    [] i.do = "icmp" -> Holds(i.x, LastOf(m))
    [] i.do = "zero" -> IF v.f \in {"lt", "eq", "gt"} THEN Holds(i.x, v.f)
                        ELSE (i.x = "!=") = IsTrue(v)

PlaceIn(code, l) == CHOOSE p \in DOMAIN code : code[p].call = "Mark" /\ code[p].l = l
Covers(code, h, pc) == PlaceIn(code, h.start) <= pc /\ pc < PlaceIn(code, h.end)

(* The first row of the exception table that covers pc and the exception. *)
Thrown(code, m) ==
  LET rows == {p \in DOMAIN code : /\ code[p].call = "TryCatch" /\ Covers(code, code[p], m.pc)
                                   /\ Covered(m.out.l, code[p].types)}
      row  == code[CHOOSE p \in rows : \A q \in rows : p <= q]
  IN  IF rows = {} THEN m
      ELSE [m EXCEPT !.st = <<Leaf(m.out.l)>>, !.out = Normal, !.pc = PlaceIn(code, row.handler)]

Branch(code, m, i) ==
  LET asked == IF i.do # "icmp" THEN m
               ELSE Ask(m, "cmp", "int", Term("", <<Peek(m, 2, "int"), Peek(m, 1, "int")>>))
  IN  IF ~Going(asked) THEN asked
      ELSE [Drop(asked, i.pops) EXCEPT !.pc = IF Taken(asked, i) THEN PlaceIn(code, i.l) ELSE @ + 1]

Advance(m) == IF Going(m) THEN [m EXCEPT !.pc = @ + 1] ELSE m
Settle(code, m) == IF m.out.k = "throw" THEN Thrown(code, m) ELSE m
One(code, m) ==
  LET i == code[m.pc] IN
  Settle(code, IF i.call = "branch" THEN Branch(code, m, i) ELSE Advance(Simple(m, i)))

(* 2^n instructions, or those until the method is left. *)
RECURSIVE Exec(_, _, _)
Exec(code, m, n) ==
  IF n = 0 THEN One(code, m)
  ELSE LET half == Exec(code, m, n - 1) IN IF Going(half) THEN Exec(code, half, n - 1) ELSE half

Bounded(m) == IF Going(m) THEN [m EXCEPT !.out = Exit("diverges", "")] ELSE m
Execute(code, mem, tape) == Bounded(Exec(code, Boot(mem, tape), MaxSteps))
=============================================================================
