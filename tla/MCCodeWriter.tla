----------------------------- MODULE MCCodeWriter -----------------------------
(* Instances of CodeWriter for TLC: families of bodies, each made of its    *)
(* own calls up to its own length.                                          *)
EXTENDS CodeWriter

Labels == 1..10

Run(n) == Op(n, 0, 0, 0, FALSE)    \* n bytes of straight-line code
Load   == Op(1, 0, 1, 1, FALSE)    \* iload_0
Throw  == Op(1, 1, 0, 0, TRUE)     \* athrow
Return == Op(1, 0, 0, 0, TRUE)     \* return

(* Bodies whose branches straddle the 16-bit limit.  With runs of 32761 and *)
(* 4 bytes an offset can be 32767, 32768 or fit until an inner branch       *)
(* widens; a backward one can be -32768 or -32769.                          *)
WideningFragments ==
  { <<Load, If(l, 1)>> : l \in 1..2 } \cup { <<Goto(l)>> : l \in 1..2 }
  \cup { <<Mark(l)>> : l \in 1..2 }
  \cup { <<Run(32761)>>, <<Run(4)>>, <<Return>> }

(* Switches and debug tables behind a branch that may have to widen.        *)
SwitchFragments ==
  { <<Load, If(1, 1)>>, <<Load, Switch("table", 2, <<1, 2>>)>>,
    <<Load, Switch("lookup", 2, <<1>>)>>,
    <<Mark(1)>>, <<Mark(2)>>, <<Run(32765)>>, <<Run(2)>>, <<Return>>,
    <<Line, TryCatch(1, 2, 2)>>, <<Local(1, 2)>> }

(* Short bodies with every kind of control transfer and every refusal.      *)
FlowFragments ==
  { <<Load>>, <<Throw>>, <<Return>>, <<If(1, 1)>>, <<Goto(2)>>,
    <<Switch("table", 1, <<3>>)>>, <<TryCatch(1, 2, 3)>>, <<Local(1, 2)>>,
    <<Mark(1)>>, <<Mark(2)>>, <<Mark(3)>>, <<Bad>>,
    <<Op(2, 0, 0, MaxLocals + 1, FALSE)>>, <<Op(2, 0, MaxStack + 1, 0, FALSE)>>,
    <<Run(MaxCodeLength)>> }

(* n forward branches, each within the limit until all the branches inside  *)
(* it are wide, so that a pass widens one of them: the innermost is one     *)
(* byte or more too far from the start, each wide branch adds five bytes.   *)
Cascade(n) ==
  LET tests == [i \in 1..2*n |-> IF i % 2 = 1 THEN Load ELSE If(i \div 2, 1)]
      marks == [i \in 1..2*n - 1 |-> IF i % 2 = 1 THEN Mark((i + 1) \div 2) ELSE Run(9)]
  IN  tests \o <<Run(32778 - 9 * n)>> \o marks \o <<Return>>
CascadeFragments == {Cascade(9), Cascade(10)}

AllFragments == WideningFragments \cup SwitchFragments \cup FlowFragments \cup CascadeFragments

(* bounds: calls in a body of each family *)
WideningBound == 8
SwitchBound   == 7
FlowBound     == 6

CallsOf(fragments) == UNION {{f[i] : i \in DOMAIN f} : f \in fragments}
WideningCalls == CallsOf(WideningFragments)
SwitchCalls   == CallsOf(SwitchFragments)
FlowCalls     == CallsOf(FlowFragments)
MadeOf(b, calls) == \A i \in DOMAIN b : b[i] \in calls
Mentions(b, l) == \E i \in DOMAIN b : b[i].call \in {"branch", "Mark"} /\ b[i].l = l

(* A body stays within one family.  The labels of the widening bodies are   *)
(* alike, so label 1 is mentioned first.                                    *)
SameFamily(b, f) ==
  \/ /\ f \in WideningFragments /\ MadeOf(b, WideningCalls) /\ Len(b) + Len(f) <= WideningBound
     /\ Mentions(f, 2) => Mentions(b, 1)
  \/ f \in SwitchFragments /\ MadeOf(b, SwitchCalls) /\ Len(b) + Len(f) <= SwitchBound
  \/ f \in FlowFragments /\ MadeOf(b, FlowCalls) /\ Len(b) + Len(f) <= FlowBound
  \/ f \in CascadeFragments /\ b = <<>>
=============================================================================
