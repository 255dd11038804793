--------------------------------- MODULE Source ---------------------------------
(***************************************************************************)
(* What a caller of a method is promised: the effects, the end and the      *)
(* result that the Java language gives its body, whatever the calls, tests  *)
(* and comparisons in it answer.  No analysis, no code, no slots.           *)
(***************************************************************************)
EXTENDS JavaTree

VARIABLES
  body,   \* the body as written
  seen    \* what one execution has shown so far

Answers == {"ok", "T", "F", "lt", "eq", "gt", "nan", "1", "2", "none"} \cup Throwables

Init == seen = Nothing
Begin == /\ seen = Nothing
         /\ seen' = Observed(Run(body, Start(<<>>)))
Answer == /\ seen.ended.k = "stop"
          /\ \E a \in Answers : seen' = Observed(Run(body, Start(Append(seen.tape, a))))
Next == (Begin \/ Answer) /\ UNCHANGED body
Spec == Init /\ [][Next]_<<body, seen>>
=============================================================================
