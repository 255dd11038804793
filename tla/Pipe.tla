---------------------------------- MODULE Pipe ----------------------------------
(***************************************************************************)
(* What a user of the ADB transport is promised of each stream in the       *)
(* direction from the device: a pipe.  What the peer wrote is read in       *)
(* order, nothing twice and nothing that was not written; nothing is        *)
(* skipped and an end of file means everything, until the user hangs up.    *)
(* A pipe may break at any time, and then says so.                          *)
(***************************************************************************)
EXTENDS Integers, Sequences

CONSTANTS Pipes,
          Breaks   \* the ways to end other than "EOF"

VARIABLES
  sent,  \* how many pieces the peer has written into each pipe, numbered from 1
  fin,   \* the peer has closed it
  got,   \* the pieces the user has read
  end,   \* how the reading ended, "no" as long as it has not
  hung   \* the user has hung up

vars == <<sent, fin, got, end, hung>>

Init ==
  /\ sent = [p \in Pipes |-> 0] /\ got = [p \in Pipes |-> <<>>] /\ end = [p \in Pipes |-> "no"]
  /\ fin = [p \in Pipes |-> FALSE] /\ hung = [p \in Pipes |-> FALSE]

Send(p) ==
  /\ ~fin[p] /\ sent' = [sent EXCEPT ![p] = @ + 1]
  /\ UNCHANGED <<fin, got, end, hung>>

Finish(p) ==
  /\ ~fin[p] /\ fin' = [fin EXCEPT ![p] = TRUE]
  /\ UNCHANGED <<sent, got, end, hung>>

Receive(p) ==
  /\ end[p] = "no"
  /\ \E n \in 1..sent[p] :
       /\ \A i \in 1..Len(got[p]) : got[p][i] < n
       /\ hung[p] \/ n = Len(got[p]) + 1
       /\ got' = [got EXCEPT ![p] = Append(@, n)]
  /\ UNCHANGED <<sent, fin, end, hung>>

End(p) ==
  /\ end[p] = "no"
  /\ \/ /\ hung[p] \/ (fin[p] /\ Len(got[p]) = sent[p])
        /\ end' = [end EXCEPT ![p] = "EOF"]
     \/ \E e \in Breaks : end' = [end EXCEPT ![p] = e]
  /\ UNCHANGED <<sent, fin, got, hung>>

Hang(p) ==
  /\ ~hung[p] /\ hung' = [hung EXCEPT ![p] = TRUE]
  /\ UNCHANGED <<sent, fin, got, end>>

Next == \E p \in Pipes : Send(p) \/ Finish(p) \/ Receive(p) \/ End(p) \/ Hang(p)
Spec == Init /\ [][Next]_vars
=============================================================================
