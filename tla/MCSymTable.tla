------------------------------ MODULE MCSymTable ------------------------------
(* Instances of SymTable for TLC.                                           *)
EXTENDS SymTable, TLC

CONSTANTS G1, G2, A, AB, C, D

Two == {G1, G2}
Names == {A, AB, C, D}
Files == {A, AB, C}

(* A$B is a member of A and its class file names A too; the file of A$D is  *)
(* missing, that of C is damaged.                                           *)
Nesting ==
  (A :> <<[n |-> AB, own |-> FALSE], [n |-> D, own |-> FALSE]>>)
  @@ (AB :> <<[n |-> A, own |-> TRUE]>>) @@ (C :> <<>>) @@ (D :> <<>>)
=============================================================================
