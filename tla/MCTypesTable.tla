----------------------------- MODULE MCTypesTable -----------------------------
(* An instance of TypesTable for TLC: a small program.                      *)
EXTENDS TypesTable, TLC

CONSTANTS G1, G2, A, B, C, D, E

Two == {G1, G2}
Classes == {A, B, C, D, E}

(* class A<T extends A<T>>;                                                 *)
(* class B<T extends C<T>> implements C<T> with m(C<T>);                    *)
(* interface C<T> with m(D<T>);                                             *)
(* class D<T> implements C<E<T>>;  class E<T> implements C<D<T>>            *)
ProgramBounds    == (A :> <<A>>) @@ (B :> <<C>>) @@ [x \in {C, D, E} |-> <<>>]
ProgramSupers    == (D :> <<E, C>>) @@ (E :> <<D, C>>) @@ (B :> <<C>>) @@ [x \in {A, C} |-> <<>>]
ProgramSignature == (B :> <<C>>) @@ (C :> <<D>>) @@ [x \in {A, D, E} |-> <<>>]
=============================================================================
