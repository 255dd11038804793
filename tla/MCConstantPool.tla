---------------------------- MODULE MCConstantPool ----------------------------
(* A few constants of each kind that share strings, and a pool they overfill. *)
EXTENDS ConstantPool

Plain       == <<97>>
Wide_       == <<8364>>
TooLongText == <<8364, 98>>
Texts       == {Plain, Wide_, TooLongText}
Pairs       == {<<Plain, Wide_>>, <<Wide_, Plain>>, <<Plain, TooLongText>>}
Members     == {<<9, Plain, Plain, Wide_>>, <<10, Plain, Plain, Wide_>>, <<11, TooLongText, Plain, Plain>>}
Zero        == <<0, 0>>
Halves      == {Zero}
Fulls       == {<<Zero, Zero>>}
=============================================================================
