------------------------------ MODULE MCSdkCache ------------------------------
(* Instances of SdkCache for TLC.                                           *)
EXTENDS SdkCache, TLC

CONSTANT P1

OneProc == {P1}
Inodes  == 1..3
=============================================================================
