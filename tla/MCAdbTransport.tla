---------------------------- MODULE MCAdbTransport ----------------------------
(* Instances of AdbTransport for TLC.                                       *)
EXTENDS AdbTransport, TLC

CONSTANTS S1, S2

TwoStreams == {S1, S2}
OneStream  == {S1}

(* MaxSent: two WRTEs fill a buffer of one and hold the pump.               *)
OneEach   == [s \in Stream |-> 1]
FourEach  == [s \in Stream |-> 4]
TwoAndNone == [s \in Stream |-> IF s = S1 THEN 2 ELSE 0]
=============================================================================
