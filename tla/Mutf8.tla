-------------------------------- MODULE Mutf8 --------------------------------
(***************************************************************************)
(* The modified UTF-8 encoding (src/jvm/mutf8).                             *)
(*                                                                         *)
(* A Go string is the sequence of its code points, none of them a surrogate *)
(* half.  Operators that can fail return Ok of a value, or No.              *)
(***************************************************************************)
EXTENDS Integers, Sequences, SequencesExt

Ok(v) == [ok |-> TRUE, v |-> v]
No    == [ok |-> FALSE, v |-> <<>>]
Then(x, F(_)) == IF x.ok THEN F(x.v) ELSE No

(* F of x, computed once. *)
With(x, F(_)) == F(x)

RuneError     == 65533
IsHigh(r)     == r \in 55296..56319
IsLow(r)      == r \in 56320..57343

triple(r) == <<224 + r \div 4096, 128 + ((r \div 64) % 64), 128 + (r % 64)>>

(* Mutant of encoded: NUL is the byte zero. *)
encodedPlainNul(r) ==
  CASE r <= 127             -> <<r>>
    [] r <= 2047            -> <<192 + r \div 64, 128 + (r % 64)>>
    [] r <= 65535           -> triple(r)
    [] OTHER                -> triple(55296 + (r - 65536) \div 1024)
                               \o triple(56320 + ((r - 65536) % 1024))
encoded(r) ==
  CASE r \in 1..127         -> <<r>>
    [] r = 0 \/ r <= 2047   -> <<192 + r \div 64, 128 + (r % 64)>>
    [] r <= 65535           -> triple(r)
    [] OTHER                -> triple(55296 + (r - 65536) \div 1024)
                               \o triple(56320 + ((r - 65536) % 1024))

Encode(s)     == FlattenSeq([i \in DOMAIN s |-> encoded(s[i])])

EncodedLen(s) ==
  FoldLeft(LAMBDA n, r : n + (CASE r \in 1..127 -> 1 [] r <= 2047 -> 2 [] r <= 65535 -> 3 [] OTHER -> 6),
           0, s)

(* The code point at position i of b and the bytes it takes: none when they *)
(* are not an encoding.  A lone surrogate half reads as RuneError.          *)
decoded(b, i) ==
  LET left     == Len(b) - i + 1
      cont(j)  == b[j] \div 64 = 2
      lead3(j) == b[j] \div 16 = 14
      two      == (b[i] % 32) * 64 + (b[i + 1] % 64)
      three(j) == (b[j] % 16) * 4096 + (b[j + 1] % 64) * 64 + (b[j + 2] % 64)
      paired   == /\ IsHigh(three(i))
                  /\ left >= 6
                  /\ lead3(i + 3) /\ cont(i + 4) /\ cont(i + 5)
                  /\ IsLow(three(i + 3))
  IN CASE b[i] \in 1..127 -> [r |-> b[i], n |-> 1]
       [] b[i] \div 32 = 6 /\ left >= 2 ->
            IF cont(i + 1) /\ (two = 0 \/ two >= 128) THEN [r |-> two, n |-> 2] ELSE [r |-> 0, n |-> 0]
       [] lead3(i) /\ left >= 3 ->
            IF ~cont(i + 1) \/ ~cont(i + 2) \/ three(i) < 2048 THEN [r |-> 0, n |-> 0]
            ELSE IF paired
            THEN [r |-> 65536 + (three(i) - 55296) * 1024 + three(i + 3) - 56320, n |-> 6]
            ELSE [r |-> IF IsHigh(three(i)) \/ IsLow(three(i)) THEN RuneError ELSE three(i), n |-> 3]
       [] OTHER -> [r |-> 0, n |-> 0]

Decode(b) ==
  LET from[i \in 1 .. Len(b) + 1] ==
        IF i > Len(b) THEN Ok(<<>>)
        ELSE LET c == decoded(b, i)
             IN IF c.n = 0 THEN No ELSE Then(from[i + c.n], LAMBDA s : Ok(<<c.r>> \o s))
  IN from[1]
=============================================================================
