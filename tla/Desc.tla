--------------------------------- MODULE Desc ---------------------------------
(***************************************************************************)
(* Field and method descriptors (src/jvm/desc).  A descriptor is a string,  *)
(* the sequence of its characters.                                          *)
(***************************************************************************)
EXTENDS Mutf8

CONSTANTS MaxDims,       \* 255 in the code: dimensions of an array
          MaxArgSlots    \* 255 in the code: slots of the arguments, the receiver's too

ASSUME DescLimits == MaxDims \in 1..255 /\ MaxArgSlots \in 1..255

Bases == {90, 66, 67, 83, 73, 74, 70, 68}   \* Z B C S I J F D
TwoSlots == {74, 68}                        \* J D
Void  == 86
Obj   == 76
Semi  == 59
Dim   == 91
Open  == 40
Close == 41

Type(kind, dims, name) == [kind |-> kind, dims |-> dims, name |-> name]

(* A type at the front of s and the characters it takes.                    *)
parseType(s, allowVoid) ==
  LET i    == Min({k \in 1 .. Len(s) + 1 : k > Len(s) \/ s[k] # Dim})
      dims == i - 1
      ends == {k \in i .. Len(s) : s[k] = Semi}
  IN IF dims > MaxDims \/ i > Len(s) THEN No
     ELSE IF s[i] = Void THEN IF allowVoid /\ dims = 0 THEN Ok(<<Type(Void, 0, <<>>), 1>>) ELSE No
     ELSE IF s[i] \in Bases THEN Ok(<<Type(s[i], dims, <<>>), i>>)
     ELSE IF s[i] # Obj \/ ends = {} THEN No
     ELSE IF Min(ends) = i + 1 THEN No
     ELSE Ok(<<Type(Obj, dims, SubSeq(s, i + 1, Min(ends) - 1)), Min(ends)>>)

whole(s, allowVoid) ==
  Then(parseType(s, allowVoid), LAMBDA x : IF x[2] = Len(s) THEN Ok(x[1]) ELSE No)
ParseField(s)  == whole(s, FALSE)
ParseReturn(s) == whole(s, TRUE)

rest(s, n) == SubSeq(s, n + 1, Len(s))

RECURSIVE params(_, _)
params(s, ts) ==
  IF s = <<>> THEN No
  ELSE IF Head(s) = Close THEN Then(ParseReturn(Tail(s)), LAMBDA r : Ok([params |-> ts, ret |-> r]))
  ELSE Then(parseType(s, FALSE), LAMBDA x : params(rest(s, x[2]), Append(ts, x[1])))

(* Mutant of ParseMethod: the parameters end at the first right parenthesis, *)
(* be it of a class name.                                                    *)
ParseMethodScan(s) ==
  LET ends == {k \in DOMAIN s : s[k] = Close}
  IN IF Len(s) < 3 \/ Head(s) # Open \/ ends = {} THEN No
     ELSE Then(ParseReturn(rest(s, Min(ends))), LAMBDA r : params(SubSeq(s, 2, Min(ends)) \o <<Void>>, <<>>))

ParseMethod(s) == IF Len(s) < 3 \/ Head(s) # Open THEN No ELSE params(Tail(s), <<>>)

SlotsOf(t) == IF t.dims > 0 THEN 1 ELSE IF t.kind = Void THEN 0 ELSE IF t.kind \in TwoSlots THEN 2 ELSE 1
ArgSlots(m, receiver) ==
  FoldLeft(LAMBDA n, t : n + SlotsOf(t), IF receiver THEN 1 ELSE 0, m.params)
CheckArgSlots(m, receiver) == ArgSlots(m, receiver) <= MaxArgSlots

typeString(t) == [i \in 1 .. t.dims |-> Dim] \o
                 (IF t.kind = Obj THEN <<Obj>> \o t.name \o <<Semi>> ELSE <<t.kind>>)
methodString(m) == <<Open>> \o FlattenSeq([i \in DOMAIN m.params |-> typeString(m.params[i])])
                   \o <<Close>> \o typeString(m.ret)
=============================================================================
