-------------------------- MODULE ConstantPoolProofs --------------------------
(***************************************************************************)
(* The constant pool builder's promises, for every set of strings, numbers  *)
(* and members and for every limit: IndexesStand, OneEach, NoWaste and      *)
(* RefusedWithReason of ConstantPool.                                       *)
(***************************************************************************)
EXTENDS ConstantPool, TLAPS

(* What entering x.i under key makes of x: the end of every interning call. *)
entered(x, key) == [x EXCEPT !.p.ids = remember(@, key, x.i)]

Missed(p) == [p |-> fail(p), i |-> 0]
Found(p, k)  == [p |-> p, i |-> p.ids[k]]

(* The calls with their second-order arguments carried out.                 *)
LEMMA UTF8Is ==
  ASSUME NEW p, NEW s
  PROVE  LET k == <<"utf8", s>> IN
         UTF8(p, s) = IF k \notin DOMAIN p.ids /\ EncodedLen(s) > MaxUtf8 THEN Missed(p)
                      ELSE IF k \in DOMAIN p.ids THEN Found(p, k)
                      ELSE entered(add(p, utf8Entry(s), FALSE), k)
  BY DEF UTF8, intern, Missed, Found, entered

LEMMA ClassIs ==
  ASSUME NEW p, NEW s
  PROVE  LET k == <<"class", s>> IN
         Class(p, s) = IF k \in DOMAIN p.ids THEN Found(p, k)
                       ELSE entered(addRef1(Tag.Class, UTF8(p, s)), k)
  BY DEF Class, intern, Found, entered

LEMMA StringIs ==
  ASSUME NEW p, NEW s
  PROVE  LET k == <<"string", s>> IN
         String(p, s) = IF k \in DOMAIN p.ids THEN Found(p, k)
                        ELSE entered(addRef1(Tag.String, UTF8(p, s)), k)
  BY DEF String, intern, Found, entered

LEMMA MethodTypeIs ==
  ASSUME NEW p, NEW s
  PROVE  LET k == <<"methodType", s>> IN
         MethodType(p, s) = IF k \in DOMAIN p.ids THEN Found(p, k)
                            ELSE entered(addRef1(Tag.MethodType, UTF8(p, s)), k)
  BY DEF MethodType, intern, Found, entered

LEMMA NameAndTypeIs ==
  ASSUME NEW p, NEW n, NEW d
  PROVE  LET k == <<"nat", n, d>> IN
         NameAndType(p, n, d) = IF k \in DOMAIN p.ids THEN Found(p, k)
                       ELSE entered(addRef2(Tag.NameAndType, UTF8(p, n), UTF8(UTF8(p, n).p, d)), k)
  BY DEF NameAndType, intern, Found, entered, With

LEMMA memberRefIs ==
  ASSUME NEW p, NEW t, NEW o, NEW n, NEW d
  PROVE  LET k == <<"ref", t, o, n, d>> IN
         memberRef(p, t, o, n, d) = IF k \in DOMAIN p.ids THEN Found(p, k)
                       ELSE entered(addRef2(t, Class(p, o), NameAndType(Class(p, o).p, n, d)), k)
  BY DEF memberRef, intern, Found, entered, With

-----------------------------------------------------------------------------
Kinds == {"utf8", "class", "string", "methodType", "nat", "ref", "int", "float", "long", "double"}
Need(k) == IF IsWide(k) THEN 2 ELSE 1

(* The entry of constant k, given where the constants it names are.         *)
EntryOf(ids, k) ==
  CASE k[1] = "utf8"       -> utf8Entry(k[2])
    [] k[1] = "class"      -> ref1(Tag.Class, ids[<<"utf8", k[2]>>])
    [] k[1] = "string"     -> ref1(Tag.String, ids[<<"utf8", k[2]>>])
    [] k[1] = "methodType" -> ref1(Tag.MethodType, ids[<<"utf8", k[2]>>])
    [] k[1] = "nat"        -> ref2(Tag.NameAndType, ids[<<"utf8", k[2]>>], ids[<<"utf8", k[3]>>])
    [] k[1] = "ref"        -> ref2(k[2], ids[<<"class", k[3]>>], ids[<<"nat", k[4], k[5]>>])
    [] k[1] = "int"        -> u1(Tag.Integer) \o u4(k[2])
    [] k[1] = "float"      -> u1(Tag.Float) \o u4(k[2])
    [] k[1] = "long"       -> u1(Tag.Long) \o u4(k[2][1]) \o u4(k[2][2])
    [] k[1] = "double"     -> u1(Tag.Double) \o u4(k[2][1]) \o u4(k[2][2])

(* The inductive invariant of the builder, in parts.                        *)
IsPool(p) == p = [slots |-> p.slots, err |-> p.err, ids |-> p.ids] /\ p.err \in BOOLEAN

LEMMA LimitIsInt == MaxPoolIndex \in Int /\ 1 \in 1..(MaxPoolIndex + 1)
  BY PoolLimits

(* The slots are within the limit, the first being the hole.                *)
IsSeq(t)    == \E S : t \in Seq(S)
SlotsFit(p) == IsSeq(p.slots) /\ Len(p.slots) \in 1..(MaxPoolIndex + 1)

LEMMA SlotsCount ==
  ASSUME NEW p, SlotsFit(p)
  PROVE  Len(p.slots) \in Int
  <1>1. Len(p.slots) \in 1..(MaxPoolIndex + 1)
    BY Zenon DEF SlotsFit
  <1> QED BY <1>1

(* Constant k has its parts in the pool, and its entry at its index.        *)
Stored(p, k) ==
  /\ k[1] \in Kinds /\ Parts(k) \subseteq DOMAIN p.ids
  /\ p.ids[k] \in 1..(Len(p.slots) - 1)
  /\ p.slots[p.ids[k] + 1] = EntryOf(p.ids, k)
  /\ IsWide(k) => p.ids[k] + 1 \in 1..(Len(p.slots) - 1) /\ p.slots[p.ids[k] + 2] = <<>>
Apart(p, k, l) == k # l => p.ids[k] # p.ids[l] /\ (IsWide(k) => p.ids[k] + 1 # p.ids[l])
Owned(p, i)    == \E k \in DOMAIN p.ids : i = p.ids[k] \/ (IsWide(k) /\ i = p.ids[k] + 1)

Filled(p) ==
  /\ SlotsFit(p)
  /\ \A k \in DOMAIN p.ids : Stored(p, k)
  /\ \A k, l \in DOMAIN p.ids : Apart(p, k, l)
  /\ \A i \in 1..(Len(p.slots) - 1) : Owned(p, i)
Good(p) == IsPool(p) /\ (~p.err => Filled(p))

(* The pool q holds constants ks besides those of p, which it keeps.        *)
Grew(p, q, ks) ==
  /\ ~p.err
  /\ DOMAIN q.ids = DOMAIN p.ids \cup ks
  /\ \A l \in DOMAIN p.ids : q.ids[l] = p.ids[l]

(* What a call for constant k made in pool p may return.                    *)
Reason(p, k) == TooLong(k) \/ Len(p.slots) + Need(k) - 1 > MaxPoolIndex
Did(p, k, x) ==
  /\ x = [p |-> x.p, i |-> x.i]
  /\ Good(x.p)
  /\ ~x.p.err => Grew(p, x.p, Parts(k)) /\ x.i = x.p.ids[k]
  /\ p.err => x.p.err /\ x.p.slots = p.slots
  /\ ~p.err /\ x.p.err => x.i = 0 /\ Reason(x.p, k)

LEMMA EnteredIs ==
  ASSUME NEW q, IsPool(q), NEW i, NEW k
  PROVE  entered([p |-> q, i |-> i], k) =
           [p |-> [slots |-> q.slots, err |-> q.err, ids |-> remember(q.ids, k, i)], i |-> i]
  <1>1. ASSUME NEW a, NEW e, NEW f
        PROVE  entered([p |-> [slots |-> a, err |-> e, ids |-> f], i |-> i], k) =
                 [p |-> [slots |-> a, err |-> e, ids |-> remember(f, k, i)], i |-> i]
    BY DEF entered
  <1>2. q = [slots |-> q.slots, err |-> q.err, ids |-> q.ids]
    BY DEF IsPool
  <1> QED BY <1>1, <1>2

Pools(A, V, F) == [slots : A, err : V, ids : F]
setErr(r, v)   == [r EXCEPT !.err = v]
setSlots(r, v) == [r EXCEPT !.slots = v]

LEMMA SetErr ==
  ASSUME NEW A, NEW V, NEW F, NEW v \in V, NEW r \in Pools(A, V, F)
  PROVE  setErr(r, v) = [slots |-> r.slots, err |-> v, ids |-> r.ids]
  BY DEF setErr, Pools

LEMMA SetSlots ==
  ASSUME NEW A, NEW V, NEW F, NEW v \in A, NEW r \in Pools(A, V, F)
  PROVE  setSlots(r, v) = [slots |-> v, err |-> r.err, ids |-> r.ids]
  BY DEF setSlots, Pools

LEMMA FailIs ==
  ASSUME NEW p, IsPool(p)
  PROVE  fail(p) = [slots |-> p.slots, err |-> TRUE, ids |-> p.ids]
  <1>1. p \in Pools({p.slots}, BOOLEAN, {p.ids})
    BY DEF IsPool, Pools
  <1>2. \A v \in BOOLEAN : setErr(p, v) = [slots |-> p.slots, err |-> v, ids |-> p.ids]
    BY <1>1, SetErr
  <1> QED BY <1>2 DEF fail, setErr

LEMMA GrownIs ==
  ASSUME NEW p, IsPool(p), NEW b, NEW wide
  PROVE  grown(p, b, wide) = [slots |-> p.slots \o cells(b, wide),
                              err |-> p.err, ids |-> p.ids]
  <1> DEFINE v == p.slots \o cells(b, wide)
  <1>1. p \in Pools({p.slots, v}, BOOLEAN, {p.ids}) /\ v \in {p.slots, v}
    BY DEF IsPool, Pools
  <1>2. grown(p, b, wide) = setSlots(p, v)
    BY DEF grown, setSlots
  <1> HIDE DEF v
  <1>3. setSlots(p, v) = [slots |-> v, err |-> p.err, ids |-> p.ids]
    BY <1>1, SetSlots
  <1> QED BY <1>2, <1>3 DEF v

LEMMA AddIs ==
  ASSUME NEW p, IsPool(p), NEW b, NEW wide \in BOOLEAN
  PROVE  LET x    == add(p, b, wide)
             need == IF wide THEN 2 ELSE 1 IN
         /\ p.err => x = [p |-> p, i |-> 0]
         /\ ~p.err /\ Len(p.slots) + need - 1 > MaxPoolIndex => x = [p |-> fail(p), i |-> 0]
         /\ ~p.err /\ ~(Len(p.slots) + need - 1 > MaxPoolIndex) =>
              x = [p |-> grown(p, b, wide), i |-> Len(p.slots)]
  BY DEF add

OneMore(a, b, t) == t = a \o <<b>>
TwoMore(a, b, t) == t = a \o <<b, <<>> >>

LEMMA OneAdded ==
  ASSUME NEW a, IsSeq(a), NEW b, NEW t, OneMore(a, b, t)
  PROVE  /\ IsSeq(t)
         /\ Len(t) = Len(a) + 1
         /\ \A i \in 1..Len(a) : t[i] = a[i]
         /\ t[Len(a) + 1] = b
  <1>1. PICK S : a \in Seq(S)
    BY DEF IsSeq
  <1>2. a \in Seq(S \cup {b})
    BY <1>1
  <1>3. <<b>> \in Seq(S \cup {b}) /\ Len(<<b>>) = 1
    OBVIOUS
  <1> QED BY <1>2, <1>3 DEF IsSeq, OneMore

LEMMA TwoAdded ==
  ASSUME NEW a, IsSeq(a), NEW b, NEW t, TwoMore(a, b, t)
  PROVE  /\ IsSeq(t)
         /\ Len(t) = Len(a) + 2
         /\ \A i \in 1..Len(a) : t[i] = a[i]
         /\ t[Len(a) + 1] = b
         /\ t[Len(a) + 2] = <<>>
  <1>1. PICK S : a \in Seq(S)
    BY DEF IsSeq
  <1>2. a \in Seq(S \cup {b, <<>>})
    BY <1>1
  <1>3. <<b, <<>> >> \in Seq(S \cup {b, <<>>}) /\ Len(<<b, <<>> >>) = 2
    OBVIOUS
  <1> QED BY <1>2, <1>3 DEF IsSeq, TwoMore

(* The fields of a call's result.                                           *)
LEMMA ResultIs ==
  ASSUME NEW q, NEW n, NEW y, y = [p |-> q, i |-> n]
  PROVE  y.p = q /\ y.i = n /\ y = [p |-> y.p, i |-> y.i]
  OBVIOUS

-----------------------------------------------------------------------------
(* What the constants of each kind are made of.                             *)
LEMMA TextKey ==
  ASSUME NEW s
  PROVE  LET k == <<"utf8", s>> IN
         /\ k[1] = "utf8" /\ k[2] = s /\ k[1] \in Kinds /\ ~IsWide(k)
         /\ Parts(k) = {k}
         /\ \A ids : EntryOf(ids, k) = utf8Entry(s)
  BY DEF Kinds, IsWide, Parts, EntryOf

LEMMA NamedKey ==
  ASSUME NEW s, NEW kind \in {"class", "string", "methodType"}
  PROVE  LET k == <<kind, s>>
             tag == IF kind = "class" THEN Tag.Class ELSE IF kind = "string" THEN Tag.String ELSE Tag.MethodType IN
         /\ k[1] = kind /\ k[1] \in Kinds /\ ~IsWide(k)
         /\ Parts(k) = {k, <<"utf8", s>>}
         /\ k # <<"utf8", s>>
         /\ \A ids : EntryOf(ids, k) = ref1(tag, ids[<<"utf8", s>>])
  BY DEF Kinds, IsWide, Parts, EntryOf, Utf8s

LEMMA NatKey ==
  ASSUME NEW n, NEW d
  PROVE  LET k == <<"nat", n, d>> IN
         /\ k[1] = "nat" /\ k[1] \in Kinds /\ ~IsWide(k)
         /\ Parts(k) = {k, <<"utf8", n>>, <<"utf8", d>>}
         /\ k # <<"utf8", n>> /\ k # <<"utf8", d>>
         /\ \A ids : EntryOf(ids, k) = ref2(Tag.NameAndType, ids[<<"utf8", n>>], ids[<<"utf8", d>>])
  BY DEF Kinds, IsWide, Parts, EntryOf, Utf8s

LEMMA RefKey ==
  ASSUME NEW t, NEW o, NEW n, NEW d
  PROVE  LET k == <<"ref", t, o, n, d>> IN
         /\ k[1] = "ref" /\ k[1] \in Kinds /\ ~IsWide(k)
         /\ Parts(k) = {k} \cup {<<"class", o>>, <<"utf8", o>>} \cup {<<"nat", n, d>>, <<"utf8", n>>, <<"utf8", d>>}
         /\ k \notin {<<"class", o>>, <<"utf8", o>>} \cup {<<"nat", n, d>>, <<"utf8", n>>, <<"utf8", d>>}
         /\ \A ids : EntryOf(ids, k) = ref2(t, ids[<<"class", o>>], ids[<<"nat", n, d>>])
  BY DEF Kinds, IsWide, Parts, EntryOf, Utf8s

(* An entry depends on the indices of the parts only.                       *)
LEMMA EntryKept ==
  ASSUME NEW k, k[1] \in Kinds, NEW f, NEW g, \A l \in Parts(k) \ {k} : f[l] = g[l]
  PROVE  EntryOf(f, k) = EntryOf(g, k)
  <1>1. CASE k[1] \in {"class", "string", "methodType"}
    <2>1. <<"utf8", k[2]>> \in Parts(k) \ {k}
      BY <1>1 DEF Parts, Utf8s
    <2> QED BY <1>1, <2>1 DEF EntryOf
  <1>2. CASE k[1] = "nat"
    <2>1. <<"utf8", k[2]>> \in Parts(k) \ {k} /\ <<"utf8", k[3]>> \in Parts(k) \ {k}
      BY <1>2 DEF Parts, Utf8s
    <2> QED BY <1>2, <2>1 DEF EntryOf
  <1>3. CASE k[1] = "ref"
    <2>1. <<"class", k[3]>> \in Parts(k) \ {k} /\ <<"nat", k[4], k[5]>> \in Parts(k) \ {k}
      BY <1>3 DEF Parts, Utf8s
    <2> QED BY <1>3, <2>1 DEF EntryOf
  <1>4. CASE k[1] \in {"utf8", "int", "float", "long", "double"}
    BY <1>4 DEF EntryOf
  <1> QED BY <1>1, <1>2, <1>3, <1>4 DEF Kinds

LEMMA PartsHasSelf ==
  ASSUME NEW k
  PROVE  k \in Parts(k)
  BY DEF Parts

-----------------------------------------------------------------------------
(* Pool q is p, which has room, with entry e of constant k added.           *)
Adding(p, k, e, wide, q) ==
  /\ Good(p) /\ ~p.err /\ IsPool(q) /\ ~q.err
  /\ k[1] \in Kinds /\ k \notin DOMAIN p.ids /\ Parts(k) \ {k} \subseteq DOMAIN p.ids
  /\ Len(p.slots) + Need(k) - 1 <= MaxPoolIndex
  /\ e = EntryOf(p.ids, k)
  /\ wide \in BOOLEAN /\ (wide <=> IsWide(k))
  /\ q.slots = p.slots \o cells(e, wide)
  /\ q.ids = remember(p.ids, k, Len(p.slots))

LEMMA AddingSlots ==
  ASSUME NEW p, NEW k, NEW e, NEW wide, NEW q, Adding(p, k, e, wide, q)
  PROVE  /\ Len(p.slots) \in 1..(MaxPoolIndex + 1)
         /\ IsSeq(q.slots)
         /\ Len(q.slots) = Len(p.slots) + Need(k)
         /\ Need(k) = (IF IsWide(k) THEN 2 ELSE 1)
         /\ \A i \in 1..Len(p.slots) : q.slots[i] = p.slots[i]
         /\ q.slots[Len(p.slots) + 1] = e
         /\ IsWide(k) => q.slots[Len(p.slots) + 2] = <<>>
  <1>1. SlotsFit(p)
    BY DEF Adding, Good, Filled
  <1>2. wide \in BOOLEAN /\ (wide <=> IsWide(k)) /\ q.slots = p.slots \o cells(e, wide)
    BY DEF Adding
  <1>3. IsSeq(p.slots) /\ Len(p.slots) \in 1..(MaxPoolIndex + 1)
    BY <1>1 DEF SlotsFit
  <1>4. CASE IsWide(k)
    <2>1. TwoMore(p.slots, e, q.slots) /\ Need(k) = 2
      BY <1>2, <1>4 DEF cells, Need, TwoMore
    <2>2. /\ IsSeq(q.slots)
          /\ Len(q.slots) = Len(p.slots) + 2
          /\ \A i \in 1..Len(p.slots) : q.slots[i] = p.slots[i]
          /\ q.slots[Len(p.slots) + 1] = e
          /\ q.slots[Len(p.slots) + 2] = <<>>
      BY <1>3, <2>1, TwoAdded
    <2> QED BY <1>3, <1>4, <2>1, <2>2
  <1>5. CASE ~IsWide(k)
    <2>1. OneMore(p.slots, e, q.slots) /\ Need(k) = 1
      BY <1>2, <1>5 DEF cells, Need, OneMore
    <2>2. /\ IsSeq(q.slots)
          /\ Len(q.slots) = Len(p.slots) + 1
          /\ \A i \in 1..Len(p.slots) : q.slots[i] = p.slots[i]
          /\ q.slots[Len(p.slots) + 1] = e
      BY <1>3, <2>1, OneAdded
    <2> QED BY <1>3, <1>5, <2>1, <2>2
  <1> QED BY <1>4, <1>5

LEMMA AddingIds ==
  ASSUME NEW p, NEW k, NEW e, NEW wide, NEW q, Adding(p, k, e, wide, q)
  PROVE  /\ DOMAIN q.ids = DOMAIN p.ids \cup {k}
         /\ q.ids[k] = Len(p.slots)
         /\ \A l \in DOMAIN p.ids : q.ids[l] = p.ids[l]
         /\ k \notin DOMAIN p.ids
  <1>1. q.ids = remember(p.ids, k, Len(p.slots)) /\ k \notin DOMAIN p.ids
    BY DEF Adding
  <1> QED BY <1>1 DEF remember

(* The new entry in a pool that has room: the four parts of Filled.         *)
LEMMA EnterFits ==
  ASSUME NEW p, NEW k, NEW e, NEW wide, NEW q, Adding(p, k, e, wide, q)
  PROVE  Good(q) /\ Grew(p, q, {k}) /\ q.ids[k] = Len(p.slots)
  <1> DEFINE n == Len(p.slots)
  <1>1. Filled(p)
    BY DEF Adding, Good
  <1>2. n \in 1..(MaxPoolIndex + 1)
    BY AddingSlots
  <1>4. /\ IsSeq(q.slots)
        /\ Len(q.slots) = n + Need(k)
        /\ \A i \in 1..n : q.slots[i] = p.slots[i]
        /\ q.slots[n + 1] = e
        /\ IsWide(k) => q.slots[n + 2] = <<>>
    BY AddingSlots
  <1>5. /\ DOMAIN q.ids = DOMAIN p.ids \cup {k}
        /\ q.ids[k] = n
        /\ \A l \in DOMAIN p.ids : q.ids[l] = p.ids[l]
        /\ k \notin DOMAIN p.ids
    BY AddingIds
  <1>6. /\ Need(k) \in 1..2 /\ (IsWide(k) => Need(k) = 2) /\ (~IsWide(k) => Need(k) = 1)
        /\ n + Need(k) - 1 <= MaxPoolIndex
    <2>1. n + Need(k) - 1 <= MaxPoolIndex
      BY DEF Adding
    <2>2. Need(k) \in 1..2 /\ (IsWide(k) => Need(k) = 2) /\ (~IsWide(k) => Need(k) = 1)
      BY DEF Need
    <2> HIDE DEF n
    <2> QED BY <2>1, <2>2
  <1> HIDE DEF n
  <1>7. SlotsFit(q)
    <2>1. MaxPoolIndex \in Int
      BY LimitIsInt, Zenon
    <2>2. Len(q.slots) \in 1..(MaxPoolIndex + 1)
      BY <1>2, <1>4, <1>6, <2>1
    <2> QED BY <1>4, <2>2 DEF SlotsFit
  <1>8. ASSUME NEW l \in DOMAIN q.ids PROVE Stored(q, l)
    <2>1. CASE l = k
      <3>1. EntryOf(q.ids, k) = e
        <4>1. e = EntryOf(p.ids, k) /\ k[1] \in Kinds /\ Parts(k) \ {k} \subseteq DOMAIN p.ids
          BY DEF Adding
        <4> QED BY <1>5, <4>1, EntryKept
      <3>2. k[1] \in Kinds /\ Parts(k) \subseteq DOMAIN q.ids
        BY <1>5 DEF Adding
      <3>3. q.ids[k] \in 1..(Len(q.slots) - 1) /\ (IsWide(k) => q.ids[k] + 1 \in 1..(Len(q.slots) - 1))
        BY <1>2, <1>4, <1>5, <1>6
      <3>4. q.slots[q.ids[k] + 1] = e /\ (IsWide(k) => q.slots[q.ids[k] + 2] = <<>>)
        BY <1>4, <1>5
      <3> QED BY <2>1, <3>1, <3>2, <3>3, <3>4 DEF Stored
    <2>2. CASE l # k
      <3>1. l \in DOMAIN p.ids
        BY <1>5, <2>2
      <3>2. Stored(p, l)
        BY <1>1, <3>1 DEF Filled
      <3>3. EntryOf(q.ids, l) = EntryOf(p.ids, l)
        BY <1>5, <3>2, EntryKept DEF Stored
      <3>4. q.ids[l] = p.ids[l]
        BY <1>5, <3>1
      <3>5. Parts(l) \subseteq DOMAIN q.ids /\ l[1] \in Kinds
        BY <1>5, <3>2 DEF Stored
      <3>6. /\ p.ids[l] \in 1..(n - 1)
            /\ IsWide(l) => p.ids[l] + 1 \in 1..(n - 1)
            /\ p.slots[p.ids[l] + 1] = EntryOf(p.ids, l)
            /\ IsWide(l) => p.slots[p.ids[l] + 2] = <<>>
        BY <3>2 DEF Stored, n
      <3>7. q.ids[l] \in 1..(Len(q.slots) - 1) /\ (IsWide(l) => q.ids[l] + 1 \in 1..(Len(q.slots) - 1))
        BY <1>2, <1>4, <1>6, <3>4, <3>6
      <3>8. p.ids[l] + 1 \in 1..n /\ (IsWide(l) => p.ids[l] + 2 \in 1..n)
        BY <1>2, <3>6
      <3>9. q.slots[q.ids[l] + 1] = EntryOf(q.ids, l) /\ (IsWide(l) => q.slots[q.ids[l] + 2] = <<>>)
        BY <1>4, <3>3, <3>4, <3>6, <3>8
      <3> QED BY <3>5, <3>7, <3>9 DEF Stored
    <2> QED BY <2>1, <2>2
  <1>9. ASSUME NEW a \in DOMAIN q.ids, NEW b \in DOMAIN q.ids PROVE Apart(q, a, b)
    <2>1. \A l \in DOMAIN p.ids : /\ q.ids[l] = p.ids[l] /\ p.ids[l] \in 1..(n - 1)
                                  /\ IsWide(l) => p.ids[l] + 1 \in 1..(n - 1)
      BY <1>1, <1>5 DEF Filled, Stored, n
    <2>2. CASE a \in DOMAIN p.ids /\ b \in DOMAIN p.ids
      BY <1>1, <2>1, <2>2 DEF Filled, Apart
    <2>3. CASE a = k \/ b = k
      BY <1>2, <1>5, <2>1, <2>3 DEF Apart
    <2> QED BY <1>5, <2>2, <2>3
  <1>10. ASSUME NEW i \in 1..(Len(q.slots) - 1) PROVE Owned(q, i)
    <2>1. CASE i < n
      <3>1. i \in 1..(n - 1)
        BY <1>2, <1>4, <1>6, <2>1
      <3>2. PICK l \in DOMAIN p.ids : i = p.ids[l] \/ (IsWide(l) /\ i = p.ids[l] + 1)
        BY <1>1, <3>1 DEF Filled, Owned, n
      <3> QED BY <1>5, <3>2 DEF Owned
    <2>2. CASE i >= n
      <3>1. i = n \/ (IsWide(k) /\ i = n + 1)
        BY <1>2, <1>4, <1>6, <2>2
      <3> QED BY <1>5, <3>1 DEF Owned
    <2> QED BY <1>2, <1>4, <1>6, <2>1, <2>2
  <1>11. Filled(q)
    BY <1>7, <1>8, <1>9, <1>10 DEF Filled
  <1> QED BY <1>5, <1>11 DEF Good, Grew, Adding, n

Entry(p, k, y) ==
  /\ y = [p |-> y.p, i |-> y.i]
  /\ Good(y.p)
  /\ ~y.p.err => Grew(p, y.p, {k}) /\ y.i = y.p.ids[k]
  /\ p.err => y.p.err
  /\ y.p.err => y.i = 0 /\ y.p.slots = p.slots
  /\ ~p.err /\ y.p.err => Len(y.p.slots) + Need(k) - 1 > MaxPoolIndex

(* The end of a call, when all parts of its constant are in: the entry is   *)
(* added and its index entered under the constant's key.                    *)
LEMMA Enter ==
  ASSUME NEW p, Good(p), NEW k, k[1] \in Kinds,
         ~p.err => k \notin DOMAIN p.ids /\ Parts(k) \ {k} \subseteq DOMAIN p.ids,
         NEW e, ~p.err => e = EntryOf(p.ids, k), NEW wide \in BOOLEAN, wide <=> IsWide(k)
  PROVE  Entry(p, k, entered(add(p, e, wide), k))
  <1> DEFINE x == add(p, e, wide)
             y == entered(x, k)
  <1>1. IsPool(p) /\ wide \in BOOLEAN /\ p.err \in BOOLEAN
    BY DEF Good, IsPool
  <1>2. CASE p.err
    <2> DEFINE q == [slots |-> p.slots, err |-> p.err, ids |-> remember(p.ids, k, 0)]
    <2>1. x = [p |-> p, i |-> 0]
      BY <1>1, <1>2, AddIs
    <2> HIDE DEF x
    <2>2. y = [p |-> q, i |-> 0]
      BY <1>1, <2>1, EnteredIs
    <2>3. IsPool(q) /\ q.slots = p.slots /\ q.err
      BY <1>1, <1>2 DEF IsPool
    <2> HIDE DEF y, q
    <2>4. y.p = q /\ y.i = 0 /\ y = [p |-> y.p, i |-> y.i]
      BY <2>2, ResultIs
    <2>5. Entry(p, k, y)
      BY <1>2, <2>3, <2>4 DEF Good, Entry
    <2> QED BY <2>5 DEF x, y
  <1>3. CASE ~p.err /\ Len(p.slots) + Need(k) - 1 > MaxPoolIndex
    <2> DEFINE q == [slots |-> p.slots, err |-> TRUE, ids |-> remember(p.ids, k, 0)]
    <2>1. x = [p |-> fail(p), i |-> 0]
      BY <1>1, <1>3, AddIs DEF Need
    <2>2. fail(p) = [slots |-> p.slots, err |-> TRUE, ids |-> p.ids]
      BY <1>1, FailIs
    <2>3. IsPool(fail(p)) /\ fail(p).slots = p.slots /\ fail(p).err /\ fail(p).ids = p.ids
      BY <2>2 DEF IsPool
    <2> HIDE DEF x
    <2>4. y = [p |-> [slots |-> fail(p).slots, err |-> fail(p).err, ids |-> remember(fail(p).ids, k, 0)], i |-> 0]
      BY <2>1, <2>3, EnteredIs
    <2>5. fail(p).err = TRUE
      BY <2>2
    <2>6. y = [p |-> q, i |-> 0]
      BY <2>3, <2>4, <2>5
    <2>7. IsPool(q) /\ q.slots = p.slots /\ q.err
      BY DEF IsPool
    <2> HIDE DEF y, q
    <2>8. y.p = q /\ y.i = 0 /\ y = [p |-> y.p, i |-> y.i]
      BY <2>6, ResultIs
    <2>9. Entry(p, k, y)
      BY <1>3, <2>7, <2>8 DEF Good, Entry
    <2> QED BY <2>9 DEF x, y
  <1>4. CASE ~p.err /\ ~(Len(p.slots) + Need(k) - 1 > MaxPoolIndex)
    <2> DEFINE g == grown(p, e, wide)
               q == [slots |-> g.slots, err |-> g.err, ids |-> remember(g.ids, k, Len(p.slots))]
    <2>1. x = [p |-> g, i |-> Len(p.slots)]
      BY <1>1, <1>4, AddIs DEF Need
    <2>2. g = [slots |-> p.slots \o cells(e, wide), err |-> p.err, ids |-> p.ids]
      BY <1>1, GrownIs
    <2> HIDE DEF x, g
    <2>3. IsPool(g) /\ g.slots = p.slots \o cells(e, wide) /\ (g.err <=> p.err) /\ g.ids = p.ids
      BY <1>1, <2>2 DEF IsPool
    <2>4. y = [p |-> q, i |-> Len(p.slots)]
      BY <2>1, <2>3, EnteredIs
    <2>5. g.err \in BOOLEAN
      BY <2>3 DEF IsPool
    <2>6. IsPool(q) /\ q.slots = g.slots /\ (q.err <=> g.err) /\ q.ids = remember(g.ids, k, Len(p.slots))
      BY <2>5 DEF IsPool
    <2> HIDE DEF y, q
    <2>7. y.p = q /\ y.i = Len(p.slots) /\ y = [p |-> y.p, i |-> y.i]
      BY <2>4, ResultIs
    <2>8. Len(p.slots) + Need(k) - 1 <= MaxPoolIndex
      <3>1. MaxPoolIndex \in Int /\ Need(k) \in Int
        BY LimitIsInt DEF Need
      <3>2. SlotsFit(p)
        BY <1>4 DEF Good, Filled
      <3>3. Len(p.slots) \in Int
        BY <3>2, SlotsCount
      <3> QED BY <1>4, <3>1, <3>3
    <2>9. Adding(p, k, e, wide, q)
      BY <1>1, <1>4, <2>3, <2>6, <2>8 DEF Adding
    <2>10. Good(q) /\ Grew(p, q, {k}) /\ q.ids[k] = Len(p.slots)
      BY <2>9, EnterFits
    <2>11. Entry(p, k, y)
      BY <1>4, <2>3, <2>6, <2>7, <2>10 DEF Entry
    <2> QED BY <2>11 DEF x, y
  <1> QED BY <1>1, <1>2, <1>3, <1>4

-----------------------------------------------------------------------------
(* Pool q after parts ps of constant k are in, on the way from p.           *)
Between(p, q, ps, k) ==
  /\ Good(q)
  /\ ~q.err => Grew(p, q, ps)
  /\ p.err => q.err /\ q.slots = p.slots
  /\ ~p.err /\ q.err => Reason(q, k)

LEMMA BetweenStart ==
  ASSUME NEW p, NEW k, Good(p)
  PROVE  Between(p, p, {}, k)
  <1>1. ~p.err => Grew(p, p, {})
    BY DEF Grew
  <1> QED BY <1>1 DEF Between

LEMMA GrewTwice ==
  ASSUME NEW p, NEW q, NEW r, NEW ps, NEW qs, Grew(p, q, ps), Grew(q, r, qs)
  PROVE  Grew(p, r, ps \cup qs)
  BY DEF Grew

LEMMA ReasonOfPart ==
  ASSUME NEW p, NEW j, NEW k, Parts(j) \subseteq Parts(k), ~IsWide(j), ~IsWide(k), Reason(p, j)
  PROVE  Reason(p, k)
  <1>1. Need(j) = Need(k)
    BY DEF Need
  <1>2. TooLong(j) => TooLong(k)
    BY DEF TooLong
  <1> QED BY <1>1, <1>2 DEF Reason

LEMMA ReasonKept ==
  ASSUME NEW p, NEW q, NEW k, q.slots = p.slots, Reason(p, k)
  PROVE  Reason(q, k)
  BY DEF Reason

LEMMA BetweenMore ==
  ASSUME NEW p, NEW q, NEW ps, NEW j, NEW k, NEW x, Between(p, q, ps, k), Did(q, j, x),
         Parts(j) \subseteq Parts(k), ~IsWide(j), ~IsWide(k)
  PROVE  Between(p, x.p, ps \cup Parts(j), k)
  <1>1. Good(x.p)
    BY DEF Did
  <1>2. ~x.p.err => Grew(q, x.p, Parts(j)) /\ ~q.err
    BY DEF Did, Grew
  <1>3. ~x.p.err => Grew(p, x.p, ps \cup Parts(j))
    BY <1>2, GrewTwice DEF Between
  <1>4. p.err => x.p.err /\ x.p.slots = p.slots
    BY DEF Did, Between
  <1>5. ASSUME ~p.err, x.p.err PROVE Reason(x.p, k)
    <2>1. CASE q.err
      <3>1. Reason(q, k) /\ x.p.slots = q.slots
        BY <1>5, <2>1 DEF Between, Did
      <3> QED BY <3>1, ReasonKept
    <2>2. CASE ~q.err
      <3>1. Reason(x.p, j)
        BY <1>5, <2>2 DEF Did
      <3> QED BY <3>1, ReasonOfPart
    <2> QED BY <2>1, <2>2
  <1> QED BY <1>1, <1>3, <1>4, <1>5 DEF Between

LEMMA FoundDid ==
  ASSUME NEW p, Good(p), NEW k \in DOMAIN p.ids
  PROVE  Did(p, k, Found(p, k))
  <1> DEFINE x == Found(p, k)
  <1>1. x.p = p /\ x.i = p.ids[k] /\ x = [p |-> x.p, i |-> x.i]
    BY DEF Found
  <1> HIDE DEF x
  <1>2. ~p.err => Parts(k) \subseteq DOMAIN p.ids
    BY DEF Good, Filled, Stored
  <1>3. ~p.err => Grew(p, p, Parts(k))
    BY <1>2 DEF Grew
  <1>4. Did(p, k, x)
    BY <1>1, <1>3 DEF Did
  <1> QED BY <1>4 DEF x

(* A call whose constant is new: its parts are interned, then it is.        *)
LEMMA EnterDid ==
  ASSUME NEW p, Good(p), NEW k, k[1] \in Kinds, k \notin DOMAIN p.ids,
         NEW q, NEW ps, Parts(k) = {k} \cup ps, k \notin ps, Between(p, q, ps, k),
         NEW e, ~q.err => e = EntryOf(q.ids, k), NEW wide \in BOOLEAN, wide <=> IsWide(k)
  PROVE  Did(p, k, entered(add(q, e, wide), k))
  <1> DEFINE y == entered(add(q, e, wide), k)
  <1>1. Good(q)
    BY DEF Between
  <1>2. ~q.err => Grew(p, q, ps)
    BY DEF Between
  <1>3. ~q.err => k \notin DOMAIN q.ids /\ Parts(k) \ {k} \subseteq DOMAIN q.ids
    BY <1>2 DEF Grew
  <1>40. Entry(q, k, y)
    BY <1>1, <1>3, Enter
  <1> HIDE DEF y
  <1>4. /\ y = [p |-> y.p, i |-> y.i]
        /\ Good(y.p)
        /\ ~y.p.err => Grew(q, y.p, {k}) /\ y.i = y.p.ids[k]
        /\ q.err => y.p.err
        /\ y.p.err => y.i = 0 /\ y.p.slots = q.slots
        /\ ~q.err /\ y.p.err => Len(y.p.slots) + Need(k) - 1 > MaxPoolIndex
    BY <1>40 DEF Entry
  <1>5. ~y.p.err => Grew(p, y.p, Parts(k))
    <2>1. ~y.p.err => ~q.err /\ Grew(p, q, ps) /\ Grew(q, y.p, {k})
      BY <1>2, <1>4
    <2>2. Parts(k) = ps \cup {k}
      OBVIOUS
    <2> QED BY <2>1, <2>2, GrewTwice
  <1>6. p.err => y.p.err /\ y.p.slots = p.slots
    BY <1>4 DEF Between
  <1>7. ASSUME ~p.err, y.p.err PROVE y.i = 0 /\ Reason(y.p, k)
    <2>1. CASE q.err
      <3>1. Reason(q, k) /\ y.p.slots = q.slots
        BY <1>4, <1>7, <2>1 DEF Between
      <3> QED BY <1>4, <1>7, <3>1, ReasonKept
    <2>2. CASE ~q.err
      BY <1>4, <1>7, <2>2 DEF Reason
    <2> QED BY <2>1, <2>2
  <1>8. Did(p, k, y)
    BY <1>4, <1>5, <1>6, <1>7 DEF Did
  <1> QED BY <1>8 DEF y

-----------------------------------------------------------------------------
(* One lemma per call.                                                      *)
LEMMA UTF8Did ==
  ASSUME NEW p, Good(p), NEW s
  PROVE  Did(p, <<"utf8", s>>, UTF8(p, s))
  <1> DEFINE k == <<"utf8", s>>
  <1>1. k[1] = "utf8" /\ k[2] = s /\ k[1] \in Kinds /\ ~IsWide(k) /\ Parts(k) = {k} /\ EntryOf(p.ids, k) = utf8Entry(s)
    BY TextKey
  <1>2. UTF8(p, s) = IF k \notin DOMAIN p.ids /\ EncodedLen(s) > MaxUtf8 THEN Missed(p)
                     ELSE IF k \in DOMAIN p.ids THEN Found(p, k)
                     ELSE entered(add(p, utf8Entry(s), FALSE), k)
    BY UTF8Is
  <1> HIDE DEF k
  <1>3. CASE k \in DOMAIN p.ids
    BY <1>2, <1>3, FoundDid DEF k
  <1>4. CASE k \notin DOMAIN p.ids /\ EncodedLen(s) > MaxUtf8
    <2> DEFINE x == Missed(p)
    <2>1. x.p = fail(p) /\ x.i = 0 /\ x = [p |-> x.p, i |-> x.i]
      BY DEF Missed
    <2>2. fail(p) = [slots |-> p.slots, err |-> TRUE, ids |-> p.ids]
      BY FailIs DEF Good
    <2>3. IsPool(fail(p)) /\ fail(p).err /\ fail(p).slots = p.slots
      BY <2>2 DEF IsPool
    <2> HIDE DEF x
    <2>4. TooLong(k)
      BY <1>1, <1>4 DEF TooLong
    <2>5. Did(p, k, x)
      BY <2>1, <2>3, <2>4 DEF Did, Good, Reason
    <2> QED BY <1>2, <1>4, <2>5 DEF x, k
  <1>5. CASE k \notin DOMAIN p.ids /\ ~(EncodedLen(s) > MaxUtf8)
    <2>1. Between(p, p, {}, k)
      BY BetweenStart
    <2>2. Parts(k) = {k} \cup {}
      BY <1>1
    <2>3. Did(p, k, entered(add(p, utf8Entry(s), FALSE), k))
      BY <1>1, <1>5, <2>1, <2>2, EnterDid
    <2> QED BY <1>2, <1>5, <2>3 DEF k
  <1> QED BY <1>3, <1>4, <1>5

(* Class, String and MethodType: a constant that names one string.          *)
LEMMA NamedDid ==
  ASSUME NEW p, Good(p), NEW s, NEW kind \in {"class", "string", "methodType"}, NEW tag,
         tag = IF kind = "class" THEN Tag.Class ELSE IF kind = "string" THEN Tag.String ELSE Tag.MethodType,
         <<kind, s>> \notin DOMAIN p.ids
  PROVE  Did(p, <<kind, s>>, entered(addRef1(tag, UTF8(p, s)), <<kind, s>>))
  <1> DEFINE k == <<kind, s>>
             u == <<"utf8", s>>
             x == UTF8(p, s)
  <1>1. /\ k[1] \in Kinds /\ ~IsWide(k) /\ Parts(k) = {k} \cup {u} /\ k \notin {u}
        /\ EntryOf(x.p.ids, k) = ref1(tag, x.p.ids[u])
    <2> HIDE DEF x
    <2>1. \A ids : EntryOf(ids, k) = ref1(tag, ids[u])
      BY NamedKey
    <2>2. k[1] \in Kinds /\ ~IsWide(k) /\ Parts(k) = {k, u} /\ k # u
      BY NamedKey
    <2> HIDE DEF k, u
    <2> QED BY <2>1, <2>2
  <1>2. Parts(u) = {u} /\ ~IsWide(u)
    BY TextKey
  <1>3. Did(p, u, x)
    BY UTF8Did
  <1>4. k \notin DOMAIN p.ids
    OBVIOUS
  <1> HIDE DEF k, u, x
  <1>5. Between(p, p, {}, k)
    BY BetweenStart
  <1>6. Between(p, x.p, {} \cup Parts(u), k)
    BY <1>1, <1>2, <1>3, <1>5, BetweenMore
  <1>7. Between(p, x.p, {u}, k)
    BY <1>2, <1>6
  <1>8. ~x.p.err => ref1(tag, x.i) = EntryOf(x.p.ids, k)
    BY <1>1, <1>3 DEF Did
  <1>9. Did(p, k, entered(add(x.p, ref1(tag, x.i), FALSE), k))
    BY <1>1, <1>4, <1>7, <1>8, EnterDid
  <1> QED BY <1>9 DEF k, x, addRef1

LEMMA ClassDid ==
  ASSUME NEW p, Good(p), NEW s
  PROVE  Did(p, <<"class", s>>, Class(p, s))
  BY NamedDid, FoundDid, ClassIs

LEMMA StringDid ==
  ASSUME NEW p, Good(p), NEW s
  PROVE  Did(p, <<"string", s>>, String(p, s))
  BY NamedDid, FoundDid, StringIs

LEMMA MethodTypeDid ==
  ASSUME NEW p, Good(p), NEW s
  PROVE  Did(p, <<"methodType", s>>, MethodType(p, s))
  BY NamedDid, FoundDid, MethodTypeIs

LEMMA NameAndTypeDid ==
  ASSUME NEW p, Good(p), NEW n, NEW d
  PROVE  Did(p, <<"nat", n, d>>, NameAndType(p, n, d))
  <1> DEFINE k == <<"nat", n, d>>
             u == <<"utf8", n>>
             w == <<"utf8", d>>
             x == UTF8(p, n)
             y == UTF8(x.p, d)
  <1>1. NameAndType(p, n, d) = IF k \in DOMAIN p.ids THEN Found(p, k)
                               ELSE entered(addRef2(Tag.NameAndType, x, y), k)
    BY NameAndTypeIs
  <1>2. k[1] \in Kinds /\ ~IsWide(k) /\ Parts(k) = {k, u, w} /\ k # u /\ k # w
    BY NatKey
  <1>3. \A ids : EntryOf(ids, k) = ref2(Tag.NameAndType, ids[u], ids[w])
    BY NatKey
  <1>4. Parts(u) = {u} /\ ~IsWide(u) /\ Parts(w) = {w} /\ ~IsWide(w)
    BY TextKey
  <1>5. Did(p, u, x)
    BY UTF8Did
  <1>6. Did(x.p, w, y)
    BY <1>5, UTF8Did DEF Did
  <1> HIDE DEF k, u, w, x, y
  <1>7. Between(p, p, {}, k)
    BY BetweenStart
  <1>8. Between(p, x.p, {} \cup Parts(u), k)
    BY <1>2, <1>4, <1>5, <1>7, BetweenMore
  <1>9. Between(p, y.p, ({} \cup Parts(u)) \cup Parts(w), k)
    BY <1>2, <1>4, <1>6, <1>8, BetweenMore
  <1>10. Between(p, y.p, {u, w}, k)
    BY <1>4, <1>9
  <1>11. ~y.p.err => ref2(Tag.NameAndType, x.i, y.i) = EntryOf(y.p.ids, k)
    <2>1. ~y.p.err => y.i = y.p.ids[w] /\ Grew(x.p, y.p, Parts(w))
      BY <1>6 DEF Did
    <2>2. ~y.p.err => ~x.p.err /\ x.i = x.p.ids[u] /\ u \in DOMAIN x.p.ids
      BY <1>4, <1>5, <2>1 DEF Did, Grew
    <2>3. ~y.p.err => x.i = y.p.ids[u]
      BY <2>1, <2>2 DEF Grew
    <2> QED BY <1>3, <2>1, <2>3
  <1>12. CASE k \in DOMAIN p.ids
    BY <1>1, <1>12, FoundDid DEF k
  <1>13. CASE k \notin DOMAIN p.ids
    <2>1. Parts(k) = {k} \cup {u, w} /\ k \notin {u, w}
      BY <1>2
    <2>2. Did(p, k, entered(add(y.p, ref2(Tag.NameAndType, x.i, y.i), FALSE), k))
      BY <1>2, <1>10, <1>11, <1>13, <2>1, EnterDid
    <2> QED BY <1>1, <1>13, <2>2 DEF k, addRef2
  <1> QED BY <1>12, <1>13

LEMMA MemberRefDid ==
  ASSUME NEW p, Good(p), NEW t, NEW o, NEW n, NEW d
  PROVE  Did(p, <<"ref", t, o, n, d>>, memberRef(p, t, o, n, d))
  <1> DEFINE k == <<"ref", t, o, n, d>>
             c == <<"class", o>>
             m == <<"nat", n, d>>
             x == Class(p, o)
             y == NameAndType(x.p, n, d)
  <1>1. memberRef(p, t, o, n, d) = IF k \in DOMAIN p.ids THEN Found(p, k)
                                   ELSE entered(addRef2(t, x, y), k)
    BY memberRefIs
  <1>2. Parts(c) = {c, <<"utf8", o>>} /\ ~IsWide(c)
    BY NamedKey
  <1>3. Parts(m) = {m, <<"utf8", n>>, <<"utf8", d>>} /\ ~IsWide(m)
    BY NatKey
  <1>4. k[1] \in Kinds /\ ~IsWide(k) /\ Parts(k) = {k} \cup (Parts(c) \cup Parts(m)) /\ k \notin Parts(c) \cup Parts(m)
    BY <1>2, <1>3, RefKey
  <1>5. \A ids : EntryOf(ids, k) = ref2(t, ids[c], ids[m])
    BY RefKey
  <1>6. Did(p, c, x)
    BY ClassDid
  <1>7. Did(x.p, m, y)
    BY <1>6, NameAndTypeDid DEF Did
  <1>8. c \in Parts(c)
    BY <1>2
  <1> HIDE DEF k, c, m, x, y
  <1>9. Between(p, p, {}, k)
    BY BetweenStart
  <1>10. Between(p, x.p, {} \cup Parts(c), k)
    BY <1>2, <1>4, <1>6, <1>9, BetweenMore
  <1>11. Between(p, y.p, ({} \cup Parts(c)) \cup Parts(m), k)
    BY <1>3, <1>4, <1>7, <1>10, BetweenMore
  <1>12. ({} \cup Parts(c)) \cup Parts(m) = Parts(c) \cup Parts(m)
    OBVIOUS
  <1>13. ~y.p.err => ref2(t, x.i, y.i) = EntryOf(y.p.ids, k)
    <2>1. ~y.p.err => y.i = y.p.ids[m] /\ Grew(x.p, y.p, Parts(m))
      BY <1>7 DEF Did
    <2>2. ~y.p.err => ~x.p.err /\ x.i = x.p.ids[c] /\ c \in DOMAIN x.p.ids
      BY <1>6, <1>8, <2>1 DEF Did, Grew
    <2>3. ~y.p.err => x.i = y.p.ids[c]
      BY <2>1, <2>2 DEF Grew
    <2> QED BY <1>5, <2>1, <2>3
  <1>14. CASE k \in DOMAIN p.ids
    BY <1>1, <1>14, FoundDid DEF k
  <1>15. CASE k \notin DOMAIN p.ids
    <2>1. Did(p, k, entered(add(y.p, ref2(t, x.i, y.i), FALSE), k))
      BY <1>4, <1>11, <1>12, <1>13, <1>15, EnterDid
    <2> QED BY <1>1, <1>15, <2>1 DEF k, addRef2
  <1> QED BY <1>14, <1>15

(* Int, Float, Long and Double name nothing.                                *)
LEMMA NumberDid ==
  ASSUME NEW p, Good(p), NEW k, k[1] \in Kinds, Parts(k) = {k}, k \notin DOMAIN p.ids,
         NEW e, e = EntryOf(p.ids, k), NEW wide \in BOOLEAN, wide <=> IsWide(k)
  PROVE  Did(p, k, entered(add(p, e, wide), k))
  <1>1. Between(p, p, {}, k)
    BY BetweenStart
  <1>2. Parts(k) = {k} \cup {}
    OBVIOUS
  <1> QED BY <1>1, <1>2, EnterDid

LEMMA IntDid ==
  ASSUME NEW p, Good(p), NEW v
  PROVE  Did(p, <<"int", v>>, Integer(p, v))
  <1> DEFINE k == <<"int", v>>
             e == u1(Tag.Integer) \o u4(v)
  <1>1. Integer(p, v) = IF k \in DOMAIN p.ids THEN Found(p, k) ELSE entered(add(p, e, FALSE), k)
    BY DEF Integer, intern, Found, entered
  <1>2. k[1] \in Kinds /\ ~IsWide(k) /\ Parts(k) = {k} /\ EntryOf(p.ids, k) = e
    BY DEF Kinds, IsWide, Parts, EntryOf
  <1> HIDE DEF k, e
  <1> QED BY <1>1, <1>2, FoundDid, NumberDid DEF k

LEMMA FloatDid ==
  ASSUME NEW p, Good(p), NEW v
  PROVE  Did(p, <<"float", v>>, Float(p, v))
  <1> DEFINE k == <<"float", v>>
             e == u1(Tag.Float) \o u4(v)
  <1>1. Float(p, v) = IF k \in DOMAIN p.ids THEN Found(p, k) ELSE entered(add(p, e, FALSE), k)
    BY DEF Float, intern, Found, entered
  <1>2. k[1] \in Kinds /\ ~IsWide(k) /\ Parts(k) = {k} /\ EntryOf(p.ids, k) = e
    BY DEF Kinds, IsWide, Parts, EntryOf
  <1> HIDE DEF k, e
  <1> QED BY <1>1, <1>2, FoundDid, NumberDid DEF k

LEMMA LongDid ==
  ASSUME NEW p, Good(p), NEW v
  PROVE  Did(p, <<"long", v>>, Long(p, v))
  <1> DEFINE k == <<"long", v>>
             e == u1(Tag.Long) \o u4(v[1]) \o u4(v[2])
  <1>1. Long(p, v) = IF k \in DOMAIN p.ids THEN Found(p, k) ELSE entered(add(p, e, TRUE), k)
    BY DEF Long, intern, Found, entered
  <1>2. k[1] \in Kinds /\ IsWide(k) /\ Parts(k) = {k} /\ EntryOf(p.ids, k) = e
    BY DEF Kinds, IsWide, Parts, EntryOf
  <1> HIDE DEF k, e
  <1> QED BY <1>1, <1>2, FoundDid, NumberDid DEF k

LEMMA DoubleDid ==
  ASSUME NEW p, Good(p), NEW v
  PROVE  Did(p, <<"double", v>>, Double(p, v))
  <1> DEFINE k == <<"double", v>>
             e == u1(Tag.Double) \o u4(v[1]) \o u4(v[2])
  <1>1. Double(p, v) = IF k \in DOMAIN p.ids THEN Found(p, k) ELSE entered(add(p, e, TRUE), k)
    BY DEF Double, intern, Found, entered
  <1>2. k[1] \in Kinds /\ IsWide(k) /\ Parts(k) = {k} /\ EntryOf(p.ids, k) = e
    BY DEF Kinds, IsWide, Parts, EntryOf
  <1> HIDE DEF k, e
  <1> QED BY <1>1, <1>2, FoundDid, NumberDid DEF k

-----------------------------------------------------------------------------
(* The inductive invariant: the builder is good, holds exactly what was     *)
(* asked for, and gave out the indices in its maps.                         *)
Answered ==
  ~pool.err => /\ DOMAIN pool.ids = Asked
               /\ \A g \in given : g[1] \in DOMAIN pool.ids /\ g[2] = pool.ids[g[1]]
Inv == Good(pool) /\ Answered /\ RefusedWithReason

LEMMA InitInv == Init => Inv
  <1> SUFFICES ASSUME Init PROVE Inv
    OBVIOUS
  <1>1. /\ pool = [slots |-> << <<>> >>, err |-> FALSE, ids |-> << >>]
        /\ given = {}
    BY DEF Init, newPoolBuilder
  <1>2. IsPool(pool) /\ ~pool.err /\ pool.slots = << <<>> >> /\ DOMAIN pool.ids = {}
    BY <1>1 DEF IsPool
  <1>3. << <<>> >> \in Seq({<<>>}) /\ Len(<< <<>> >>) = 1
    OBVIOUS
  <1>4. SlotsFit(pool)
    <2>1. IsSeq(pool.slots) /\ Len(pool.slots) = 1
      BY <1>2, <1>3 DEF IsSeq
    <2>2. Len(pool.slots) \in 1..(MaxPoolIndex + 1)
      BY <2>1, LimitIsInt, Zenon
    <2> QED BY <2>1, <2>2, Zenon DEF SlotsFit
  <1>5. Filled(pool)
    BY <1>2, <1>3, <1>4 DEF Filled
  <1>6. Good(pool)
    BY <1>2, <1>5 DEF Good
  <1>7. Answered
    BY <1>1, <1>2 DEF Answered, Asked
  <1>8. RefusedWithReason
    BY <1>2 DEF RefusedWithReason
  <1> QED BY <1>6, <1>7, <1>8 DEF Inv

(* Every call is one of the above. *)
LEMMA CallDid ==
  ASSUME Good(pool), Next
  PROVE  \E k, x : Did(pool, k, x) /\ Returns(k, x)
  <1>1. CASE CallUTF8
    BY <1>1, UTF8Did DEF CallUTF8
  <1>2. CASE CallClass
    BY <1>2, ClassDid DEF CallClass
  <1>3. CASE CallString
    BY <1>3, StringDid DEF CallString
  <1>4. CASE CallMethodType
    BY <1>4, MethodTypeDid DEF CallMethodType
  <1>5. CASE CallNameAndType
    BY <1>5, NameAndTypeDid DEF CallNameAndType
  <1>6. CASE CallMemberRef
    BY <1>6, MemberRefDid DEF CallMemberRef
  <1>7. CASE CallInt
    BY <1>7, IntDid DEF CallInt
  <1>8. CASE CallFloat
    BY <1>8, FloatDid DEF CallFloat
  <1>9. CASE CallLong
    BY <1>9, LongDid DEF CallLong
  <1>10. CASE CallDouble
    BY <1>10, DoubleDid DEF CallDouble
  <1> QED BY <1>1, <1>2, <1>3, <1>4, <1>5, <1>6, <1>7, <1>8, <1>9, <1>10 DEF Next

LEMMA CallInv ==
  ASSUME Inv, NEW k, NEW x, Did(pool, k, x), Returns(k, x)
  PROVE  Inv'
  <1>1. pool' = x.p /\ given' = IF pool.err THEN given ELSE given \cup {<<k, x.i>>}
    BY DEF Returns
  <1>2. Good(pool)'
    BY <1>1 DEF Did, Good, IsPool, Filled, SlotsFit, Stored, Apart, Owned
  <1>3. Answered'
    <2> SUFFICES ASSUME ~x.p.err
                 PROVE  /\ DOMAIN x.p.ids = Asked'
                        /\ \A g \in given' : g[1] \in DOMAIN x.p.ids /\ g[2] = x.p.ids[g[1]]
      BY <1>1 DEF Answered
    <2>1. ~pool.err /\ Grew(pool, x.p, Parts(k)) /\ x.i = x.p.ids[k]
      BY DEF Did, Grew
    <2>2. given' = given \cup {<<k, x.i>>}
      BY <1>1, <2>1
    <2>3. Asked' = Asked \cup Parts(k)
      <3>1. \A j : j \in Asked' <=> \E g \in given' : j \in Parts(g[1])
        BY DEF Asked
      <3>2. \A j : j \in Asked <=> \E g \in given : j \in Parts(g[1])
        BY DEF Asked
      <3>3. <<k, x.i>>[1] = k
        OBVIOUS
      <3> QED BY <2>2, <3>1, <3>2, <3>3
    <2>4. DOMAIN x.p.ids = DOMAIN pool.ids \cup Parts(k) /\ DOMAIN pool.ids = Asked
      BY <2>1 DEF Grew, Inv, Answered
    <2>5. k \in DOMAIN x.p.ids
      BY <2>4, PartsHasSelf
    <2>6. \A g \in given : g[1] \in DOMAIN pool.ids /\ g[2] = x.p.ids[g[1]]
      BY <2>1 DEF Grew, Inv, Answered
    <2> QED BY <2>1, <2>2, <2>3, <2>4, <2>5, <2>6
  <1>4. RefusedWithReason'
    <2> SUFFICES ASSUME x.p.err
                 PROVE  \E g \in given' :
                          /\ g[2] = 0
                          /\ \/ TooLong(g[1])
                             \/ Len(x.p.slots) + (IF IsWide(g[1]) THEN 2 ELSE 1) - 1 > MaxPoolIndex
      BY <1>1 DEF RefusedWithReason
    <2>1. CASE pool.err
      <3>1. x.p.slots = pool.slots /\ given' = given
        BY <1>1, <2>1 DEF Did
      <3> QED BY <2>1, <3>1 DEF Inv, RefusedWithReason
    <2>2. CASE ~pool.err
      <3>1. x.i = 0 /\ Reason(x.p, k)
        BY <2>2 DEF Did
      <3>2. <<k, x.i>> \in given' /\ <<k, x.i>>[1] = k /\ <<k, x.i>>[2] = x.i
        BY <1>1, <2>2
      <3> QED BY <3>1, <3>2 DEF Reason, Need
    <2> QED BY <2>1, <2>2
  <1> QED BY <1>2, <1>3, <1>4 DEF Inv

LEMMA NextInv == Inv /\ [Next]_vars => Inv'
  <1> SUFFICES ASSUME Inv, [Next]_vars PROVE Inv'
    OBVIOUS
  <1>1. CASE Next
    <2>1. PICK k, x : Did(pool, k, x) /\ Returns(k, x)
      BY <1>1, CallDid DEF Inv
    <2> QED BY <2>1, CallInv
  <1>2. CASE UNCHANGED vars
    BY <1>2 DEF vars, Inv, Good, IsPool, Filled, SlotsFit, Stored, Apart, Owned, Answered, Asked, RefusedWithReason
  <1> QED BY <1>1, <1>2

LEMMA InvHolds == Spec => []Inv
  BY InitInv, NextInv, PTL DEF Spec

-----------------------------------------------------------------------------
(* A stored constant resolves at its index, through its parts.              *)
LEMMA StoredHolds ==
  ASSUME Filled(pool), NEW k \in DOMAIN pool.ids
  PROVE  /\ k[1] \in Kinds /\ Parts(k) \subseteq DOMAIN pool.ids
         /\ pool.ids[k] \in 1..Last_
         /\ Holds(pool.ids[k], EntryOf(pool.ids, k))
         /\ IsWide(k) => Holds(pool.ids[k] + 1, <<>>)
  <1>1. Stored(pool, k) /\ SlotsFit(pool)
    BY DEF Filled
  <1>2. Len(pool.slots) \in Int
    BY <1>1, SlotsCount
  <1>3. IsWide(k) => (pool.ids[k] + 1) + 1 = pool.ids[k] + 2
    BY <1>1, <1>2 DEF Stored
  <1> QED BY <1>1, <1>2, <1>3 DEF Stored, Holds, Last_

LEMMA Utf8Resolves ==
  ASSUME Filled(pool), NEW s, <<"utf8", s>> \in DOMAIN pool.ids
  PROVE  pool.ids[<<"utf8", s>>] \in 1..Last_ /\ IsUtf8(pool.ids[<<"utf8", s>>], s)
  <1> DEFINE k == <<"utf8", s>>
  <1>1. EntryOf(pool.ids, k) = utf8Entry(s)
    BY TextKey
  <1> HIDE DEF k
  <1> QED BY <1>1, StoredHolds DEF IsUtf8, k

LEMMA NamedResolves ==
  ASSUME Filled(pool), NEW k \in DOMAIN pool.ids, k[1] \in {"class", "string", "methodType"},
         NEW tag, EntryOf(pool.ids, k) = ref1(tag, pool.ids[<<"utf8", k[2]>>])
  PROVE  IsNamed(pool.ids[k], tag, k[2])
  <1>1. Holds(pool.ids[k], EntryOf(pool.ids, k)) /\ Parts(k) \subseteq DOMAIN pool.ids
    BY StoredHolds
  <1>2. <<"utf8", k[2]>> \in DOMAIN pool.ids
    BY <1>1 DEF Parts, Utf8s
  <1> QED BY <1>1, <1>2, Utf8Resolves DEF IsNamed

LEMMA NatResolves ==
  ASSUME Filled(pool), NEW k \in DOMAIN pool.ids, k[1] = "nat"
  PROVE  IsNat(pool.ids[k], k[2], k[3])
  <1>1. Holds(pool.ids[k], EntryOf(pool.ids, k)) /\ Parts(k) \subseteq DOMAIN pool.ids
    BY StoredHolds
  <1>2. <<"utf8", k[2]>> \in DOMAIN pool.ids /\ <<"utf8", k[3]>> \in DOMAIN pool.ids
    BY <1>1 DEF Parts, Utf8s
  <1>3. EntryOf(pool.ids, k) = ref2(Tag.NameAndType, pool.ids[<<"utf8", k[2]>>], pool.ids[<<"utf8", k[3]>>])
    BY DEF EntryOf
  <1> QED BY <1>1, <1>2, <1>3, Utf8Resolves DEF IsNat

LEMMA RefResolves ==
  ASSUME Filled(pool), NEW k \in DOMAIN pool.ids, k[1] = "ref"
  PROVE  IsRef(pool.ids[k], k[2], k[3], k[4], k[5])
  <1> DEFINE c == <<"class", k[3]>>
             m == <<"nat", k[4], k[5]>>
  <1>1. Holds(pool.ids[k], EntryOf(pool.ids, k)) /\ Parts(k) \subseteq DOMAIN pool.ids
    BY StoredHolds
  <1>2. c \in DOMAIN pool.ids /\ m \in DOMAIN pool.ids
    BY <1>1 DEF Parts
  <1>3. EntryOf(pool.ids, k) = ref2(k[2], pool.ids[c], pool.ids[m])
    BY DEF EntryOf
  <1>4. EntryOf(pool.ids, c) = ref1(Tag.Class, pool.ids[<<"utf8", c[2]>>])
    BY DEF EntryOf
  <1>5. c[1] = "class" /\ c[2] = k[3] /\ m[1] = "nat" /\ m[2] = k[4] /\ m[3] = k[5]
    OBVIOUS
  <1> HIDE DEF c, m
  <1>6. IsNamed(pool.ids[c], Tag.Class, k[3])
    BY <1>2, <1>4, <1>5, NamedResolves
  <1>7. IsNat(pool.ids[m], k[4], k[5])
    BY <1>2, <1>5, NatResolves
  <1>8. pool.ids[c] \in 1..Last_ /\ pool.ids[m] \in 1..Last_
    BY <1>2, StoredHolds
  <1> QED BY <1>1, <1>3, <1>6, <1>7, <1>8 DEF IsRef

LEMMA StoredResolves ==
  ASSUME Filled(pool), NEW k \in DOMAIN pool.ids
  PROVE  Resolves(pool.ids[k], k)
  <1>1. /\ k[1] \in Kinds /\ Holds(pool.ids[k], EntryOf(pool.ids, k))
        /\ IsWide(k) => Holds(pool.ids[k] + 1, <<>>)
    BY StoredHolds
  <1>2. CASE k[1] = "utf8"
    BY <1>1, <1>2 DEF Resolves, IsUtf8, EntryOf
  <1>3. CASE k[1] = "class"
    <2>1. EntryOf(pool.ids, k) = ref1(Tag.Class, pool.ids[<<"utf8", k[2]>>])
      BY <1>3 DEF EntryOf
    <2>2. IsNamed(pool.ids[k], Tag.Class, k[2])
      BY <1>3, <2>1, NamedResolves
    <2> QED BY <1>3, <2>2 DEF Resolves
  <1>4. CASE k[1] = "string"
    <2>1. EntryOf(pool.ids, k) = ref1(Tag.String, pool.ids[<<"utf8", k[2]>>])
      BY <1>4 DEF EntryOf
    <2>2. IsNamed(pool.ids[k], Tag.String, k[2])
      BY <1>4, <2>1, NamedResolves
    <2> QED BY <1>4, <2>2 DEF Resolves
  <1>5. CASE k[1] = "methodType"
    <2>1. EntryOf(pool.ids, k) = ref1(Tag.MethodType, pool.ids[<<"utf8", k[2]>>])
      BY <1>5 DEF EntryOf
    <2>2. IsNamed(pool.ids[k], Tag.MethodType, k[2])
      BY <1>5, <2>1, NamedResolves
    <2> QED BY <1>5, <2>2 DEF Resolves
  <1>6. CASE k[1] = "nat"
    BY <1>6, NatResolves DEF Resolves
  <1>7. CASE k[1] = "ref"
    BY <1>7, RefResolves DEF Resolves
  <1>8. CASE k[1] = "int"
    BY <1>1, <1>8 DEF Resolves, IsWord, EntryOf
  <1>9. CASE k[1] = "float"
    BY <1>1, <1>9 DEF Resolves, IsWord, EntryOf
  <1>10. CASE k[1] = "long"
    BY <1>1, <1>10 DEF Resolves, IsPair, EntryOf, IsWide
  <1>11. CASE k[1] = "double"
    BY <1>1, <1>11 DEF Resolves, IsPair, EntryOf, IsWide
  <1> QED BY <1>1, <1>2, <1>3, <1>4, <1>5, <1>6, <1>7, <1>8, <1>9, <1>10, <1>11 DEF Kinds

-----------------------------------------------------------------------------
(* While nothing failed, every index a call of PoolBuilder ever returned    *)
(* still resolves to its constant, through every index its entry holds.     *)
THEOREM IndexesAlwaysStand == Spec => []IndexesStand
  <1>1. Inv => IndexesStand
    <2> SUFFICES ASSUME Inv, ~pool.err, NEW g \in given
                 PROVE  g[2] \in 1..MaxPoolIndex /\ Resolves(g[2], g[1])
      BY DEF IndexesStand
    <2>1. Filled(pool)
      BY DEF Inv, Good
    <2>2. g[1] \in DOMAIN pool.ids /\ g[2] = pool.ids[g[1]]
      BY DEF Inv, Answered
    <2>3. g[2] \in 1..Last_
      BY <2>1, <2>2, StoredHolds
    <2>4. Last_ <= MaxPoolIndex /\ Last_ \in Int /\ MaxPoolIndex \in Int
      <3>1. MaxPoolIndex \in Int
        BY LimitIsInt, Zenon
      <3>2. Len(pool.slots) \in 1..(MaxPoolIndex + 1)
        BY <2>1 DEF Filled, SlotsFit
      <3> QED BY <3>1, <3>2 DEF Last_
    <2>5. g[2] \in 1..MaxPoolIndex
      BY <2>3, <2>4
    <2> QED BY <2>1, <2>2, <2>5, StoredResolves
  <1> QED BY <1>1, InvHolds, PTL

(* While nothing failed, the maps of PoolBuilder give a constant one index  *)
(* and never give one index, or the hidden half of an 8-byte constant, to   *)
(* two.                                                                     *)
THEOREM OneIndexEach == Spec => []OneEach
  <1>1. Inv => OneEach
    <2> SUFFICES ASSUME Inv, ~pool.err, NEW g \in given, NEW h \in given
                 PROVE  /\ g[1] = h[1] <=> g[2] = h[2]
                        /\ IsWide(g[1]) => g[2] + 1 # h[2]
      BY DEF OneEach
    <2>1. Filled(pool)
      BY DEF Inv, Good
    <2>2. /\ g[1] \in DOMAIN pool.ids /\ g[2] = pool.ids[g[1]]
          /\ h[1] \in DOMAIN pool.ids /\ h[2] = pool.ids[h[1]]
      BY DEF Inv, Answered
    <2>3. Apart(pool, g[1], h[1])
      BY <2>1, <2>2 DEF Filled
    <2>4. g[2] \in Int
      <3>1. g[2] \in 1..Last_
        BY <2>1, <2>2, StoredHolds
      <3> QED BY <3>1
    <2> QED BY <2>2, <2>3, <2>4 DEF Apart
  <1> QED BY <1>1, InvHolds, PTL

(* While nothing failed, the slots PoolBuilder emits are those of the       *)
(* constants asked for and of their parts, and no others.                   *)
THEOREM NothingWasted == Spec => []NoWaste
  <1>1. Inv => NoWaste
    <2> SUFFICES ASSUME Inv, ~pool.err, NEW i \in 1..Last_
                 PROVE  \E k \in Asked : Resolves(i, k) \/ (IsWide(k) /\ Resolves(i - 1, k))
      BY DEF NoWaste
    <2>1. Filled(pool)
      BY DEF Inv, Good
    <2>2. PICK k \in DOMAIN pool.ids : i = pool.ids[k] \/ (IsWide(k) /\ i = pool.ids[k] + 1)
      BY <2>1 DEF Filled, Owned, Last_
    <2>3. k \in Asked
      BY DEF Inv, Answered
    <2>4. Resolves(pool.ids[k], k)
      BY <2>1, StoredResolves
    <2>5. pool.ids[k] \in Int
      <3>1. pool.ids[k] \in 1..Last_
        BY <2>1, StoredHolds
      <3> QED BY <3>1
    <2>6. i = pool.ids[k] \/ (IsWide(k) /\ i - 1 = pool.ids[k])
      BY <2>2, <2>5
    <2> QED BY <2>3, <2>4, <2>6
  <1> QED BY <1>1, InvHolds, PTL

(* PoolBuilder fails only for a string over the limit or for want of the    *)
(* slots the call needs, and the failure stays.                             *)
THEOREM FailsWithReason == Spec => []RefusedWithReason
  <1>1. Inv => RefusedWithReason
    BY DEF Inv
  <1> QED BY <1>1, InvHolds, PTL
=============================================================================
