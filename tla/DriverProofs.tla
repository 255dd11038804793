----------------------------- MODULE DriverProofs -----------------------------
(***************************************************************************)
(* Proofs about Driver, for any packages, names, class path, batches, limit *)
(* on the errors shown and faults.                                          *)
(***************************************************************************)
EXTENDS Driver, FiniteSetTheorems, WellFoundedInduction, TLAPS

Early == {"parse", "enter", "create"}
Loop  == {"attr", "lower", "write"}

(* The binary name of the i-th type of a file. *)
TypeName(f, i) == <<batch[f].pkg, batch[f].types[i]>>

(* What the table, the scopes and the units hold, the files declare, and    *)
(* the class path defines; a source class has its name to itself.           *)
Grounded ==
  /\ \A n \in Name : classes[n] \in DOMAIN batch => classes[n] \in DeclaredIn(n)
  /\ \A n \in Name : classes[n] = FromPath => n \in OnPath
  /\ \A m \in members : m[3] \in DeclaredIn(<<m[1], m[2]>>)
  /\ \A f \in DOMAIN batch : \A n \in units[f].types : classes[n] = f
  /\ \A f \in DOMAIN batch : \A n \in units[f].single :
       classes[n] # NoSym /\ \E i \in DOMAIN batch[f].imports : n = batch[f].imports[i]

(* The files sym.Enter has seen, unless the build broke off. *)
Entered(f) == (stage = "enter" /\ f < at) \/ stage \in {"create", "attr", "lower", "write", "close"}

(* A file that was entered has its names in the table, and one that was     *)
(* entered cleanly has a symbol for every import and every type.            *)
EnteredWell ==
  \A f \in parsed : Entered(f) =>
    /\ \A i \in DOMAIN batch[f].types : classes[TypeName(f, i)] \in DOMAIN batch
    /\ <<f, "enter">> \notin raised =>
         /\ \A i \in DOMAIN batch[f].types : TypeName(f, i) \in units[f].types
         /\ \A i \in DOMAIN batch[f].imports :
              \E n \in units[f].single : n[2] = batch[f].imports[i][2]

(* Where the loop over the files stands: what is written belongs to files   *)
(* behind it, or to the one at hand and is not to be written any more; the  *)
(* phases have complained only about files behind it.                       *)
Behind ==
  /\ stage \in Early => out = <<>> /\ \A f \in DOMAIN batch : found[f] = {}
  /\ stage = "create" => at = 1
  /\ \A k \in DOMAIN out : out[k][1] \in units[out[k][2]].types
  /\ stage \in Loop => \A k \in DOMAIN out :
       out[k][2] < at \/ (stage = "write" /\ out[k][2] = at /\ out[k][1] \notin todo)
  /\ stage = "write" => todo \subseteq units[at].types
  /\ \A x \in raised : x[2] \in {"attr", "flow", "warn", "lower"} =>
       stage \notin Early /\ (stage \in Loop => x[1] < at)

(* A class of that name was written. *)
Wrote(n) == \E k \in DOMAIN out : out[k][1] = n

(* The files the loop is done with. *)
Handled(f) == (stage \in Loop /\ f < at) \/ stage = "close"

(* As long as nothing went wrong, every file was parsed, entered, lowered   *)
(* and written as far as the stage has come.                                *)
Flawless == code = exitOK /\ rep.errors = 0

Whole ==
  Flawless =>
    /\ stage = "parse" => \A f \in DOMAIN batch : f < at => f \in parsed
    /\ stage \notin {"parse", "done"} => parsed = DOMAIN batch
    /\ \A x \in raised : x[2] = "complete" /\ batch[x[1]].dupMember
    /\ \A f \in DOMAIN batch : Handled(f) => f \in lowered /\ \A n \in units[f].types : Wrote(n)
    /\ stage = "write" => at \in lowered /\ \A n \in units[at].types : n \in todo \/ Wrote(n)

(* Every diagnostic counts as an error, shown or not. *)
Counted == rep.reported + rep.suppressed <= rep.errors

DriverInv ==
  /\ TypeOK /\ Grounded /\ EnteredWell /\ Behind /\ NoClobber
  /\ Whole /\ Counted /\ ExitIsHonest /\ NamesMeanJLS
-----------------------------------------------------------------------------
(* The batch *)

(* A batch is a non-empty sequence of files. *)
LEMMA Batch ==
  ASSUME TypeOK
  PROVE  /\ batch \in Seq(File) /\ Len(batch) \in Nat \ {0} /\ DOMAIN batch = 1..Len(batch)
         /\ at \in 1..Len(batch) /\ IsFiniteSet(batch[at].uses)
         /\ \A f \in DOMAIN batch :
              /\ f \in Nat \ {0} /\ batch[f] \in File /\ batch[f].pkg \in Package
              /\ batch[f].types \in Seq(Simple) /\ batch[f].imports \in Seq(Name)
              /\ batch[f].onDemand \subseteq Package /\ batch[f].uses \subseteq Simple
<1>1. batch \in Seq(File) /\ batch # <<>> /\ at \in DOMAIN batch
  BY DriverAssumption DEF TypeOK, DriverAssumption
<1>2. Len(batch) \in Nat \ {0} /\ DOMAIN batch = 1..Len(batch)
  BY <1>1
<1>3. \A f \in DOMAIN batch : f \in Nat \ {0} /\ batch[f] \in File
  BY <1>1, <1>2
<1>4. IsFiniteSet(batch[at].uses)
  BY <1>1, DriverAssumption DEF TypeOK, DriverAssumption
<1> QED
  BY <1>1, <1>2, <1>3, <1>4 DEF File

(* The names a file declares and imports. *)
LEMMA Names ==
  ASSUME TypeOK, NEW f \in DOMAIN batch
  PROVE  /\ \A i \in DOMAIN batch[f].types : batch[f].types[i] \in Simple /\ TypeName(f, i) \in Name
         /\ \A i \in DOMAIN batch[f].imports : batch[f].imports[i] \in Name
         /\ IsFiniteSet(DOMAIN batch[f].types) /\ IsFiniteSet(DOMAIN batch[f].imports)
<1> PICK ts, imps : ts = batch[f].types /\ imps = batch[f].imports
  OBVIOUS
<1>1. ts \in Seq(Simple) /\ imps \in Seq(Name) /\ batch[f].pkg \in Package
  BY Batch
<1>2. DOMAIN ts = 1..Len(ts) /\ Len(ts) \in Nat /\ DOMAIN imps = 1..Len(imps) /\ Len(imps) \in Nat
  BY <1>1
<1>3. \A i \in DOMAIN ts : ts[i] \in Simple
  BY <1>1, <1>2
<1>4. \A i \in DOMAIN imps : imps[i] \in Name
  BY <1>1, <1>2
<1>5. IsFiniteSet(DOMAIN ts) /\ IsFiniteSet(DOMAIN imps)
  BY <1>2, FS_Interval
<1> QED
  BY <1>1, <1>3, <1>4, <1>5 DEF TypeName, Name

(* A loop goes on with the next file, or ends. *)
LEMMA Advances ==
  ASSUME TypeOK, NEW here, NEW next, Advance(here, next), UNCHANGED batch
  PROVE  /\ at' \in DOMAIN batch'
         /\ \/ at < Len(batch) /\ at' = at + 1 /\ stage' = here
            \/ at = Len(batch) /\ at' = 1 /\ stage' = next
  BY Batch DEF Advance
-----------------------------------------------------------------------------
(* The reporter *)

RepType == [reported: Nat, suppressed: Nat, errors: Nat]
RepOK(r) == r \in RepType /\ (MaxErrors > 0 => r.reported <= MaxErrors)

(* reporter.report counts every diagnostic as an error, and each one is     *)
(* either shown or suppressed.                                              *)
LEMMA Reports ==
  ASSUME NEW r, RepOK(r), NEW k \in Nat
  PROVE  /\ RepOK(report(r, k)) /\ report(r, k).errors = r.errors + k
         /\ report(r, k).reported + report(r, k).suppressed = r.reported + r.suppressed + k
<1>1. MaxErrors \in Nat
  BY DriverAssumption DEF DriverAssumption
<1> DEFINE shown == IF MaxErrors = 0 \/ r.reported + k <= MaxErrors THEN k ELSE MaxErrors - r.reported
<1>2. r.reported \in Nat /\ r.suppressed \in Nat /\ r.errors \in Nat
  BY DEF RepOK, RepType
<1>3. shown \in 0..k /\ (MaxErrors > 0 => r.reported + shown <= MaxErrors)
  BY <1>1, <1>2 DEF RepOK
<1>4. report(r, k) = [reported |-> r.reported + shown, suppressed |-> r.suppressed + k - shown,
                      errors |-> r.errors + k]
  BY DEF report
<1> HIDE DEF shown
<1> QED
  BY <1>2, <1>3, <1>4 DEF RepOK, RepType

(* A step only adds to what is counted, and every diagnostic is an error. *)
Adds(k) ==
  /\ RepOK(rep') /\ rep'.errors = rep.errors + k
  /\ rep'.reported + rep'.suppressed <= rep.reported + rep.suppressed + k

LEMMA AddsReported ==
  ASSUME TypeOK, NEW k \in Nat, rep' = report(rep, k)
  PROVE  Adds(k)
<1>1. RepOK(rep)
  BY DEF TypeOK, RepOK, RepType
<1>2. RepOK(rep') /\ rep'.errors = rep.errors + k
      /\ rep'.reported + rep'.suppressed = rep.reported + rep.suppressed + k
  BY <1>1, Reports
<1>3. rep.reported + rep.suppressed + k \in Nat
  BY <1>1 DEF RepOK, RepType
<1> QED
  BY <1>2, <1>3 DEF Adds

LEMMA AddsNothing ==
  ASSUME TypeOK, UNCHANGED rep
  PROVE  Adds(0)
  BY DEF TypeOK, Adds, RepOK, RepType

LEMMA AddsOne ==
  ASSUME TypeOK, rep' = [rep EXCEPT !.errors = rep.errors + 1]
  PROVE  Adds(1)
<1>1. RepOK(rep)
  BY DEF TypeOK, RepOK, RepType
<1>2. rep' \in RepType /\ rep'.errors = rep.errors + 1 /\ rep'.reported = rep.reported
      /\ rep'.suppressed = rep.suppressed
  BY <1>1 DEF RepOK, RepType
<1> QED
  BY <1>1, <1>2 DEF Adds, RepOK, RepType
-----------------------------------------------------------------------------
(* sym.Enter *)

(* A set of naturals has a least element. *)
LEMMA LeastNatural ==
  ASSUME NEW T, T \subseteq Nat, T # {}
  PROVE  \E x \in T : \A y \in T : x <= y
<1> DEFINE R == {ss \in Nat \X Nat : ss[1] < ss[2]}
<1>1. IsWellFoundedOn(R, Nat)
  BY NatLessThanWellFounded DEF OpToRel
<1> HIDE DEF R
<1>2. PICK x \in T : \A y \in T : ~(<<y, x>> \in R)
  BY <1>1, WFMin
<1>3. \A y \in T : ~(y < x) /\ y \in Nat /\ x \in Nat
  BY <1>2 DEF R
<1> QED
  BY <1>3

(* Of the places with one value, one comes first. *)
FirstAt(v, j) == \A m \in 1..(j - 1) : v[m] # v[j]

LEMMA FirstPlace ==
  ASSUME NEW n \in Nat, NEW v, NEW i \in 1..n
  PROVE  \E j \in 1..n : v[j] = v[i] /\ FirstAt(v, j)
<1> DEFINE T == {j \in 1..n : v[j] = v[i]}
<1>1. T \subseteq Nat /\ i \in T
  OBVIOUS
<1>2. PICK j \in T : \A m \in T : j <= m
  BY <1>1, LeastNatural
<1>3. FirstAt(v, j)
  BY <1>2 DEF FirstAt
<1> QED
  BY <1>2, <1>3

(* A count of places is zero when there are none. *)
LEMMA CountZero ==
  ASSUME NEW D, IsFiniteSet(D), NEW S, S \subseteq D
  PROVE  Cardinality(S) \in Nat /\ (Cardinality(S) = 0 => S = {})
  BY FS_Subset, FS_CardinalityType, FS_EmptySet

(* What a table may become by looking names up: stubs of class files. *)
Loaded(ld) ==
  /\ ld \in [Name -> {NoSym, FromPath} \cup DOMAIN batch]
  /\ \A n \in Name : /\ classes[n] # NoSym => ld[n] = classes[n]
                     /\ classes[n] = NoSym => ld[n] \in {NoSym, FromPath}
                     /\ ld[n] = FromPath => classes[n] = FromPath \/ n \in OnPath

LEMMA StubsLoad ==
  ASSUME TypeOK, NEW ns, ns \subseteq Name
  PROVE  /\ Loaded(Stubs(classes, ns))
         /\ \A n \in ns : Stubs(classes, ns)[n] = Class(classes, n)
<1>1. classes \in [Name -> {NoSym, FromPath} \cup DOMAIN batch]
  BY DEF TypeOK
<1>2. FromPath # NoSym
  BY DEF FromPath, NoSym
<1>3. Stubs(classes, ns) = [n \in Name |-> IF n \in ns THEN Class(classes, n) ELSE classes[n]]
  BY DEF Stubs
<1> QED
  BY <1>1, <1>2, <1>3 DEF Loaded, Class

(* typeDecl: what a file declares, and what it is told off for. *)
DeclaresOK(f, ld, ts, k) ==
  /\ ts \subseteq Name /\ k \in Nat
  /\ \A n \in ts : ld[n] \in {NoSym, FromPath} /\ \E i \in DOMAIN batch[f].types : n = TypeName(f, i)
  /\ \A i \in DOMAIN batch[f].types : TypeName(f, i) \in ts \/ ld[TypeName(f, i)] \in DOMAIN batch
  /\ k = 0 => \A i \in DOMAIN batch[f].types : TypeName(f, i) \in ts

LEMMA Declares ==
  ASSUME TypeOK, NEW f \in DOMAIN batch, NEW ld, Loaded(ld)
  PROVE  DeclaresOK(f, ld, Declared(f, ld).types, Declared(f, ld).diags)
<1> PICK ts : ts = batch[f].types
  OBVIOUS
<1> DEFINE fresh(i) == /\ ld[<<batch[f].pkg, ts[i]>>] \in {NoSym, FromPath}
                       /\ \A j \in 1..(i - 1) : ts[j] # ts[i]
           T == {<<batch[f].pkg, ts[i]>> : i \in {j \in DOMAIN ts : fresh(j)}}
           k == Cardinality({i \in DOMAIN ts : ~fresh(i)})
<1>1. Declared(f, ld).types = T /\ Declared(f, ld).diags = k
  BY DEF Declared
<1>2. ts \in Seq(Simple) /\ DOMAIN ts = 1..Len(ts) /\ Len(ts) \in Nat
  BY Batch
<1>3. \A i \in DOMAIN ts : TypeName(f, i) = <<batch[f].pkg, ts[i]>> /\ TypeName(f, i) \in Name
  BY Names DEF TypeName
<1>4. IsFiniteSet(DOMAIN ts)
  BY Names
<1>5. k \in Nat /\ (k = 0 => \A i \in DOMAIN ts : fresh(i))
  <2> DEFINE U == {i \in DOMAIN ts : ~fresh(i)}
  <2>1. U \subseteq DOMAIN ts
    OBVIOUS
  <2>2. Cardinality(U) \in Nat /\ (Cardinality(U) = 0 => U = {})
    <3> HIDE DEF U
    <3> QED
      BY <2>1, <1>4, CountZero
  <2>3. U = {} => \A i \in DOMAIN ts : fresh(i)
    OBVIOUS
  <2> QED
    BY <2>2, <2>3
<1>6. \A n \in T : ld[n] \in {NoSym, FromPath} /\ \E i \in DOMAIN ts : n = TypeName(f, i)
  BY <1>3
<1>7. T \subseteq Name
  BY <1>3
<1>8. \A i \in DOMAIN ts : fresh(i) => TypeName(f, i) \in T
  BY <1>3
<1>9. ASSUME NEW i \in DOMAIN ts
      PROVE  TypeName(f, i) \in T \/ ld[TypeName(f, i)] \in DOMAIN batch
  <2> PICK n \in Nat : n = Len(ts)
    BY <1>2
  <2>1. PICK j \in 1..n : ts[j] = ts[i] /\ FirstAt(ts, j)
    BY <1>2, FirstPlace
  <2>2. j \in DOMAIN ts /\ TypeName(f, j) = TypeName(f, i)
    BY <2>1, <1>2, <1>3
  <2>3. ld[TypeName(f, i)] \in {NoSym, FromPath} => fresh(j)
    BY <2>1, <2>2, <1>3 DEF FirstAt
  <2>4. ld[TypeName(f, i)] \in {NoSym, FromPath} \cup DOMAIN batch
    BY <1>3 DEF Loaded
  <2> QED
    BY <2>2, <2>3, <2>4, <1>8
<1> HIDE DEF T, k, fresh
<1> QED
  BY <1>1, <1>5, <1>6, <1>7, <1>8, <1>9 DEF DeclaresOK

(* The single-type imports a file keeps. *)
ImportsOK(f, ld, sg, k) ==
  /\ sg \subseteq Name /\ k \in Nat
  /\ \A n \in sg : ld[n] # NoSym /\ \E i \in DOMAIN batch[f].imports : n = batch[f].imports[i]
  /\ k = 0 => \A i \in DOMAIN batch[f].imports : \E n \in sg : n[2] = batch[f].imports[i][2]

LEMMA Imports ==
  ASSUME TypeOK, NEW f \in DOMAIN batch, NEW ns, ns \subseteq Name,
         \A i \in DOMAIN batch[f].imports : batch[f].imports[i] \in ns
  PROVE  ImportsOK(f, Stubs(classes, ns), Imported(f, classes).single, Imported(f, classes).diags)
<1> PICK imps, ld : imps = batch[f].imports /\ ld = Stubs(classes, ns)
  OBVIOUS
<1> DEFINE known(i) == Class(classes, imps[i]) # NoSym
           first(i) == \A j \in 1..(i - 1) : known(j) => imps[j][2] # imps[i][2]
           taken(i) == \E j \in 1..(i - 1) : /\ known(j) /\ first(j)
                                             /\ imps[j][2] = imps[i][2] /\ imps[j] # imps[i]
           S == {imps[i] : i \in {j \in DOMAIN imps : known(j) /\ first(j)}}
           U == {i \in DOMAIN imps : ~known(i) \/ taken(i)}
<1>1. Imported(f, classes).single = S /\ Imported(f, classes).diags = Cardinality(U)
  BY DEF Imported
<1>2. imps \in Seq(Name) /\ DOMAIN imps = 1..Len(imps) /\ Len(imps) \in Nat
  BY Batch
<1>3. \A i \in DOMAIN imps : imps[i] \in Name /\ imps[i] \in ns
  BY Names
<1>4. IsFiniteSet(DOMAIN imps)
  BY Names
<1>5. U \subseteq DOMAIN imps
  OBVIOUS
<1>6. Cardinality(U) \in Nat /\ (Cardinality(U) = 0 => U = {})
  <2> HIDE DEF U
  <2> QED
    BY <1>4, <1>5, CountZero
<1>7. \A n \in S : ld[n] # NoSym /\ n \in Name /\ \E i \in DOMAIN imps : n = imps[i]
  BY <1>3, StubsLoad
<1>8. ASSUME U = {}, NEW i \in DOMAIN imps
      PROVE  \E n \in S : n[2] = imps[i][2]
  <2> DEFINE v == [j \in 1..Len(imps) |-> imps[j][2]]
  <2> PICK n \in Nat : n = Len(imps)
    BY <1>2
  <2>1. PICK j \in 1..n : v[j] = v[i] /\ FirstAt(v, j)
    <3> HIDE DEF v
    <3> QED
      BY <1>2, FirstPlace
  <2>2. \A m \in 1..n : v[m] = imps[m][2]
    OBVIOUS
  <2>3. \A m \in 1..(j - 1) : m \in 1..n
    BY <2>1
  <2>4. i \in 1..n
    BY <1>2
  <2> HIDE DEF v
  <2>5. imps[j][2] = imps[i][2] /\ \A m \in 1..(j - 1) : imps[m][2] # imps[j][2]
    BY <2>1, <2>2, <2>3, <2>4 DEF FirstAt
  <2>6. j \in DOMAIN imps /\ known(j) /\ first(j)
    BY <2>1, <2>5, <1>2, <1>8
  <2> QED
    BY <2>5, <2>6
<1> HIDE DEF S, U
<1> QED
  BY <1>1, <1>6, <1>7, <1>8 DEF ImportsOK

(* What entering a file does. *)
EnterDoes(ld, ts, sg, k) ==
  /\ classes' = Declare(ld, at, ts)
  /\ members' = members \cup {<<n[1], n[2], at>> : n \in ts}
  /\ units' = [units EXCEPT ![at] = [types |-> ts, single |-> sg]]
  /\ rep' = report(rep, k) /\ Raise(at, "enter", k)

LEMMA EnterFacts ==
  ASSUME TypeOK, Enter, at \in parsed
  PROVE  \E ld, ts, sg : \E i, d \in Nat :
           /\ Loaded(ld) /\ DeclaresOK(at, ld, ts, d) /\ ImportsOK(at, ld, sg, i)
           /\ EnterDoes(ld, ts, sg, i + d)
<1> DEFINE names == {batch[at].imports[i] : i \in DOMAIN batch[at].imports}
           imp == Imported(at, classes)
           loaded == Stubs(classes, names)
           dec == Declared(at, loaded)
<1>1. at \in DOMAIN batch
  BY DEF TypeOK
<1>2. names \subseteq Name /\ \A i \in DOMAIN batch[at].imports : batch[at].imports[i] \in names
  BY <1>1, Names
<1>3. EnterDoes(loaded, dec.types, imp.single, imp.diags + dec.diags)
  BY DEF Enter, EnterDoes
<1> HIDE DEF names
<1>4. Loaded(loaded)
  BY <1>2, StubsLoad
<1>5. ImportsOK(at, loaded, imp.single, imp.diags)
  BY <1>1, <1>2, Imports
<1> HIDE DEF loaded
<1>6. DeclaresOK(at, loaded, dec.types, dec.diags)
  BY <1>1, <1>4, Declares
<1>7. dec.diags \in Nat /\ imp.diags \in Nat
  BY <1>5, <1>6 DEF DeclaresOK, ImportsOK
<1> HIDE DEF imp, dec
<1> QED
  BY <1>3, <1>4, <1>5, <1>6, <1>7

(* Looking a name up in the table. *)
LEMMA ClassType ==
  ASSUME TypeOK, NEW n \in Name
  PROVE  Class(classes, n) \in {NoSym, FromPath} \cup DOMAIN batch
  BY DEF Class, TypeOK

LEMMA FindTyped ==
  ASSUME TypeOK, NEW f \in DOMAIN batch, NEW s \in Simple
  PROVE  FindType(f, s) \in {NoSym, FromPath} \cup DOMAIN batch
<1> DEFINE pkg == batch[f].pkg
           imp == {n \in units[f].single : n[2] = s}
           scope == {m \in members : m[1] = pkg /\ m[2] = s}
           demand == {p \in batch[f].onDemand : Class(classes, <<p, s>>) # NoSym}
<1>1. pkg \in Package /\ batch[f].onDemand \subseteq Package /\ JavaLang \in Package
  BY Batch, DriverAssumption DEF DriverAssumption
<1>2. \A p \in Package : Class(classes, <<p, s>>) \in {NoSym, FromPath} \cup DOMAIN batch
  BY ClassType DEF Name
<1>3. imp # {} => Class(classes, CHOOSE n \in imp : TRUE) \in {NoSym, FromPath} \cup DOMAIN batch
  <2>1. imp \subseteq Name
    BY DEF TypeOK
  <2>2. imp # {} => (CHOOSE n \in imp : TRUE) \in imp
    OBVIOUS
  <2> HIDE DEF imp
  <2> QED
    BY <2>1, <2>2, ClassType
<1>4. scope # {} => (CHOOSE m \in scope : TRUE)[3] \in DOMAIN batch
  <2>1. \A m \in scope : m[3] \in DOMAIN batch
    BY DEF TypeOK
  <2>2. scope # {} => (CHOOSE m \in scope : TRUE) \in scope
    OBVIOUS
  <2> HIDE DEF scope
  <2> QED
    BY <2>1, <2>2
<1>5. demand # {} => (CHOOSE p \in demand : TRUE) \in Package
  <2>1. demand \subseteq Package
    BY <1>1
  <2>2. demand # {} => (CHOOSE p \in demand : TRUE) \in demand
    OBVIOUS
  <2> HIDE DEF demand
  <2> QED
    BY <2>1, <2>2
<1>6. FindType(f, s) =
        IF imp # {} THEN Class(classes, CHOOSE n \in imp : TRUE)
        ELSE IF scope # {} THEN (CHOOSE m \in scope : TRUE)[3]
        ELSE IF Class(classes, <<pkg, s>>) # NoSym THEN Class(classes, <<pkg, s>>)
        ELSE IF Cardinality(demand) > 1 THEN NoSym
        ELSE IF demand # {} THEN Class(classes, <<CHOOSE p \in demand : TRUE, s>>)
        ELSE Class(classes, <<JavaLang, s>>)
  BY DEF FindType
<1> HIDE DEF pkg, imp, scope, demand
<1> QED
  BY <1>1, <1>2, <1>3, <1>4, <1>5, <1>6

(* What attr finds is counted. *)
LEMMA LostCounted ==
  ASSUME TypeOK
  PROVE  Cardinality({s \in batch[at].uses : FindType(at, s) = NoSym}) \in Nat
<1> DEFINE lost == {s \in batch[at].uses : FindType(at, s) = NoSym}
<1>1. lost \subseteq batch[at].uses /\ IsFiniteSet(batch[at].uses)
  BY Batch
<1> HIDE DEF lost
<1>2. Cardinality(lost) \in Nat
  BY <1>1, CountZero
<1> QED
  BY <1>2 DEF lost

(* What attributing a file does: the unit is lowered if nothing was found. *)
AnalyseDoes(d, new) ==
  /\ rep' = report(rep, d) /\ raised' = raised \cup new
  /\ \A x \in new : \/ x = <<at, "complete">> /\ batch[at].dupMember
                    \/ d > 0 /\ x \in {<<at, "attr">>, <<at, "flow">>, <<at, "warn">>}
  /\ \/ d > 0 /\ Advance("attr", "close")
     \/ d = 0 /\ stage' = "lower" /\ UNCHANGED at

LEMMA AnalyseFacts ==
  ASSUME TypeOK, Analyse
  PROVE  \E d \in Nat : \E new : AnalyseDoes(d, new)
<1> DEFINE lost == {s \in batch[at].uses : FindType(at, s) = NoSym}
           in(a) == a + Cardinality(lost)
           new(a, f, w) == (IF in(a) > 0 THEN {<<at, "attr">>} ELSE {})
                             \cup (IF f > 0 THEN {<<at, "flow">>} ELSE {})
                             \cup (IF w > 0 THEN {<<at, "warn">>} ELSE {})
                             \cup (IF batch[at].dupMember THEN {<<at, "complete">>} ELSE {})
<1>1. PICK a \in 0..1, f \in 0..1, w \in 0..1 :
        /\ rep' = report(rep, in(a) + f + w)
        /\ raised' = raised \cup new(a, f, w)
        /\ IF in(a) + f + w > 0 THEN Advance("attr", "close") ELSE stage' = "lower" /\ UNCHANGED at
  BY DEF Analyse
<1>2. in(a) \in Nat /\ in(a) + f + w \in Nat /\ (in(a) + f + w = 0 => in(a) = 0 /\ f = 0 /\ w = 0)
  <2>1. Cardinality(lost) \in Nat
    BY LostCounted
  <2> HIDE DEF lost
  <2> QED BY <2>1
<1> HIDE DEF lost, in
<1>3. \A x \in new(a, f, w) :
        \/ x = <<at, "complete">> /\ batch[at].dupMember
        \/ in(a) + f + w > 0 /\ x \in {<<at, "attr">>, <<at, "flow">>, <<at, "warn">>}
  BY <1>2
<1> HIDE DEF new
<1>4. AnalyseDoes(in(a) + f + w, new(a, f, w))
  BY <1>1, <1>2, <1>3 DEF AnalyseDoes
<1> QED
  BY <1>2, <1>4
-----------------------------------------------------------------------------
(* Types *)

(* What a step leaves alone keeps its type. *)
LEMMA TypesKept ==
  ASSUME TypeOK, UNCHANGED <<batch, emit>>, NEW k \in Nat, Adds(k), at' \in DOMAIN batch',
         stage' \in {"parse", "enter", "create", "attr", "lower", "write", "close", "done"},
         parsed' \subseteq DOMAIN batch,
         classes' \in [Name -> {NoSym, FromPath} \cup DOMAIN batch],
         members' \subseteq Package \X Simple \X (DOMAIN batch),
         units' \in [DOMAIN batch -> [types: SUBSET Name, single: SUBSET Name]],
         code' \in 0..3, todo' \subseteq Name, jar' \in Jar,
         found' \in [DOMAIN batch -> SUBSET (Simple \X ({NoSym, FromPath} \cup DOMAIN batch))],
         raised' \subseteq (DOMAIN batch) \X Phase, lowered' \subseteq DOMAIN batch,
         out' \in Seq(Name \X (DOMAIN batch))
  PROVE  TypeOK'
  BY DEF TypeOK, Adds, RepOK, RepType, Phase, Name

LEMMA TypeStep == TypeOK /\ Next => TypeOK'
<1> SUFFICES ASSUME TypeOK, Next PROVE TypeOK'
  OBVIOUS
<1>1. CASE PathFails
  BY <1>1, AddsNothing, TypesKept DEF TypeOK, PathFails, command, table, exitUsage
<1>2. CASE ReadFails
  <2>1. UNCHANGED batch /\ Advance("parse", "enter")
    BY <1>2 DEF ReadFails, command
  <2>2. worse(code, exitUsage) \in 0..3
    BY DEF worse, exitUsage, TypeOK
  <2> QED
    BY <1>2, <2>1, <2>2, Advances, AddsNothing, TypesKept DEF TypeOK, ReadFails, command, table
<1>3. CASE Parse
  <2>1. UNCHANGED batch /\ Advance("parse", "enter")
    BY <1>3 DEF Parse, command
  <2>2. PICK k \in 0..1 : rep' = report(rep, k) /\ Raise(at, "parse", k)
    BY <1>3 DEF Parse
  <2>3. k \in Nat /\ Adds(k)
    BY <2>2, AddsReported
  <2>4. raised' \subseteq (DOMAIN batch) \X Phase
    BY <2>2 DEF TypeOK, Raise, Phase
  <2> QED
    BY <1>3, <2>1, <2>3, <2>4, Advances, TypesKept DEF TypeOK, Parse, command, table
<1>4. CASE Enter
  <2>1. /\ UNCHANGED <<batch, emit, parsed, code, todo, jar, found, lowered, out>>
        /\ Advance("enter", "create")
    BY <1>4 DEF Enter, command
  <2>2. at' \in DOMAIN batch' /\ stage' \in {"enter", "create"}
    BY <2>1, Advances
  <2>3. CASE at \notin parsed
    <3>1. UNCHANGED <<classes, members, units, rep, raised>>
      BY <1>4, <2>3 DEF Enter, table
    <3> QED
      BY <2>1, <2>2, <3>1, AddsNothing, TypesKept DEF TypeOK, table
  <2>4. CASE at \in parsed
    <3>1. PICK ld, ts, sg : \E i, d \in Nat :
             /\ Loaded(ld) /\ DeclaresOK(at, ld, ts, d) /\ ImportsOK(at, ld, sg, i)
             /\ EnterDoes(ld, ts, sg, i + d)
      BY <1>4, <2>4, EnterFacts
    <3>2. PICK i \in Nat, d \in Nat :
             /\ Loaded(ld) /\ DeclaresOK(at, ld, ts, d) /\ ImportsOK(at, ld, sg, i)
             /\ EnterDoes(ld, ts, sg, i + d)
      BY <3>1
    <3>3. ts \subseteq Name /\ sg \subseteq Name
      BY <3>2 DEF DeclaresOK, ImportsOK
    <3>4. classes' \in [Name -> {NoSym, FromPath} \cup DOMAIN batch]
      BY <3>2, <3>3 DEF EnterDoes, Loaded, Declare, TypeOK
    <3>5. members' \subseteq Package \X Simple \X (DOMAIN batch)
      BY <3>2, <3>3 DEF EnterDoes, TypeOK, Name
    <3>6. units' \in [DOMAIN batch -> [types: SUBSET Name, single: SUBSET Name]]
      BY <3>2, <3>3 DEF EnterDoes, TypeOK
    <3>7. raised' \subseteq (DOMAIN batch) \X Phase
      BY <3>2 DEF EnterDoes, TypeOK, Raise, Phase
    <3>8. i + d \in Nat /\ Adds(i + d)
      BY <3>2, AddsReported DEF EnterDoes
    <3> QED
      BY <1>4, <2>1, <2>2, <3>4, <3>5, <3>6, <3>7, <3>8, TypesKept DEF TypeOK
  <2> QED
    BY <2>3, <2>4
<1>5. CASE Create
  <2>1. jar' \in Jar
    BY <1>5 DEF Create, Jar
  <2> QED
    BY <1>5, <2>1, AddsNothing, TypesKept DEF TypeOK, Create, command, table
<1>6. CASE CreateFails
  <2>1. code' \in 0..3
    BY <1>6 DEF CreateFails, Exit, worse, exitUsage, exitDiags
  <2> QED
    BY <1>6, <2>1, AddsNothing, TypesKept DEF TypeOK, CreateFails, Exit, command, table
<1>7. CASE Analyse
  <2>1. /\ UNCHANGED <<batch, emit, parsed, classes, members, units, code, todo, jar, lowered, out>>
        /\ found' = [found EXCEPT ![at] = {<<s, FindType(at, s)>> : s \in batch[at].uses}]
    BY <1>7 DEF Analyse, command, table
  <2> PICK d \in Nat : \E new : AnalyseDoes(d, new)
    BY <1>7, AnalyseFacts
  <2>2. PICK new : AnalyseDoes(d, new)
    OBVIOUS
  <2>3. Adds(d)
    BY <2>2, AddsReported DEF AnalyseDoes
  <2>4. at' \in DOMAIN batch' /\ stage' \in {"attr", "close", "lower"}
    BY <2>1, <2>2, Advances DEF AnalyseDoes, TypeOK
  <2>5. raised' \subseteq (DOMAIN batch) \X Phase
    <3>1. new \subseteq (DOMAIN batch) \X Phase
      BY <2>2 DEF AnalyseDoes, TypeOK, Phase
    <3> QED
      BY <2>2, <3>1 DEF AnalyseDoes, TypeOK
  <2>6. found' \in [DOMAIN batch -> SUBSET (Simple \X ({NoSym, FromPath} \cup DOMAIN batch))]
    <3>1. \A s \in batch[at].uses : s \in Simple /\ FindType(at, s) \in {NoSym, FromPath} \cup DOMAIN batch
      BY Batch, FindTyped DEF TypeOK
    <3> QED
      BY <2>1, <3>1 DEF TypeOK
  <2> QED
    BY <2>1, <2>3, <2>4, <2>5, <2>6, TypesKept DEF TypeOK, table
<1>8. CASE Skip
  <2>1. UNCHANGED batch /\ Advance("attr", "close")
    BY <1>8 DEF Skip, command
  <2> QED
    BY <1>8, <2>1, Advances, AddsNothing, TypesKept DEF TypeOK, Skip, command, table
<1>9. CASE Lower
  <2>1. UNCHANGED <<batch, emit, parsed, classes, members, units, code, jar, found, out>>
        /\ lowered' = lowered \cup {at}
    BY <1>9 DEF Lower, command, table
  <2>2. PICK k \in 0..1 :
          /\ rep' = report(rep, k) /\ Raise(at, "lower", k)
          /\ IF k > 0 THEN Advance("attr", "close") /\ todo' = {}
             ELSE stage' = "write" /\ todo' = units[at].types /\ UNCHANGED at
    BY <1>9 DEF Lower
  <2>3. k \in Nat /\ Adds(k)
    BY <2>2, AddsReported
  <2>4. at' \in DOMAIN batch' /\ stage' \in {"attr", "close", "write"}
    BY <2>1, <2>2, Advances DEF TypeOK
  <2>5. todo' \subseteq Name
    BY <2>2 DEF TypeOK
  <2>6. raised' \subseteq (DOMAIN batch) \X Phase
    BY <2>2 DEF TypeOK, Raise, Phase
  <2> QED
    BY <2>1, <2>3, <2>4, <2>5, <2>6, TypesKept DEF TypeOK, table
<1>10. CASE Written
  <2>1. UNCHANGED batch /\ Advance("attr", "close")
    BY <1>10 DEF Written, command
  <2> QED
    BY <1>10, <2>1, Advances, AddsNothing, TypesKept DEF TypeOK, Written, command, table
<1>11. CASE Close
  <2>1. PICK k \in 0..1 : Adds(k)
    BY <1>11, AddsNothing, AddsOne DEF Close
  <2>2. code' \in 0..3
    BY <1>11 DEF Close, Exit, worse, exitDiags, TypeOK
  <2>3. jar' \in Jar
    BY <1>11 DEF Close, Jar, TypeOK
  <2> QED
    BY <1>11, <2>1, <2>2, <2>3, TypesKept DEF TypeOK, Close, Exit, command, table
<1>12. CASE Panic
  <2>1. code' \in 0..3
    BY <1>12 DEF Panic, Exit, worse, exitInternal, exitDiags
  <2> QED
    BY <1>12, <2>1, AddsNothing, TypesKept DEF TypeOK, Panic, Exit, command, table
<1>13. ASSUME NEW n \in todo, Write(n) PROVE TypeOK'
  <2>1. PICK k \in 0..1 : Adds(k)
    BY <1>13, AddsNothing, AddsOne DEF Write
  <2>2. out' \in Seq(Name \X (DOMAIN batch))
    <3> DEFINE e == <<n, at>>
               S == Name \X (DOMAIN batch)
    <3>1. out' = Append(out, e) \/ out' = out
      BY <1>13 DEF Write
    <3>2. n \in Name /\ at \in DOMAIN batch
      BY DEF TypeOK
    <3>3. e \in S /\ out \in Seq(S)
      BY <3>2 DEF TypeOK
    <3> HIDE DEF e, S
    <3>4. out' \in Seq(S)
      BY <3>1, <3>3
    <3> QED
      BY <3>4 DEF S
  <2> QED
    BY <1>13, <2>1, <2>2, TypesKept DEF TypeOK, Write, command, table
<1> QED
  BY <1>1, <1>2, <1>3, <1>4, <1>5, <1>6, <1>7, <1>8, <1>9, <1>10, <1>11, <1>12, <1>13 DEF Next
-----------------------------------------------------------------------------
(* The table *)

(* Only Parse and Enter touch what the names mean. *)
Settled == UNCHANGED <<batch, parsed, classes, members, units>>

LEMMA Settles == Next => Settled \/ Parse \/ Enter
  BY DEF Next, Settled, PathFails, ReadFails, Create, CreateFails, Analyse, Skip, Lower,
     Written, Close, Panic, Write, command, table

(* No symbol of a source file is NoSym or FromPath. *)
LEMMA SourceSyms ==
  ASSUME TypeOK, NEW f \in DOMAIN batch
  PROVE  f # NoSym /\ f # FromPath /\ NoSym # FromPath /\ NoSym \notin DOMAIN batch
         /\ FromPath \notin DOMAIN batch
  BY Batch DEF NoSym, FromPath

(* Entering a file: a name keeps its source class; the file's own names are *)
(* its own.                                                                 *)
LEMMA Retables ==
  ASSUME TypeOK, NEW ld, NEW ts, NEW d, Loaded(ld), DeclaresOK(at, ld, ts, d),
         classes' = Declare(ld, at, ts)
  PROVE  /\ \A n \in Name : classes[n] \in DOMAIN batch => classes'[n] = classes[n] /\ n \notin ts
         /\ \A n \in Name : classes[n] # NoSym => classes'[n] # NoSym
         /\ \A n \in Name : n \in ts => classes'[n] = at
         /\ \A n \in Name : n \notin ts => classes'[n] = ld[n]
         /\ \A n \in Name : ld[n] # NoSym => classes'[n] # NoSym
         /\ \A n \in Name : ld[n] \in DOMAIN batch => ld[n] = classes[n]
<1>1. at \in DOMAIN batch /\ at # NoSym /\ NoSym \notin DOMAIN batch /\ FromPath \notin DOMAIN batch
  BY SourceSyms DEF TypeOK
<1>2. classes' = [n \in Name |-> IF n \in ts THEN at ELSE ld[n]]
  BY DEF Declare
<1>3. ASSUME NEW n \in Name PROVE classes'[n] = IF n \in ts THEN at ELSE ld[n]
  BY <1>2
<1>4. \A n \in Name : classes[n] \in DOMAIN batch => ld[n] = classes[n] /\ n \notin ts
  BY <1>1 DEF Loaded, DeclaresOK
<1>5. \A n \in Name : classes[n] # NoSym => ld[n] # NoSym
  BY DEF Loaded
<1>6. \A n \in Name : ld[n] \in DOMAIN batch => ld[n] = classes[n]
  BY <1>1 DEF Loaded
<1> QED
  BY <1>1, <1>3, <1>4, <1>5, <1>6

(* A declared name is declared. *)
LEMMA DeclaredAt ==
  ASSUME TypeOK, NEW f \in parsed, NEW i \in DOMAIN batch[f].types
  PROVE  f \in DeclaredIn(TypeName(f, i))
  BY DEF DeclaredIn, TypeName

LEMMA EnterGrounded ==
  ASSUME TypeOK, Grounded, Enter, at \in parsed
  PROVE  Grounded'
<1>1. PICK ld, ts, sg : \E i, d \in Nat :
         /\ Loaded(ld) /\ DeclaresOK(at, ld, ts, d) /\ ImportsOK(at, ld, sg, i)
         /\ EnterDoes(ld, ts, sg, i + d)
  BY EnterFacts
<1>2. PICK i \in Nat, d \in Nat :
         /\ Loaded(ld) /\ DeclaresOK(at, ld, ts, d) /\ ImportsOK(at, ld, sg, i)
         /\ EnterDoes(ld, ts, sg, i + d)
  BY <1>1
<1>3. UNCHANGED <<batch, parsed>> /\ at \in DOMAIN batch
  BY DEF Enter, command, TypeOK
<1>4. \A n : DeclaredIn(n)' = DeclaredIn(n)
  BY <1>3 DEF DeclaredIn
<1>5. /\ \A n \in Name : classes[n] \in DOMAIN batch => classes'[n] = classes[n] /\ n \notin ts
      /\ \A n \in Name : classes[n] # NoSym => classes'[n] # NoSym
      /\ \A n \in Name : n \in ts => classes'[n] = at
      /\ \A n \in Name : n \notin ts => classes'[n] = ld[n]
      /\ \A n \in Name : ld[n] # NoSym => classes'[n] # NoSym
      /\ \A n \in Name : ld[n] \in DOMAIN batch => ld[n] = classes[n]
  BY <1>2, Retables DEF EnterDoes
<1>6. ts \subseteq Name /\ sg \subseteq Name /\ \A n \in ts : at \in DeclaredIn(n)
  BY <1>2, DeclaredAt DEF DeclaresOK, ImportsOK
<1>7. /\ units'[at].types = ts /\ units'[at].single = sg
      /\ \A f \in DOMAIN batch : f # at => units'[f] = units[f]
      /\ \A f \in DOMAIN batch : units[f].types \subseteq Name /\ units[f].single \subseteq Name
  BY <1>2, <1>3 DEF EnterDoes, TypeOK
<1>8. at # FromPath
  BY <1>3, SourceSyms
<1>9. (\A n \in Name : classes[n] \in DOMAIN batch => classes[n] \in DeclaredIn(n))'
  BY <1>3, <1>4, <1>5, <1>6 DEF Grounded
<1>10. (\A n \in Name : classes[n] = FromPath => n \in OnPath)'
  BY <1>2, <1>5, <1>8 DEF Grounded, Loaded
<1>11. (\A m \in members : m[3] \in DeclaredIn(<<m[1], m[2]>>))'
  <2>1. \A n \in ts : n = <<n[1], n[2]>>
    BY <1>6 DEF Name
  <2>2. members' = members \cup {<<n[1], n[2], at>> : n \in ts}
    BY <1>2 DEF EnterDoes
  <2>3. \A m \in members : m[3] \in DeclaredIn(<<m[1], m[2]>>)
    BY DEF Grounded
  <2>4. ASSUME NEW m \in members'
        PROVE  m[3] \in DeclaredIn(<<m[1], m[2]>>)
    <3>1. CASE m \in members
      BY <3>1, <2>3
    <3>2. ASSUME NEW n \in ts, m = <<n[1], n[2], at>>
          PROVE  m[3] \in DeclaredIn(<<m[1], m[2]>>)
      <4>1. m[1] = n[1] /\ m[2] = n[2] /\ m[3] = at
        BY <3>2
      <4> QED
        BY <4>1, <2>1, <1>6
    <3> QED
      BY <2>2, <3>1, <3>2
  <2> QED
    BY <2>4, <1>4
<1>12. (\A f \in DOMAIN batch : \A n \in units[f].types : classes[n] = f)'
  <2> SUFFICES ASSUME NEW f \in DOMAIN batch, NEW n \in units'[f].types
               PROVE  classes'[n] = f
    BY <1>3
  <2> QED
    BY <1>5, <1>6, <1>7 DEF Grounded
<1>13. (\A f \in DOMAIN batch : \A n \in units[f].single :
          classes[n] # NoSym /\ \E j \in DOMAIN batch[f].imports : n = batch[f].imports[j])'
  <2> SUFFICES ASSUME NEW f \in DOMAIN batch, NEW n \in units'[f].single
               PROVE  classes'[n] # NoSym /\ \E j \in DOMAIN batch[f].imports : n = batch[f].imports[j]
    BY <1>3
  <2>1. CASE f = at
    BY <2>1, <1>2, <1>5, <1>6, <1>7 DEF ImportsOK
  <2>2. CASE f # at
    BY <2>2, <1>5, <1>7 DEF Grounded
  <2> QED
    BY <2>1, <2>2
<1> QED
  BY <1>9, <1>10, <1>11, <1>12, <1>13 DEF Grounded

LEMMA GroundedStep == TypeOK /\ Grounded /\ Next => Grounded'
<1> SUFFICES ASSUME TypeOK, Grounded, Next PROVE Grounded'
  OBVIOUS
<1>1. CASE Settled \/ (Enter /\ at \notin parsed)
  <2>1. UNCHANGED <<batch, parsed, classes, members, units>>
    BY <1>1 DEF Settled, Enter, command, table
  <2> QED
    BY <2>1 DEF Grounded, DeclaredIn
<1>2. CASE Parse
  <2>1. UNCHANGED <<batch, classes, members, units>> /\ parsed \subseteq parsed'
    BY <1>2 DEF Parse, command, table
  <2>2. \A n : DeclaredIn(n) \subseteq DeclaredIn(n)'
    BY <2>1 DEF DeclaredIn
  <2> QED
    BY <2>1, <2>2 DEF Grounded
<1>3. CASE Enter /\ at \in parsed
  BY <1>3, EnterGrounded
<1> QED
  BY <1>1, <1>2, <1>3, Settles

(* Entering a file leaves the files behind it as they were. *)
LEMMA EnterWell ==
  ASSUME TypeOK, EnteredWell, Enter
  PROVE  EnteredWell'
<1>1. UNCHANGED <<batch, parsed>> /\ stage = "enter" /\ Advance("enter", "create")
  BY DEF Enter, command
<1>2. \/ at < Len(batch) /\ at' = at + 1 /\ stage' = "enter"
      \/ at = Len(batch) /\ at' = 1 /\ stage' = "create"
  BY <1>1, Advances
<1>3. \A f \in parsed : Entered(f)' => Entered(f) \/ f = at
  BY <1>1, <1>2, Batch DEF Entered, TypeOK
<1>4. CASE at \notin parsed
  <2>1. UNCHANGED <<classes, units, raised>>
    BY <1>4 DEF Enter, table
  <2> QED
    BY <1>1, <1>3, <1>4, <2>1 DEF EnteredWell, TypeName
<1>5. CASE at \in parsed
  <2>1. PICK ld, ts, sg : \E i, d \in Nat :
           /\ Loaded(ld) /\ DeclaresOK(at, ld, ts, d) /\ ImportsOK(at, ld, sg, i)
           /\ EnterDoes(ld, ts, sg, i + d)
    BY <1>5, EnterFacts
  <2>2. PICK i \in Nat, d \in Nat :
           /\ Loaded(ld) /\ DeclaresOK(at, ld, ts, d) /\ ImportsOK(at, ld, sg, i)
           /\ EnterDoes(ld, ts, sg, i + d)
    BY <2>1
  <2>3. /\ \A n \in Name : classes[n] \in DOMAIN batch => classes'[n] = classes[n] /\ n \notin ts
        /\ \A n \in Name : n \in ts => classes'[n] = at
        /\ \A n \in Name : n \notin ts => classes'[n] = ld[n]
        /\ \A n \in Name : ld[n] \in DOMAIN batch => ld[n] = classes[n]
    BY <2>2, Retables DEF EnterDoes
  <2>4. parsed \subseteq DOMAIN batch /\ at \in DOMAIN batch
    BY DEF TypeOK
  <2>5. /\ units'[at].types = ts /\ units'[at].single = sg
        /\ \A f \in DOMAIN batch : f # at => units'[f] = units[f]
    BY <2>2, <2>4 DEF EnterDoes, TypeOK
  <2>6. raised \subseteq raised' /\ (<<at, "enter">> \notin raised' => i = 0 /\ d = 0)
    BY <2>2 DEF EnterDoes, Raise
  <2> SUFFICES ASSUME NEW f \in parsed, Entered(f)'
               PROVE  /\ \A j \in DOMAIN batch[f].types : classes'[TypeName(f, j)] \in DOMAIN batch
                      /\ <<f, "enter">> \notin raised' =>
                           /\ \A j \in DOMAIN batch[f].types : TypeName(f, j) \in units'[f].types
                           /\ \A j \in DOMAIN batch[f].imports :
                                \E n \in units'[f].single : n[2] = batch[f].imports[j][2]
    BY <1>1 DEF EnteredWell, TypeName
  <2>7. \A j \in DOMAIN batch[f].types : TypeName(f, j) \in Name
    BY <2>4, Names
  <2>8. CASE f = at
    <3>1. \A j \in DOMAIN batch[f].types : classes'[TypeName(f, j)] \in DOMAIN batch
      BY <2>2, <2>3, <2>4, <2>7, <2>8 DEF DeclaresOK
    <3>2. <<f, "enter">> \notin raised' =>
            \A j \in DOMAIN batch[f].types : TypeName(f, j) \in units'[f].types
      BY <2>2, <2>5, <2>6, <2>8 DEF DeclaresOK
    <3>3. <<f, "enter">> \notin raised' =>
            \A j \in DOMAIN batch[f].imports : \E n \in units'[f].single : n[2] = batch[f].imports[j][2]
      BY <2>2, <2>5, <2>6, <2>8 DEF ImportsOK
    <3> QED
      BY <3>1, <3>2, <3>3
  <2>9. CASE f # at
    <3>1. Entered(f) /\ units'[f] = units[f]
      BY <1>3, <2>4, <2>5, <2>9
    <3> QED
      BY <3>1, <2>3, <2>6, <2>7 DEF EnteredWell
  <2> QED
    BY <2>8, <2>9
<1> QED
  BY <1>4, <1>5

LEMMA EnteredStep == TypeOK /\ TypeOK' /\ EnteredWell /\ Next => EnteredWell'
<1> SUFFICES ASSUME TypeOK, TypeOK', EnteredWell, Next PROVE EnteredWell'
  OBVIOUS
<1>1. CASE Enter
  BY <1>1, EnterWell
<1>2. CASE PathFails \/ CreateFails \/ Close \/ Panic
  <2>1. stage' = "done"
    BY <1>2 DEF PathFails, CreateFails, Close, Panic, Exit
  <2> QED
    BY <2>1 DEF EnteredWell, Entered
<1>3. CASE ReadFails \/ Parse
  <2>1. UNCHANGED batch /\ Advance("parse", "enter")
    BY <1>3 DEF ReadFails, Parse, command
  <2>2. stage' = "parse" \/ (stage' = "enter" /\ at' = 1)
    BY <2>1, Advances
  <2>3. \A f \in parsed' : f \in Nat /\ ~(f < 1)
    BY <2>1, Batch DEF TypeOK
  <2> QED
    BY <2>2, <2>3 DEF EnteredWell, Entered
<1>4. CASE Create \/ Analyse \/ Skip \/ Lower \/ Written \/ (\E n \in todo : Write(n))
  <2>1. stage \in {"create", "attr", "lower", "write"} /\ raised \subseteq raised'
    BY <1>4 DEF Create, Analyse, Skip, Lower, Written, Write, Raise
  <2>2. UNCHANGED <<batch, parsed, classes, units>>
    BY <1>4 DEF Create, Analyse, Skip, Lower, Written, Write, command, table
  <2>3. \A f \in parsed : Entered(f)
    BY <2>1 DEF Entered
  <2> QED
    BY <2>1, <2>2, <2>3 DEF EnteredWell, TypeName
<1> QED
  BY <1>1, <1>2, <1>3, <1>4 DEF Next
-----------------------------------------------------------------------------
(* What is written *)

(* One more entry in out. *)
LEMMA Appended ==
  ASSUME TypeOK, NEW n \in Name, out' = Append(out, <<n, at>>)
  PROVE  /\ Len(out) + 1 \in DOMAIN out'
         /\ out'[Len(out) + 1][1] = n /\ out'[Len(out) + 1][2] = at
         /\ \A k \in DOMAIN out : k \in DOMAIN out' /\ out'[k] = out[k] /\ k # Len(out) + 1
         /\ \A k \in DOMAIN out' : k \in DOMAIN out \/ k = Len(out) + 1
<1> DEFINE e == <<n, at>>
           S == Name \X (DOMAIN batch)
<1>1. e \in S /\ out \in Seq(S) /\ e[1] = n /\ e[2] = at
  BY DEF TypeOK
<1> HIDE DEF e, S
<1>2. /\ DOMAIN out = 1..Len(out) /\ Len(out) \in Nat
      /\ Append(out, e) \in Seq(S) /\ Len(Append(out, e)) = Len(out) + 1
      /\ Append(out, e)[Len(out) + 1] = e
      /\ \A k \in 1..Len(out) : Append(out, e)[k] = out[k]
  BY <1>1
<1>3. DOMAIN Append(out, e) = 1..(Len(out) + 1)
  BY <1>2
<1>4. out' = Append(out, e)
  BY DEF e
<1> QED
  BY <1>1, <1>2, <1>3, <1>4

(* What lowering a file does. *)
LowerDoes(k) ==
  /\ rep' = report(rep, k) /\ Raise(at, "lower", k)
  /\ \/ k = 1 /\ Advance("attr", "close") /\ todo' = {}
     \/ k = 0 /\ stage' = "write" /\ todo' = units[at].types /\ UNCHANGED at

LEMMA LowerFacts ==
  ASSUME Lower
  PROVE  \E k \in 0..1 : LowerDoes(k)
<1>1. PICK k \in 0..1 :
        /\ rep' = report(rep, k) /\ Raise(at, "lower", k)
        /\ IF k > 0 THEN Advance("attr", "close") /\ todo' = {}
           ELSE stage' = "write" /\ todo' = units[at].types /\ UNCHANGED at
  BY DEF Lower
<1> QED
  BY <1>1 DEF LowerDoes

(* The loop moves on to the next file, or is over: a file it left is        *)
(* behind it.                                                               *)
LEMMA LoopAdvances ==
  ASSUME TypeOK, Advance("attr", "close"), UNCHANGED batch
  PROVE  /\ stage' = "attr" \/ stage' = "close"
         /\ stage' = "attr" => \A f \in DOMAIN batch : f < at' <=> f <= at
         /\ stage' = "close" => at = Len(batch)
<1>1. \/ at < Len(batch) /\ at' = at + 1 /\ stage' = "attr"
      \/ at = Len(batch) /\ at' = 1 /\ stage' = "close"
  BY Advances
<1>2. at \in Nat /\ \A f \in DOMAIN batch : f \in Nat
  BY Batch
<1> QED
  BY <1>1, <1>2

Four == {"attr", "flow", "warn", "lower"}

LEMMA BehindStep == TypeOK /\ Behind /\ Next => Behind'
<1> SUFFICES ASSUME TypeOK, Behind, Next PROVE Behind'
  OBVIOUS
<1>1. /\ \A k \in DOMAIN out : out[k][2] \in DOMAIN batch /\ out[k][2] \in Nat
      /\ \A x \in raised : x[1] \in DOMAIN batch /\ x[1] \in Nat
      /\ at \in DOMAIN batch /\ at \in Nat
  <2>1. \A k \in DOMAIN out : out[k] \in Name \X (DOMAIN batch)
    BY DEF TypeOK
  <2> QED
    BY <2>1, Batch DEF TypeOK
<1>2. CASE PathFails \/ CreateFails \/ Close \/ Panic
  <2>1. stage' = "done" /\ UNCHANGED <<batch, units, out, raised, found>>
    BY <1>2 DEF PathFails, CreateFails, Close, Panic, Exit, command, table
  <2>2. stage' \notin Early \cup Loop /\ stage' # "write" /\ stage' # "create"
    BY <2>1 DEF Early, Loop
  <2> QED
    BY <2>1, <2>2 DEF Behind
<1>3. CASE ReadFails \/ Parse \/ Enter
  <2>1. /\ stage \in Early /\ UNCHANGED <<batch, out, found>>
        /\ Advance("parse", "enter") \/ Advance("enter", "create")
    BY <1>3 DEF ReadFails, Parse, Enter, Early, command
  <2>2. stage' \in Early /\ (stage' = "create" => at' = 1)
    BY <2>1, Advances DEF Early
  <2>3. \A x \in raised' : x[2] \notin Four
    <3>1. \A x \in raised : x[2] \notin Four
      BY <2>1 DEF Behind, Four
    <3>2. \A x \in raised' : x \in raised \/ x = <<at, "parse">> \/ x = <<at, "enter">>
      BY <1>3 DEF ReadFails, Parse, Enter, Raise
    <3> QED
      BY <3>1, <3>2 DEF Four
  <2>4. stage' \notin Loop /\ stage' # "write"
    BY <2>2 DEF Early, Loop
  <2>5. DOMAIN out' = {}
    BY <2>1 DEF Behind
  <2> QED
    BY <2>1, <2>2, <2>3, <2>4, <2>5 DEF Behind, Four
<1>4. CASE Create
  <2>1. stage = "create" /\ stage' = "attr" /\ UNCHANGED <<batch, out, raised>>
    BY <1>4 DEF Create, command
  <2>2. DOMAIN out' = {} /\ \A x \in raised' : x[2] \notin Four
    BY <2>1 DEF Behind, Four, Early
  <2> QED
    BY <2>1, <2>2 DEF Behind, Four, Early, Loop
<1>5. CASE Analyse
  <2>1. stage = "attr" /\ UNCHANGED <<batch, units, out, todo>>
    BY <1>5 DEF Analyse, command, table
  <2> PICK d \in Nat : \E new : AnalyseDoes(d, new)
    BY <1>5, AnalyseFacts
  <2>2. PICK new : AnalyseDoes(d, new)
    OBVIOUS
  <2>3. /\ \A k \in DOMAIN out : out[k][1] \in units[out[k][2]].types /\ out[k][2] < at
        /\ \A x \in raised : x[2] \in Four => x[1] < at
    BY <2>1 DEF Behind, Loop, Four
  <2>4. CASE d > 0 /\ Advance("attr", "close")
    <3>1. /\ stage' = "attr" \/ stage' = "close"
          /\ stage' = "attr" => \A f \in DOMAIN batch : f < at' <=> f <= at
      BY <2>1, <2>4, LoopAdvances
    <3>2. \A x \in raised' : x[2] \in Four => x[1] \in DOMAIN batch /\ x[1] <= at
      <4>1. \A x \in new : x[1] = at
        BY <2>2 DEF AnalyseDoes
      <4> QED
        BY <4>1, <2>2, <2>3, <1>1 DEF AnalyseDoes
    <3>3. \A k \in DOMAIN out : out[k][2] <= at
      BY <2>3, <1>1
    <3> QED
      BY <1>1, <2>1, <2>3, <3>1, <3>2, <3>3 DEF Behind, Early, Loop, Four
  <2>5. CASE d = 0 /\ stage' = "lower" /\ UNCHANGED at
    <3>1. \A x \in new : x[2] \notin Four
      BY <2>2, <2>5 DEF AnalyseDoes, Four
    <3>2. \A x \in raised' : x[2] \in Four => x[1] < at
      BY <3>1, <2>2, <2>3 DEF AnalyseDoes
    <3> QED
      BY <2>1, <2>3, <2>5, <3>2 DEF Behind, Early, Loop, Four
  <2> QED
    BY <2>2, <2>4, <2>5 DEF AnalyseDoes
<1>6. CASE Skip \/ Written
  <2>1. /\ stage \in {"attr", "write"} /\ UNCHANGED <<batch, units, out, raised>>
        /\ Advance("attr", "close")
    BY <1>6 DEF Skip, Written, command, table
  <2>2. /\ stage' = "attr" \/ stage' = "close"
        /\ stage' = "attr" => \A f \in DOMAIN batch : f < at' <=> f <= at
    BY <2>1, LoopAdvances
  <2>3. /\ \A k \in DOMAIN out : out[k][1] \in units[out[k][2]].types /\ out[k][2] <= at
        /\ \A x \in raised : x[2] \in Four => x[1] <= at
    BY <1>1, <2>1 DEF Behind, Loop, Four
  <2> QED
    BY <1>1, <2>1, <2>2, <2>3 DEF Behind, Early, Loop, Four
<1>7. CASE Lower
  <2>1. stage = "lower" /\ UNCHANGED <<batch, units, out>>
    BY <1>7 DEF Lower, command, table
  <2>2. PICK k \in 0..1 : LowerDoes(k)
    BY <1>7, LowerFacts
  <2>3. /\ \A j \in DOMAIN out : out[j][1] \in units[out[j][2]].types /\ out[j][2] < at
        /\ \A x \in raised : x[2] \in Four => x[1] < at
    BY <2>1 DEF Behind, Loop, Four
  <2>4. CASE k = 1 /\ Advance("attr", "close")
    <3>1. /\ stage' = "attr" \/ stage' = "close"
          /\ stage' = "attr" => \A f \in DOMAIN batch : f < at' <=> f <= at
      BY <2>1, <2>4, LoopAdvances
    <3>2. \A x \in raised' : x[2] \in Four => x[1] \in DOMAIN batch /\ x[1] <= at
      BY <2>2, <2>3, <1>1 DEF LowerDoes, Raise
    <3>3. \A j \in DOMAIN out : out[j][2] <= at
      BY <2>3, <1>1
    <3> QED
      BY <1>1, <2>1, <2>3, <3>1, <3>2, <3>3 DEF Behind, Early, Loop, Four
  <2>5. CASE k = 0 /\ stage' = "write" /\ todo' = units[at].types /\ UNCHANGED at
    <3>1. raised' = raised
      BY <2>2, <2>5 DEF LowerDoes, Raise
    <3> QED
      BY <2>1, <2>3, <2>5, <3>1 DEF Behind, Early, Loop, Four
  <2> QED
    BY <2>2, <2>4, <2>5 DEF LowerDoes
<1>8. ASSUME NEW n \in todo, Write(n) PROVE Behind'
  <2>1. /\ stage = "write" /\ todo' = todo \ {n}
        /\ UNCHANGED <<batch, units, stage, at, raised, found>>
        /\ out' = Append(out, <<n, at>>) \/ out' = out
    BY <1>8 DEF Write, command, table
  <2>2. n \in units[at].types /\ n \in Name
    BY <2>1 DEF Behind, TypeOK
  <2>3. \A k \in DOMAIN out :
          /\ out[k][1] \in units[out[k][2]].types
          /\ out[k][2] < at \/ (out[k][2] = at /\ out[k][1] \notin todo')
    BY <2>1 DEF Behind, Loop
  <2>4. \A k \in DOMAIN out' :
          /\ out'[k][1] \in units[out'[k][2]].types
          /\ out'[k][2] < at \/ (out'[k][2] = at /\ out'[k][1] \notin todo')
    <3>1. CASE out' = out
      BY <3>1, <2>3
    <3>2. CASE out' = Append(out, <<n, at>>)
      BY <3>2, <2>1, <2>2, <2>3, Appended
    <3> QED
      BY <2>1, <3>1, <3>2
  <2> QED
    BY <2>1, <2>4 DEF Behind, Early, Loop
<1> QED
  BY <1>2, <1>3, <1>4, <1>5, <1>6, <1>7, <1>8 DEF Next

(* What was written stays, and nothing else is. *)
LEMMA WritesOnly == Next => UNCHANGED out \/ \E n \in todo : Write(n)
  BY DEF Next, PathFails, ReadFails, Parse, Enter, Create, CreateFails, Analyse, Skip, Lower,
     Written, Close, Panic

(* The diagnostics of a step. *)
LEMMA RaisesAt ==
  ASSUME TypeOK, Next
  PROVE  /\ raised \subseteq raised'
         /\ \A x \in raised' : x \in raised \/ x[2] \notin Four \/ (x[1] = at /\ stage \in {"attr", "lower"})
<1>1. CASE Parse \/ Enter
  <2>1. \A x \in raised' : x \in raised \/ x = <<at, "parse">> \/ x = <<at, "enter">>
    BY <1>1 DEF Parse, Enter, Raise
  <2>2. raised \subseteq raised'
    BY <1>1 DEF Parse, Enter, Raise
  <2> QED
    BY <2>1, <2>2 DEF Four
<1>2. CASE Analyse
  <2> PICK d \in Nat : \E new : AnalyseDoes(d, new)
    BY <1>2, AnalyseFacts
  <2>1. PICK new : AnalyseDoes(d, new)
    OBVIOUS
  <2>2. stage = "attr" /\ \A x \in new : x[1] = at
    BY <1>2, <2>1 DEF Analyse, AnalyseDoes
  <2> QED
    BY <2>1, <2>2 DEF AnalyseDoes
<1>3. CASE Lower
  BY <1>3, LowerFacts DEF Lower, LowerDoes, Raise
<1>4. CASE UNCHANGED raised
  BY <1>4
<1>5. PathFails \/ ReadFails \/ Create \/ CreateFails \/ Skip \/ Written \/ Close \/ Panic
        \/ (\E n \in todo : Write(n)) => UNCHANGED raised
  BY DEF PathFails, ReadFails, Create, CreateFails, Skip, Written, Close, Panic, Write
<1> QED
  BY <1>1, <1>2, <1>3, <1>4, <1>5 DEF Next

LEMMA ClobberStep == TypeOK /\ Grounded /\ Behind /\ NoClobber /\ Next => NoClobber'
<1> SUFFICES ASSUME TypeOK, Grounded, Behind, NoClobber, Next PROVE NoClobber'
  OBVIOUS
<1>1. /\ raised \subseteq raised'
      /\ \A x \in raised' : x \in raised \/ x[2] \notin Four \/ (x[1] = at /\ stage \in {"attr", "lower"})
  BY RaisesAt
<1>2. \A k \in DOMAIN out : out[k][1] \in Name /\ out[k][2] \in DOMAIN batch /\ out[k][2] \in Nat
  <2>1. \A k \in DOMAIN out : out[k] \in Name \X (DOMAIN batch)
    BY DEF TypeOK
  <2> QED
    BY <2>1, Batch
<1>3. at \in Nat /\ at \in DOMAIN batch
  BY Batch DEF TypeOK
<1>4. CASE UNCHANGED out
  <2>1. \A k \in DOMAIN out : \A p \in Four : <<out[k][2], p>> \notin raised'
    <3> SUFFICES ASSUME NEW k \in DOMAIN out, NEW p \in Four, <<out[k][2], p>> \in raised'
                 PROVE  FALSE
      OBVIOUS
    <3>1. <<out[k][2], p>> \notin raised
      BY DEF NoClobber, Four
    <3>2. out[k][2] = at /\ stage \in {"attr", "lower"}
      BY <1>1, <3>1
    <3>3. out[k][2] < at
      BY <3>2 DEF Behind, Loop
    <3> QED
      BY <3>2, <3>3, <1>3
  <2> QED
    BY <1>4, <2>1 DEF NoClobber, Four
<1>5. ASSUME NEW n \in todo, Write(n) PROVE NoClobber'
  <2>1. stage = "write" /\ UNCHANGED raised /\ (out' = Append(out, <<n, at>>) \/ out' = out)
    BY <1>5 DEF Write
  <2>2. n \in units[at].types /\ n \in Name /\ classes[n] = at
    BY <2>1, <1>3 DEF Behind, TypeOK, Grounded
  <2>3. \A k \in DOMAIN out : out[k][1] # n
    <3> SUFFICES ASSUME NEW k \in DOMAIN out, out[k][1] = n
                 PROVE  FALSE
      OBVIOUS
    <3>1. classes[n] = out[k][2]
      BY <1>2 DEF Behind, Grounded
    <3>2. out[k][2] < at \/ (out[k][2] = at /\ out[k][1] \notin todo)
      BY <2>1 DEF Behind, Loop
    <3> QED
      BY <3>1, <3>2, <2>2, <1>3
  <2>4. \A p \in Four : <<at, p>> \notin raised
    <3> SUFFICES ASSUME NEW p \in Four, <<at, p>> \in raised PROVE FALSE
      OBVIOUS
    <3> PICK x \in raised : x[1] = at /\ x[2] = p
      OBVIOUS
    <3>1. x[1] < at
      BY <2>1 DEF Behind, Loop, Four
    <3> QED
      BY <3>1, <1>3
  <2>5. CASE out' = Append(out, <<n, at>>)
    <3>1. /\ out'[Len(out) + 1][1] = n /\ out'[Len(out) + 1][2] = at
          /\ \A k \in DOMAIN out : k \in DOMAIN out' /\ out'[k] = out[k] /\ k # Len(out) + 1
          /\ \A k \in DOMAIN out' : k \in DOMAIN out \/ k = Len(out) + 1
      BY <2>2, <2>5, Appended
    <3>2. \A j, k \in DOMAIN out' : out'[j][1] = out'[k][1] => j = k
      BY <3>1, <2>3 DEF NoClobber
    <3>3. \A k \in DOMAIN out' : \A p \in Four : <<out'[k][2], p>> \notin raised
      BY <3>1, <2>4 DEF NoClobber, Four
    <3> QED
      BY <3>2, <3>3, <2>1 DEF NoClobber, Four
  <2> QED
    BY <2>1, <2>5, <1>4
<1> QED
  BY <1>4, <1>5, WritesOnly
-----------------------------------------------------------------------------
(* The exit status *)

(* A step counts what it finds. *)
LEMMA StepAdds ==
  ASSUME TypeOK, Next
  PROVE  \E k \in Nat : Adds(k)
<1>1. CASE UNCHANGED rep
  BY <1>1, AddsNothing
<1>2. ASSUME NEW k \in Nat, rep' = report(rep, k) PROVE \E j \in Nat : Adds(j)
  BY <1>2, AddsReported
<1>3. CASE rep' = [rep EXCEPT !.errors = rep.errors + 1]
  BY <1>3, AddsOne
<1>4. CASE Parse
  BY <1>4, <1>2 DEF Parse
<1>5. CASE Enter
  <2>1. CASE at \in parsed
    <3>1. PICK ld, ts, sg : \E i, d \in Nat : EnterDoes(ld, ts, sg, i + d)
      BY <1>5, <2>1, EnterFacts
    <3>2. PICK i \in Nat, d \in Nat : EnterDoes(ld, ts, sg, i + d)
      BY <3>1
    <3> QED
      BY <3>2, <1>2 DEF EnterDoes
  <2>2. CASE at \notin parsed
    BY <1>5, <2>2, <1>1 DEF Enter
  <2> QED
    BY <2>1, <2>2
<1>6. CASE Analyse
  BY <1>6, <1>2, AnalyseFacts DEF AnalyseDoes
<1>7. CASE Lower
  BY <1>7, <1>2, LowerFacts DEF LowerDoes
<1>8. CASE Close \/ \E n \in todo : Write(n)
  BY <1>8, <1>1, <1>3 DEF Close, Write
<1>9. PathFails \/ ReadFails \/ Create \/ CreateFails \/ Skip \/ Written \/ Panic => UNCHANGED rep
  BY DEF PathFails, ReadFails, Create, CreateFails, Skip, Written, Panic
<1> QED
  BY <1>1, <1>4, <1>5, <1>6, <1>7, <1>8, <1>9 DEF Next

(* The counters are naturals. *)
LEMMA RepNats ==
  ASSUME TypeOK
  PROVE  rep.reported \in Nat /\ rep.suppressed \in Nat /\ rep.errors \in Nat
  BY DEF TypeOK

LEMMA CountedStep == TypeOK /\ Counted /\ Next => Counted'
<1> SUFFICES ASSUME TypeOK, Counted, Next PROVE Counted'
  OBVIOUS
<1>1. PICK k \in Nat : Adds(k)
  BY StepAdds
<1>2. rep'.reported \in Nat /\ rep'.suppressed \in Nat /\ rep'.errors \in Nat
  BY <1>1 DEF Adds, RepOK, RepType
<1> QED
  BY <1>1, <1>2, RepNats DEF Adds, Counted

(* What went wrong is never forgotten. *)
LEMMA StaysFlawed ==
  ASSUME TypeOK, Next, Flawless'
  PROVE  /\ Flawless /\ ~PathFails /\ ~ReadFails /\ ~CreateFails /\ ~Panic
         /\ \A k \in Nat : Adds(k) => k = 0
<1>1. PICK k \in Nat : Adds(k)
  BY StepAdds
<1>2. rep.errors = 0 /\ \A j \in Nat : Adds(j) => j = 0
  BY <1>1, RepNats DEF Adds, Flawless
<1>3. code' = 0 /\ code \in 0..3
  BY DEF Flawless, exitOK, TypeOK
<1>4. ~PathFails /\ ~ReadFails /\ ~CreateFails /\ ~Panic
  BY <1>3 DEF PathFails, ReadFails, CreateFails, Panic, Exit, worse, exitUsage, exitDiags, exitInternal
<1>5. code = 0
  <2>1. CASE Close
    BY <2>1, <1>3 DEF Close, Exit, worse, exitDiags
  <2>2. CASE ~Close
    <3>1. UNCHANGED code
      BY <2>2, <1>4 DEF Next, Parse, Enter, Create, Analyse, Skip, Lower, Written, Write
    <3> QED
      BY <3>1, <1>3
  <2> QED
    BY <2>1, <2>2
<1> QED
  BY <1>2, <1>4, <1>5 DEF Flawless, exitOK

(* A flawless step raises nothing but what nobody reads. *)
LEMMA FlawlessRaises ==
  ASSUME TypeOK, Next, Flawless'
  PROVE  \A x \in raised' : x \in raised \/ (x = <<at, "complete">> /\ batch[at].dupMember)
<1>1. \A k \in Nat : Adds(k) => k = 0
  BY StaysFlawed
<1>2. CASE Parse
  <2>1. PICK k \in 0..1 : rep' = report(rep, k) /\ Raise(at, "parse", k)
    BY <1>2 DEF Parse
  <2>2. k = 0
    BY <2>1, <1>1, AddsReported
  <2> QED
    BY <2>1, <2>2 DEF Raise
<1>3. CASE Enter
  <2>1. CASE at \in parsed
    <3>1. PICK ld, ts, sg : \E i, d \in Nat : EnterDoes(ld, ts, sg, i + d)
      BY <1>3, <2>1, EnterFacts
    <3>2. PICK i \in Nat, d \in Nat : EnterDoes(ld, ts, sg, i + d)
      BY <3>1
    <3>3. i + d = 0
      BY <3>2, <1>1, AddsReported DEF EnterDoes
    <3> QED
      BY <3>2, <3>3 DEF EnterDoes, Raise
  <2>2. CASE at \notin parsed
    BY <1>3, <2>2 DEF Enter
  <2> QED
    BY <2>1, <2>2
<1>4. CASE Analyse
  <2> PICK d \in Nat : \E new : AnalyseDoes(d, new)
    BY <1>4, AnalyseFacts
  <2>1. PICK new : AnalyseDoes(d, new)
    OBVIOUS
  <2>2. d = 0
    BY <2>1, <1>1, AddsReported DEF AnalyseDoes
  <2> QED
    BY <2>1, <2>2 DEF AnalyseDoes
<1>5. CASE Lower
  <2>1. PICK k \in 0..1 : LowerDoes(k)
    BY <1>5, LowerFacts
  <2>2. k = 0
    BY <2>1, <1>1, AddsReported DEF LowerDoes
  <2> QED
    BY <2>1, <2>2 DEF LowerDoes, Raise
<1>6. PathFails \/ ReadFails \/ Create \/ CreateFails \/ Skip \/ Written \/ Close \/ Panic
        \/ (\E n \in todo : Write(n)) => UNCHANGED raised
  BY DEF PathFails, ReadFails, Create, CreateFails, Skip, Written, Close, Panic, Write
<1> QED
  BY <1>2, <1>3, <1>4, <1>5, <1>6 DEF Next

(* What was written is written. *)
LEMMA WroteStays ==
  ASSUME TypeOK, Next, NEW n, Wrote(n)
  PROVE  Wrote(n)'
<1>1. CASE UNCHANGED out
  BY <1>1 DEF Wrote
<1>2. ASSUME NEW m \in todo, Write(m) PROVE Wrote(n)'
  <2>1. m \in Name /\ (out' = Append(out, <<m, at>>) \/ out' = out)
    BY <1>2 DEF Write, TypeOK
  <2> QED
    BY <1>1, <2>1, Appended DEF Wrote
<1> QED
  BY <1>1, <1>2, WritesOnly

LEMMA WholeStep == TypeOK /\ Behind /\ Whole /\ Next => Whole'
<1> SUFFICES ASSUME TypeOK, Behind, Whole, Next, Flawless' PROVE Whole'
  BY DEF Whole
<1>1. Flawless /\ ~PathFails /\ ~ReadFails /\ ~CreateFails /\ ~Panic /\ \A k \in Nat : Adds(k) => k = 0
  BY StaysFlawed
<1>2. /\ stage = "parse" => \A f \in DOMAIN batch : f < at => f \in parsed
      /\ stage \notin {"parse", "done"} => parsed = DOMAIN batch
      /\ \A x \in raised : x[2] = "complete" /\ batch[x[1]].dupMember
      /\ \A f \in DOMAIN batch : Handled(f) => f \in lowered /\ \A n \in units[f].types : Wrote(n)
      /\ stage = "write" => at \in lowered /\ \A n \in units[at].types : n \in todo \/ Wrote(n)
  BY <1>1 DEF Whole
<1>3. UNCHANGED batch
  BY DEF Next, PathFails, ReadFails, Parse, Enter, Create, CreateFails, Analyse, Skip, Lower,
     Written, Write, Close, Panic, command
<1>4. \A x \in raised' : x[2] = "complete" /\ batch'[x[1]].dupMember
  BY <1>2, <1>3, FlawlessRaises
<1>5. at \in DOMAIN batch /\ at \in Nat /\ DOMAIN batch = 1..Len(batch) /\ \A f \in DOMAIN batch : f \in Nat
  BY Batch
<1>6. CASE Parse
  <2>1. stage = "parse" /\ parsed' = parsed \cup {at} /\ Advance("parse", "enter")
    BY <1>6 DEF Parse
  <2>2. \/ at < Len(batch) /\ at' = at + 1 /\ stage' = "parse"
        \/ at = Len(batch) /\ at' = 1 /\ stage' = "enter"
    BY <1>3, <2>1, Advances
  <2>3. stage' = "parse" => \A f \in DOMAIN batch' : f < at' => f \in parsed'
    BY <1>2, <1>3, <1>5, <2>1, <2>2
  <2>4. stage' = "enter" => parsed' = DOMAIN batch'
    <3>1. parsed \subseteq DOMAIN batch
      BY DEF TypeOK
    <3>2. stage' = "enter" => \A f \in DOMAIN batch : f < at \/ f = at
      BY <1>5, <2>2
    <3> QED
      BY <1>2, <1>3, <1>5, <2>1, <3>1, <3>2
  <2>5. stage' \in {"parse", "enter"} /\ \A f : ~Handled(f)'
    BY <2>2 DEF Handled, Loop
  <2> QED
    BY <1>4, <2>3, <2>4, <2>5 DEF Whole
<1>7. CASE Enter
  <2>1. stage = "enter" /\ UNCHANGED parsed /\ Advance("enter", "create")
    BY <1>7 DEF Enter
  <2>2. stage' \in {"enter", "create"}
    BY <1>3, <2>1, Advances
  <2>3. \A f : ~Handled(f)'
    BY <2>2 DEF Handled, Loop
  <2> QED
    BY <1>2, <1>3, <1>4, <2>1, <2>2, <2>3 DEF Whole
<1>8. CASE Create
  <2>1. stage = "create" /\ stage' = "attr" /\ UNCHANGED <<at, parsed, units>> /\ at = 1
    BY <1>8 DEF Create, table, Behind
  <2>2. \A f \in DOMAIN batch' : ~Handled(f)'
    BY <1>3, <1>5, <2>1 DEF Handled, Loop
  <2> QED
    BY <1>2, <1>3, <1>4, <2>1, <2>2 DEF Whole
<1>9. CASE Analyse
  <2>1. stage = "attr" /\ UNCHANGED <<parsed, units, lowered>>
    BY <1>9 DEF Analyse, table
  <2> PICK d \in Nat : \E new : AnalyseDoes(d, new)
    BY <1>9, AnalyseFacts
  <2>2. PICK new : AnalyseDoes(d, new)
    OBVIOUS
  <2>3. d = 0
    BY <2>2, <1>1, AddsReported DEF AnalyseDoes
  <2>4. stage' = "lower" /\ at' = at
    BY <2>2, <2>3 DEF AnalyseDoes
  <2>5. \A f \in DOMAIN batch : Handled(f)' => Handled(f)
    BY <2>1, <2>4 DEF Handled, Loop
  <2> QED
    BY <1>2, <1>3, <1>4, <2>1, <2>4, <2>5, WroteStays DEF Whole
<1>10. CASE Skip
  BY <1>2, <1>5, <1>10 DEF Skip
<1>11. CASE Lower
  <2>1. stage = "lower" /\ UNCHANGED <<parsed, units>> /\ lowered' = lowered \cup {at}
    BY <1>11 DEF Lower, table
  <2>2. PICK k \in 0..1 : LowerDoes(k)
    BY <1>11, LowerFacts
  <2>3. k = 0
    BY <2>2, <1>1, AddsReported DEF LowerDoes
  <2>4. stage' = "write" /\ todo' = units[at].types /\ at' = at
    BY <2>2, <2>3 DEF LowerDoes
  <2>5. \A f \in DOMAIN batch : Handled(f)' => Handled(f)
    BY <2>1, <2>4 DEF Handled, Loop
  <2> QED
    BY <1>2, <1>3, <1>4, <2>1, <2>4, <2>5, WroteStays DEF Whole
<1>12. ASSUME NEW n \in todo, Write(n) PROVE Whole'
  <2>1. stage = "write" /\ todo' = todo \ {n} /\ UNCHANGED <<stage, at, parsed, units, lowered>>
    BY <1>12 DEF Write, table
  <2>2. out' = Append(out, <<n, at>>)
    <3>1. ~(rep' = [rep EXCEPT !.errors = rep.errors + 1])
      BY <1>1, AddsOne
    <3> QED
      BY <1>12, <3>1 DEF Write
  <2>3. Wrote(n)'
    <3>1. n \in Name
      BY DEF TypeOK
    <3> QED
      BY <2>2, <3>1, Appended DEF Wrote
  <2>4. \A f \in DOMAIN batch : Handled(f)' => Handled(f)
    BY <2>1 DEF Handled
  <2>5. \A m \in units[at].types : m \in todo' \/ Wrote(m)'
    BY <1>2, <2>1, <2>3, WroteStays
  <2> QED
    BY <1>2, <1>3, <1>4, <2>1, <2>4, <2>5, WroteStays DEF Whole
<1>13. CASE Written
  <2>1. stage = "write" /\ todo = {} /\ UNCHANGED <<parsed, units, lowered>> /\ Advance("attr", "close")
    BY <1>13 DEF Written, table
  <2>2. /\ stage' = "attr" \/ stage' = "close"
        /\ stage' = "attr" => \A f \in DOMAIN batch : f < at' <=> f <= at
        /\ stage' = "close" => at = Len(batch)
    BY <1>3, <2>1, LoopAdvances
  <2>3. \A f \in DOMAIN batch : Handled(f)' => Handled(f) \/ f = at
    BY <1>5, <2>1, <2>2 DEF Handled, Loop
  <2> QED
    BY <1>2, <1>3, <1>4, <2>1, <2>2, <2>3, WroteStays DEF Whole
<1>14. CASE Close
  <2>1. stage' = "done"
    BY <1>14 DEF Close, Exit
  <2>2. \A f : ~Handled(f)'
    BY <2>1 DEF Handled, Loop
  <2> QED
    BY <1>4, <2>1, <2>2 DEF Whole
<1> QED
  BY <1>1, <1>6, <1>7, <1>8, <1>9, <1>10, <1>11, <1>12, <1>13, <1>14 DEF Next

LEMMA HonestStep ==
  TypeOK /\ TypeOK' /\ EnteredWell /\ Whole /\ Counted' /\ Next => ExitIsHonest'
<1> SUFFICES ASSUME TypeOK, TypeOK', EnteredWell, Whole, Counted', Next, Done', code' = exitOK
             PROVE  ExitIsHonest'
  BY DEF ExitIsHonest
<1>1. stage' = "done" /\ code' = 0 /\ code \in 0..3
  BY DEF Done, exitOK, TypeOK
<1>2. Close
  <2>1. ~PathFails /\ ~CreateFails /\ ~Panic
    BY <1>1 DEF PathFails, CreateFails, Panic, Exit, worse, exitUsage, exitDiags, exitInternal
  <2>2. Advance("parse", "enter") \/ Advance("enter", "create") \/ Advance("attr", "close")
          => stage' # "done"
    BY DEF Advance
  <2>3. ~ReadFails /\ ~Parse /\ ~Enter /\ ~Create /\ ~Skip /\ ~Written
    BY <1>1, <2>2 DEF ReadFails, Parse, Enter, Create, Skip, Written
  <2>4. ~Analyse /\ ~Lower /\ ~(\E n \in todo : Write(n))
    BY <1>1, <2>2, AnalyseFacts, LowerFacts DEF AnalyseDoes, LowerDoes, Write
  <2> QED
    BY <2>1, <2>3, <2>4 DEF Next
<1>3. rep'.errors = 0
  <2>1. rep'.errors \in Nat
    BY DEF TypeOK
  <2> QED
    BY <1>1, <1>2, <2>1 DEF Close, Exit, worse, exitDiags
<1>4. Flawless'
  BY <1>1, <1>3 DEF Flawless, exitOK
<1>5. Flawless /\ \A k \in Nat : Adds(k) => k = 0
  BY <1>4, StaysFlawed
<1>6. emit' = "jar" => jar' \in {"closed", "unflushed"}
  <2>1. ~(rep' = [rep EXCEPT !.errors = rep.errors + 1])
    BY <1>5, AddsOne
  <2> QED
    BY <1>2, <2>1 DEF Close, command
<1>7. rep'.reported + rep'.suppressed = 0
  <2>1. rep'.reported \in Nat /\ rep'.suppressed \in Nat
    BY DEF TypeOK
  <2> QED
    BY <1>3, <2>1 DEF Counted
<1>8. stage = "close" /\ UNCHANGED <<batch, parsed, units, raised, lowered, out>>
  BY <1>2 DEF Close, command, table
<1>9. /\ parsed = DOMAIN batch /\ \A x \in raised : x[2] = "complete" /\ batch[x[1]].dupMember
      /\ \A f \in DOMAIN batch : f \in lowered /\ \A n \in units[f].types : Wrote(n)
  BY <1>5, <1>8 DEF Whole, Handled
<1>10. lowered = DOMAIN batch
  BY <1>9 DEF TypeOK
<1>11. ASSUME NEW f \in DOMAIN batch, NEW i \in DOMAIN batch[f].types
       PROVE  \E k \in DOMAIN out : out[k][1] = <<batch[f].pkg, batch[f].types[i]>>
  <2>1. <<f, "enter">> \notin raised
    BY <1>9
  <2>2. TypeName(f, i) \in units[f].types
    BY <1>8, <1>9, <2>1 DEF EnteredWell, Entered
  <2> QED
    BY <1>9, <2>2 DEF Wrote, TypeName
<1> QED
  BY <1>6, <1>7, <1>8, <1>9, <1>10, <1>11 DEF ExitIsHonest
-----------------------------------------------------------------------------
(* What names mean *)

(* Once every file is entered the table knows exactly the classes that      *)
(* exist, and the source's before the class path's.                         *)
LEMMA TableMeans ==
  ASSUME TypeOK, Grounded, EnteredWell, stage = "attr", NEW n \in Name
  PROVE  /\ Class(classes, n) # NoSym <=> Exists(n)
         /\ Class(classes, n) # NoSym => Class(classes, n) \in Owners(n)
<1>1. classes[n] \in {NoSym, FromPath} \cup DOMAIN batch
  BY DEF TypeOK
<1>2. NoSym # FromPath /\ NoSym \notin DOMAIN batch /\ FromPath \notin DOMAIN batch
  BY SourceSyms DEF TypeOK
<1>3. CASE DeclaredIn(n) # {}
  <2>1. PICK f \in parsed : batch[f].pkg = n[1] /\ \E i \in DOMAIN batch[f].types : batch[f].types[i] = n[2]
    BY <1>3 DEF DeclaredIn
  <2>2. PICK i \in DOMAIN batch[f].types : batch[f].types[i] = n[2]
    BY <2>1
  <2>3. TypeName(f, i) = n
    BY <2>1, <2>2 DEF TypeName, Name
  <2>4. classes[n] \in DOMAIN batch
    BY <2>3 DEF EnteredWell, Entered
  <2>5. classes[n] \in DeclaredIn(n) /\ Class(classes, n) = classes[n]
    BY <2>4, <1>2 DEF Grounded, Class
  <2> QED
    BY <1>2, <1>3, <2>4, <2>5 DEF Exists, Owners
<1>4. CASE DeclaredIn(n) = {}
  <2>1. classes[n] \notin DOMAIN batch
    BY <1>4 DEF Grounded
  <2>2. classes[n] = FromPath => n \in OnPath
    BY DEF Grounded
  <2>3. Class(classes, n) = IF n \in OnPath THEN FromPath ELSE NoSym
    BY <1>1, <1>2, <2>1, <2>2 DEF Class
  <2> QED
    BY <1>2, <1>4, <2>3 DEF Exists, Owners
<1> QED
  BY <1>3, <1>4

(* In a file that entered cleanly FindType finds what JLS 6.5.5 says, or a  *)
(* name that hides java.lang's.                                             *)
LEMMA FindMeans ==
  ASSUME TypeOK, Grounded, EnteredWell, stage = "attr", NEW f \in parsed,
         <<f, "enter">> \notin raised, NEW s \in Simple
  PROVE  FindType(f, s) \in Meaning(f, s) \cup HidingLang(f, s)
<1> DEFINE pkg == batch[f].pkg
           imp == {n \in units[f].single : n[2] = s}
           scope == {m \in members : m[1] = pkg /\ m[2] = s}
           demand == {p \in batch[f].onDemand : Class(classes, <<p, s>>) # NoSym}
           jimp == {i \in DOMAIN batch[f].imports : batch[f].imports[i][2] = s}
           jdemand == Having(batch[f].onDemand, s)
           all == Having(batch[f].onDemand \cup {JavaLang}, s)
<1>0. f \in DOMAIN batch
  BY DEF TypeOK
<1>1. pkg \in Package /\ batch[f].onDemand \subseteq Package /\ JavaLang \in Package
  BY <1>0, Batch, DriverAssumption DEF DriverAssumption
<1>2. \A p \in Package :
        /\ Class(classes, <<p, s>>) # NoSym <=> Exists(<<p, s>>)
        /\ Class(classes, <<p, s>>) # NoSym => Class(classes, <<p, s>>) \in Owners(<<p, s>>)
  BY TableMeans DEF Name
<1>3. demand = jdemand
  BY <1>1, <1>2 DEF Having
<1>3a. IsFiniteSet(demand)
  <2>1. IsFiniteSet(batch[f].onDemand)
    BY <1>0, DriverAssumption DEF DriverAssumption, TypeOK
  <2> QED
    BY <2>1, FS_Subset
<1>3b. all = demand \cup (IF Exists(<<JavaLang, s>>) THEN {JavaLang} ELSE {})
  BY <1>1, <1>2 DEF Having
<1>4. imp # {} <=> jimp # {}
  <2>1. ASSUME NEW n \in imp PROVE jimp # {}
    <3>1. PICK i \in DOMAIN batch[f].imports : n = batch[f].imports[i]
      BY <1>0 DEF Grounded
    <3> QED
      BY <3>1
  <2>2. ASSUME NEW i \in jimp PROVE imp # {}
    <3>1. PICK n \in units[f].single : n[2] = batch[f].imports[i][2]
      BY DEF EnteredWell, Entered
    <3> QED
      BY <3>1
  <2> QED
    BY <2>1, <2>2
<1>5. ASSUME imp # {}
      PROVE  Class(classes, CHOOSE n \in imp : TRUE) \in UNION {Owners(batch[f].imports[i]) : i \in jimp}
  <2> PICK n : n = (CHOOSE x \in imp : TRUE)
    OBVIOUS
  <2>1. n \in imp
    BY <1>5
  <2>2. n \in units[f].single /\ n[2] = s /\ n \in Name
    BY <2>1, <1>0 DEF TypeOK
  <2>3. PICK i \in DOMAIN batch[f].imports : n = batch[f].imports[i]
    BY <2>2, <1>0 DEF Grounded
  <2>4. classes[n] # NoSym
    BY <2>2, <1>0 DEF Grounded
  <2>5. Class(classes, n) \in Owners(n)
    BY <2>2, <2>4, TableMeans DEF Class
  <2>6. i \in jimp
    BY <2>2, <2>3
  <2> QED
    BY <2>3, <2>5, <2>6
<1>6. ASSUME scope # {}
      PROVE  /\ (CHOOSE m \in scope : TRUE)[3] \in Owners(<<pkg, s>>)
             /\ Exists(<<pkg, s>>)
  <2> PICK m : m = (CHOOSE x \in scope : TRUE)
    OBVIOUS
  <2>1. m \in members /\ m[1] = pkg /\ m[2] = s
    BY <1>6
  <2>2. m[3] \in DeclaredIn(<<pkg, s>>)
    BY <2>1 DEF Grounded
  <2> QED
    BY <2>2 DEF Owners, Exists
<1>7. ASSUME demand # {}
      PROVE  /\ (CHOOSE p \in demand : TRUE) \in demand
             /\ Class(classes, <<CHOOSE p \in demand : TRUE, s>>) \in
                  UNION {Owners(<<p, s>>) : p \in demand}
  <2> PICK p : p = (CHOOSE x \in demand : TRUE)
    OBVIOUS
  <2>1. p \in demand /\ p \in Package
    BY <1>1, <1>7
  <2>2. Class(classes, <<p, s>>) \in Owners(<<p, s>>)
    BY <2>1, <1>2
  <2> QED
    BY <2>1, <2>2
<1>8. FindType(f, s) =
        IF imp # {} THEN Class(classes, CHOOSE n \in imp : TRUE)
        ELSE IF scope # {} THEN (CHOOSE m \in scope : TRUE)[3]
        ELSE IF Class(classes, <<pkg, s>>) # NoSym THEN Class(classes, <<pkg, s>>)
        ELSE IF Cardinality(demand) > 1 THEN NoSym
        ELSE IF demand # {} THEN Class(classes, <<CHOOSE p \in demand : TRUE, s>>)
        ELSE Class(classes, <<JavaLang, s>>)
  BY DEF FindType
<1>9. Meaning(f, s) =
        IF jimp # {} THEN UNION {Owners(batch[f].imports[i]) : i \in jimp}
        ELSE IF Exists(<<pkg, s>>) THEN Owners(<<pkg, s>>)
        ELSE IF \E p \in all : all = {p} THEN UNION {Owners(<<p, s>>) : p \in all}
        ELSE {NoSym}
  BY DEF Meaning
<1>9a. HidingLang(f, s) =
         IF Meaning(f, s) = {NoSym} /\ Exists(<<JavaLang, s>>) /\ \E p \in demand : demand = {p}
         THEN UNION {Owners(<<p, s>>) : p \in demand} ELSE {}
  BY <1>3 DEF HidingLang
<1> HIDE DEF pkg, imp, scope, demand, jimp, jdemand, all
<1>10. CASE imp # {}
  BY <1>4, <1>5, <1>8, <1>9, <1>10
<1>11. CASE imp = {} /\ scope # {}
  BY <1>4, <1>6, <1>8, <1>9, <1>11
<1>12. CASE imp = {} /\ scope = {} /\ Class(classes, <<pkg, s>>) # NoSym
  BY <1>1, <1>2, <1>4, <1>8, <1>9, <1>12
<1>13. CASE imp = {} /\ scope = {} /\ Class(classes, <<pkg, s>>) = NoSym
  <2>1. jimp = {} /\ ~Exists(<<pkg, s>>)
    BY <1>1, <1>2, <1>4, <1>13
  <2>2. CASE Cardinality(demand) > 1
    <3>1. ~(\E p : all = {p})
      <4> SUFFICES ASSUME NEW p, all = {p} PROVE FALSE
        OBVIOUS
      <4>1. demand \subseteq {p}
        BY <1>3b
      <4>2. Cardinality(demand) <= Cardinality({p}) /\ Cardinality({p}) = 1
        BY <4>1, FS_Subset, FS_Singleton
      <4>3. Cardinality(demand) \in Nat
        BY <1>3a, FS_CardinalityType
      <4> QED
        BY <2>2, <4>2, <4>3
    <3> QED
      BY <1>8, <1>9, <1>13, <2>1, <2>2, <3>1
  <2>3. CASE ~(Cardinality(demand) > 1) /\ demand # {}
    <3>1. PICK p : demand = {p}
      <4>1. Cardinality(demand) \in Nat /\ Cardinality(demand) # 0
        BY <1>3a, <2>3, FS_CardinalityType, FS_EmptySet
      <4>2. Cardinality(demand) = 1
        BY <2>3, <4>1
      <4> QED
        BY <1>3a, <4>2, FS_Singleton
    <3>2. FindType(f, s) \in UNION {Owners(<<x, s>>) : x \in demand}
      BY <1>7, <1>8, <1>13, <2>3
    <3>3. CASE Exists(<<JavaLang, s>>) /\ p # JavaLang
      <4>1. all = {p, JavaLang}
        BY <1>3b, <3>1, <3>3
      <4>2. Meaning(f, s) = {NoSym}
        BY <1>9, <2>1, <3>3, <4>1
      <4>3. HidingLang(f, s) = UNION {Owners(<<x, s>>) : x \in demand}
        BY <1>9a, <3>1, <3>3, <4>2
      <4> QED
        BY <3>2, <4>3
    <3>4. CASE ~(Exists(<<JavaLang, s>>) /\ p # JavaLang)
      <4>1. all = demand
        BY <1>3b, <3>1, <3>4
      <4>2. Meaning(f, s) = UNION {Owners(<<x, s>>) : x \in demand}
        BY <1>9, <2>1, <3>1, <4>1
      <4> QED
        BY <3>2, <4>2
    <3> QED
      BY <3>3, <3>4
  <2>4. CASE ~(Cardinality(demand) > 1) /\ demand = {}
    <3>1. FindType(f, s) = Class(classes, <<JavaLang, s>>)
      BY <1>8, <1>13, <2>4
    <3>2. CASE Exists(<<JavaLang, s>>)
      <4>1. all = {JavaLang}
        BY <1>3b, <2>4, <3>2
      <4>2. Meaning(f, s) = Owners(<<JavaLang, s>>)
        BY <1>9, <2>1, <4>1
      <4> QED
        BY <1>1, <1>2, <3>1, <3>2, <4>2
    <3>3. CASE ~Exists(<<JavaLang, s>>)
      <4>1. all = {}
        BY <1>3b, <2>4, <3>3
      <4>2. Meaning(f, s) = {NoSym}
        BY <1>9, <2>1, <4>1
      <4> QED
        BY <1>1, <1>2, <3>1, <3>3, <4>2
    <3> QED
      BY <3>2, <3>3
  <2> QED
    BY <2>2, <2>3, <2>4
<1> QED
  BY <1>10, <1>11, <1>12, <1>13

LEMMA NamesStep ==
  TypeOK /\ Grounded /\ EnteredWell /\ Behind /\ NamesMeanJLS /\ Next => NamesMeanJLS'
<1> SUFFICES ASSUME TypeOK, Grounded, EnteredWell, Behind, NamesMeanJLS, Next
             PROVE  NamesMeanJLS'
  OBVIOUS
<1>1. raised \subseteq raised'
  BY RaisesAt
<1>2. CASE Parse
  <2>1. UNCHANGED <<batch, found>> /\ stage \in Early
    BY <1>2 DEF Parse, command, Early
  <2>2. \A f \in DOMAIN batch' : found'[f] = {}
    BY <2>1 DEF Behind
  <2> QED
    BY <2>2 DEF NamesMeanJLS
<1>3. CASE ~Parse
  <2>1. UNCHANGED <<batch, parsed>>
    BY <1>3, Settles DEF Settled, Enter, command
  <2>2. ASSUME NEW f, NEW s
        PROVE  Meaning(f, s)' = Meaning(f, s) /\ HidingLang(f, s)' = HidingLang(f, s)
    <3>1. Meaning(f, s)' = Meaning(f, s)
      BY <2>1 DEF Meaning, Having, Exists, Owners, DeclaredIn
    <3> QED
      BY <2>1, <3>1 DEF HidingLang, Having, Exists, Owners, DeclaredIn
  <2>3. CASE UNCHANGED found
    BY <1>1, <2>1, <2>2, <2>3 DEF NamesMeanJLS
  <2>4. CASE Analyse
    <3>1. /\ stage = "attr" /\ at \in parsed /\ at \in DOMAIN batch
          /\ found' = [found EXCEPT ![at] = {<<s, FindType(at, s)>> : s \in batch[at].uses}]
      BY <2>4 DEF Analyse, TypeOK
    <3>2. found \in [DOMAIN batch -> SUBSET (Simple \X ({NoSym, FromPath} \cup DOMAIN batch))]
      BY DEF TypeOK
    <3>3. batch[at].uses \subseteq Simple
      BY <3>1, Batch
    <3> SUFFICES ASSUME NEW f \in DOMAIN batch, <<f, "enter">> \notin raised', NEW x \in found'[f]
                 PROVE  x[2] \in Meaning(f, x[1]) \cup HidingLang(f, x[1])
      BY <2>1, <2>2 DEF NamesMeanJLS
    <3>4. CASE f # at
      BY <1>1, <3>1, <3>2, <3>4 DEF NamesMeanJLS
    <3>5. CASE f = at
      <4>1. PICK s \in batch[at].uses : x = <<s, FindType(at, s)>>
        BY <3>1, <3>2, <3>5
      <4>2. FindType(at, s) \in Meaning(at, s) \cup HidingLang(at, s)
        BY <1>1, <3>1, <3>3, <3>5, FindMeans
      <4> QED
        BY <3>5, <4>1, <4>2
    <3> QED
      BY <3>4, <3>5
  <2>5. ~Analyse => UNCHANGED found
    BY DEF Next, PathFails, ReadFails, Parse, Enter, Create, CreateFails, Skip, Lower, Written,
       Write, Close, Panic
  <2> QED
    BY <2>3, <2>4, <2>5
<1> QED
  BY <1>2, <1>3
-----------------------------------------------------------------------------
LEMMA InitDriver == Init => DriverInv
<1> SUFFICES ASSUME Init PROVE DriverInv
  OBVIOUS
<1>1. batch \in Seq(File) /\ batch # <<>>
  BY DriverAssumption DEF Init, DriverAssumption
<1>2. 1 \in DOMAIN batch
  BY <1>1
<1>3. TypeOK
  <2>1. rep \in [reported: Nat, suppressed: Nat, errors: Nat] /\ (MaxErrors > 0 => rep.reported <= MaxErrors)
    BY DriverAssumption DEF Init, DriverAssumption
  <2>2. out \in Seq(Name \X (DOMAIN batch))
    BY DEF Init
  <2> QED
    BY <1>2, <2>1, <2>2 DEF Init, TypeOK, Jar, NoUnit, exitOK
<1>4. NoSym # FromPath /\ NoSym \notin DOMAIN batch
  BY <1>2, <1>3, SourceSyms
<1>5. Grounded
  BY <1>4 DEF Init, Grounded, NoUnit
<1>6. EnteredWell
  BY DEF Init, EnteredWell
<1>7. DOMAIN out = {}
  BY DEF Init
<1>8. Behind /\ NoClobber
  BY <1>7 DEF Init, Behind, NoClobber, Early, Loop
<1>9. Whole
  <2>1. \A f \in DOMAIN batch : ~(f < 1)
    BY <1>3, Batch
  <2> QED
    BY <2>1 DEF Init, Whole, Handled, Loop
<1>10. Counted /\ ExitIsHonest /\ NamesMeanJLS
  BY DEF Init, Counted, ExitIsHonest, Done, NamesMeanJLS
<1> QED
  BY <1>3, <1>5, <1>6, <1>8, <1>9, <1>10 DEF DriverInv

LEMMA NextDriver == DriverInv /\ [Next]_vars => DriverInv'
<1> SUFFICES ASSUME DriverInv, [Next]_vars PROVE DriverInv'
  OBVIOUS
<1>1. CASE Next
  <2>1. TypeOK'
    BY <1>1, TypeStep DEF DriverInv
  <2>2. Grounded' /\ EnteredWell' /\ Behind'
    BY <1>1, <2>1, GroundedStep, EnteredStep, BehindStep DEF DriverInv
  <2>3. NoClobber' /\ Whole' /\ Counted'
    BY <1>1, ClobberStep, WholeStep, CountedStep DEF DriverInv
  <2>4. ExitIsHonest' /\ NamesMeanJLS'
    BY <1>1, <2>1, <2>3, HonestStep, NamesStep DEF DriverInv
  <2> QED
    BY <2>1, <2>2, <2>3, <2>4 DEF DriverInv
<1>2. CASE UNCHANGED vars
  <2>1. TypeOK' /\ Grounded' /\ EnteredWell'
    <3>1. TypeOK'
      BY <1>2 DEF vars, DriverInv, TypeOK
    <3>2. Grounded'
      BY <1>2 DEF vars, DriverInv, Grounded, DeclaredIn
    <3>3. EnteredWell'
      BY <1>2 DEF vars, DriverInv, EnteredWell, Entered, TypeName
    <3> QED
      BY <3>1, <3>2, <3>3
  <2>2. Behind' /\ NoClobber' /\ Whole' /\ Counted'
    BY <1>2 DEF vars, DriverInv, Behind, NoClobber, Whole, Flawless, Handled, Wrote, Counted
  <2>3. ExitIsHonest'
    BY <1>2 DEF vars, DriverInv, ExitIsHonest, Done
  <2>4. NamesMeanJLS'
    <3>1. ASSUME NEW f, NEW s
          PROVE  Meaning(f, s)' = Meaning(f, s) /\ HidingLang(f, s)' = HidingLang(f, s)
      <4>1. Meaning(f, s)' = Meaning(f, s)
        BY <1>2 DEF vars, Meaning, Having, Exists, Owners, DeclaredIn
      <4> QED
        BY <1>2, <4>1 DEF vars, HidingLang, Having, Exists, Owners, DeclaredIn
    <3> QED
      BY <1>2, <3>1 DEF vars, DriverInv, NamesMeanJLS
  <2> QED
    BY <2>1, <2>2, <2>3, <2>4 DEF DriverInv
<1> QED
  BY <1>1, <1>2

(* Every reachable state has the types TypeOK gives: the reporter never     *)
(* shows more than --max-errors and its counters never go below zero        *)
(* (reporter.report), and every stage is at a file of the batch (buildAll). *)
THEOREM DriverTypes == Spec => []TypeOK
<1>1. DriverInv => TypeOK
  BY DEF DriverInv
<1> QED
  BY InitDriver, NextDriver, <1>1, PTL DEF Spec

(* Exit status 0 means that every file was read and lowered, every class    *)
(* declared was written, the jar is complete and no phase complained, for   *)
(* every batch, limit and fault; a member declared twice and a jar whose    *)
(* file fails to close are the two errors the code loses (buildAll, build,  *)
(* reporter.report).                                                        *)
THEOREM StatusIsHonest == Spec => []ExitIsHonest
<1>1. DriverInv => ExitIsHonest
  BY DEF DriverInv
<1> QED
  BY InitDriver, NextDriver, <1>1, PTL DEF Spec

(* No class file is written twice, whatever the files of a batch declare,   *)
(* and none of a unit that a phase complained about (typeDecl, Declare,     *)
(* buildAll).                                                               *)
THEOREM NothingClobbered == Spec => []NoClobber
<1>1. DriverInv => NoClobber
  BY DEF DriverInv
<1> QED
  BY InitDriver, NextDriver, <1>1, PTL DEF Spec

(* In a file that entered cleanly every simple name is resolved as JLS      *)
(* 6.5.5 says, java.lang being imported on demand like any other package,   *)
(* whatever the order of the batch; only a name that one other package      *)
(* imported on demand shares with java.lang is that package's instead of    *)
(* ambiguous (Enter, Declare, FindType).                                    *)
THEOREM NamesResolve == Spec => []NamesMeanJLS
<1>1. DriverInv => NamesMeanJLS
  BY DEF DriverInv
<1> QED
  BY InitDriver, NextDriver, <1>1, PTL DEF Spec
=============================================================================
