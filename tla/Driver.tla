-------------------------------- MODULE Driver --------------------------------
(***************************************************************************)
(* mocha build (src/cmd/mocha/main.go): buildAll takes a batch of files     *)
(* through parse, enter, attr, flow, warn and lower with one symbol table,  *)
(* and writes class files or a jar.  Entering and resolving names           *)
(* (src/sym/enter.go, unit.go, table.go) is modelled in full for top-level  *)
(* types; what the parser, flow, warn and lower find wrong with a unit is   *)
(* a free choice, and so is what the file system refuses.                   *)
(*                                                                         *)
(* A binary name is a pair <<package, simple name>>.  A symbol is the index *)
(* of the file that declares it, or FromPath for a class file's.            *)
(***************************************************************************)
EXTENDS Integers, Sequences, FiniteSets

CONSTANTS
  Package, Simple,
  JavaLang,   \* the package every unit imports on demand
  OnPath,     \* binary names the class path defines
  Batches,    \* the batches to build: sequences of files
  MaxErrors,  \* --max-errors, 0 for unlimited
  Emits,      \* --emit: "class", "jar"
  Faults      \* what may go wrong outside: "path", "read", "create", "write", "panic"

Name     == Package \X Simple
FromPath == -1
NoSym    == 0

(* A file: its package, the types it declares in order, its single-type     *)
(* imports in order, its on-demand imports, the simple names it uses, and   *)
(* whether one of its classes declares a member twice.                      *)
File == [pkg: Package, types: Seq(Simple), imports: Seq(Name), onDemand: SUBSET Package,
         uses: SUBSET Simple, dupMember: BOOLEAN]

ASSUME DriverAssumption ==
  /\ JavaLang \in Package /\ OnPath \subseteq Name
  /\ Batches \subseteq Seq(File) /\ MaxErrors \in Nat
  /\ \A b \in Batches : b # <<>> /\ \A f \in DOMAIN b : IsFiniteSet(b[f].uses)
                                                      /\ IsFiniteSet(b[f].onDemand)
  /\ Emits \subseteq {"class", "jar"} /\ Faults \subseteq {"path", "read", "create", "write", "panic"}

VARIABLES
  batch, emit,  \* the command line
  stage,        \* "parse", "enter", "create", "attr", "write", "close" or "done"
  at,           \* the file the stage is at
  parsed,       \* indices of the files that could be read
  classes,      \* sym.Table.classes
  members,      \* types in the packages' scopes: <<package, simple, file>>
  units,        \* the sym.Unit of each file: its Types and single imports
  rep,          \* the reporter's counters
  code,         \* buildAll's result so far, then the exit code
  todo,         \* lowered classes not yet written
  jar,          \* "none", "open", "closed", "torn" or "unflushed"
  found,        \* history: what attr resolved each used name to
  raised,       \* history: <<file, stage>> of every diagnostic a phase made
  lowered,      \* history: files that were lowered
  out           \* history: <<name, file>> of the classes written, in order

vars == <<batch, emit, stage, at, parsed, classes, members, units, rep, code, todo, jar,
          found, raised, lowered, out>>

exitOK == 0
exitDiags == 1
exitUsage == 2
exitInternal == 3
worse(a, b) == IF b > a THEN b ELSE a

NoUnit == [types |-> {}, single |-> {}]

Init ==
  /\ batch \in Batches /\ emit \in Emits
  /\ stage = "parse" /\ at = 1 /\ parsed = {}
  /\ classes = [n \in Name |-> NoSym] /\ members = {}
  /\ units = [f \in DOMAIN batch |-> NoUnit]
  /\ rep = [reported |-> 0, suppressed |-> 0, errors |-> 0]
  /\ code = exitOK /\ todo = {} /\ jar = "none"
  /\ found = [f \in DOMAIN batch |-> {}] /\ raised = {} /\ lowered = {} /\ out = <<>>

command == <<batch, emit>>
table   == <<classes, members, units>>
-----------------------------------------------------------------------------
(* reporter.report, for k diagnostics: every one of them is an error.       *)

report(r, k) ==
  LET shown == IF MaxErrors = 0 \/ r.reported + k <= MaxErrors THEN k ELSE MaxErrors - r.reported
  IN  [reported |-> r.reported + shown, suppressed |-> r.suppressed + k - shown,
       errors |-> r.errors + k]

Raise(f, phase, k) == raised' = raised \cup (IF k > 0 THEN {<<f, phase>>} ELSE {})

(* The next file of a loop, or the stage after it. *)
Advance(here, next) ==
  IF at < Len(batch) THEN at' = at + 1 /\ stage' = here ELSE at' = 1 /\ stage' = next
-----------------------------------------------------------------------------
(* parseAll *)

(* A --classpath or --lib entry cannot be opened: newClasspath gives up. *)
PathFails ==
  /\ stage = "parse" /\ at = 1 /\ "path" \in Faults /\ stage' = "done" /\ code' = exitUsage
  /\ UNCHANGED <<command, at, parsed, table, rep, todo, jar, found, raised, lowered, out>>

(* Mutant of ReadFails: a file that cannot be read is passed over. *)
ReadFailsQuiet ==
  /\ stage = "parse" /\ "read" \in Faults /\ Advance("parse", "enter")
  /\ UNCHANGED <<command, parsed, table, rep, code, todo, jar, found, raised, lowered, out>>

ReadFails ==
  /\ stage = "parse" /\ "read" \in Faults
  /\ code' = worse(code, exitUsage) /\ Advance("parse", "enter")
  /\ UNCHANGED <<command, parsed, table, rep, todo, jar, found, raised, lowered, out>>

Parse ==
  /\ stage = "parse" /\ parsed' = parsed \cup {at} /\ Advance("parse", "enter")
  /\ \E k \in 0..1 : rep' = report(rep, k) /\ Raise(at, "parse", k)
  /\ UNCHANGED <<command, table, code, todo, jar, found, lowered, out>>
-----------------------------------------------------------------------------
(* sym.Enter *)

(* Table.Class: what is known, else a stub for what is on the path. *)
Class(cs, n) == IF cs[n] # NoSym THEN cs[n] ELSE IF n \in OnPath THEN FromPath ELSE NoSym
Stubs(cs, ns) == [n \in Name |-> IF n \in ns THEN Class(cs, n) ELSE cs[n]]

(* Imports are taken in order: a name that cannot be resolved, or whose     *)
(* simple name another import has taken, is reported and dropped.           *)
Imported(f, cs) ==
  LET imps == batch[f].imports
      known(i) == Class(cs, imps[i]) # NoSym
      first(i) == \A j \in 1..(i - 1) : known(j) => imps[j][2] # imps[i][2]
      taken(i) == \E j \in 1..(i - 1) : /\ known(j) /\ first(j)
                                        /\ imps[j][2] = imps[i][2] /\ imps[j] # imps[i]
  IN  [single |-> {imps[i] : i \in {j \in DOMAIN imps : known(j) /\ first(j)}},
       diags  |-> Cardinality({i \in DOMAIN imps : ~known(i) \/ taken(i)})]

(* Mutant of Declared: a duplicate takes the name over. *)
DeclaredTwice(f, cs) ==
  [types |-> {<<batch[f].pkg, batch[f].types[i]>> : i \in DOMAIN batch[f].types}, diags |-> 0]

(* typeDecl of the unit's top-level types: Declare refuses a name that a    *)
(* source file has declared, and replaces a class file's stub.              *)
Declared(f, cs) ==
  LET ts == batch[f].types
      fresh(i) == /\ cs[<<batch[f].pkg, ts[i]>>] \in {NoSym, FromPath}
                  /\ \A j \in 1..(i - 1) : ts[j] # ts[i]
  IN  [types |-> {<<batch[f].pkg, ts[i]>> : i \in {j \in DOMAIN ts : fresh(j)}},
       diags |-> Cardinality({i \in DOMAIN ts : ~fresh(i)})]

(* Mutant of Declare: the stub of a class file stays. *)
DeclareBehindStub(cs, f, ns) ==
  [n \in Name |-> IF n \in ns /\ cs[n] = NoSym THEN f ELSE cs[n]]

Declare(cs, f, ns) == [n \in Name |-> IF n \in ns THEN f ELSE cs[n]]

Enter ==
  /\ stage = "enter" /\ Advance("enter", "create")
  /\ IF at \notin parsed THEN UNCHANGED <<table, rep, raised>>
     ELSE LET names == {batch[at].imports[i] : i \in DOMAIN batch[at].imports}
              imp == Imported(at, classes)
              loaded == Stubs(classes, names)
              dec == Declared(at, loaded)
              diags == imp.diags + dec.diags
          IN  /\ classes' = Declare(loaded, at, dec.types)
              /\ members' = members \cup {<<n[1], n[2], at>> : n \in dec.types}
              /\ units' = [units EXCEPT ![at] = [types |-> dec.types, single |-> imp.single]]
              /\ rep' = report(rep, diags) /\ Raise(at, "enter", diags)
  /\ UNCHANGED <<command, parsed, code, todo, jar, found, lowered, out>>

Create ==
  /\ stage = "create" /\ stage' = "attr" /\ jar' = IF emit = "jar" THEN "open" ELSE "none"
  /\ UNCHANGED <<command, at, parsed, table, rep, code, todo, found, raised, lowered, out>>

Exit(c) == stage' = "done" /\ code' = IF rep'.errors > 0 THEN worse(c, exitDiags) ELSE c

CreateFails ==
  /\ stage = "create" /\ emit = "jar" /\ "create" \in Faults
  /\ UNCHANGED rep /\ Exit(exitUsage)
  /\ UNCHANGED <<command, at, parsed, table, todo, jar, found, raised, lowered, out>>
-----------------------------------------------------------------------------
(* attr, flow, warn, lower *)

(* The stubs that looking a name up leaves in the table change no later     *)
(* answer once every file is entered, and are left out.                     *)
(*                                                                         *)
(* Unit.FindType: a single-type import, the unit's package (its scope, then *)
(* the table), the on-demand imports unless two of them have it, java.lang. *)
FindType(f, s) ==
  LET pkg     == batch[f].pkg
      imp     == {n \in units[f].single : n[2] = s}
      scope   == {m \in members : m[1] = pkg /\ m[2] = s}
      demand  == {p \in batch[f].onDemand : Class(classes, <<p, s>>) # NoSym}
  IN  IF imp # {} THEN Class(classes, CHOOSE n \in imp : TRUE)
      ELSE IF scope # {} THEN (CHOOSE m \in scope : TRUE)[3]
      ELSE IF Class(classes, <<pkg, s>>) # NoSym THEN Class(classes, <<pkg, s>>)
      ELSE IF Cardinality(demand) > 1 THEN NoSym
      ELSE IF demand # {} THEN Class(classes, <<CHOOSE p \in demand : TRUE, s>>)
      ELSE Class(classes, <<JavaLang, s>>)

(* Attr completes the unit's classes.  A member declared twice is recorded  *)
(* in the enterer's list, which Enter has returned already: nobody reads    *)
(* it.  An unresolved name, or anything else, is a diagnostic of its own.   *)
(* Any diagnostic keeps the unit from being lowered.                        *)
Analyse ==
  /\ stage = "attr" /\ at \in parsed
  /\ found' = [found EXCEPT ![at] = {<<s, FindType(at, s)>> : s \in batch[at].uses}]
  /\ \E a, f, w \in 0..1 :
       LET lost  == {s \in batch[at].uses : FindType(at, s) = NoSym}
           in    == a + Cardinality(lost)
           diags == in + f + w
       IN  /\ rep' = report(rep, diags)
           /\ raised' = raised \cup (IF in > 0 THEN {<<at, "attr">>} ELSE {})
                               \cup (IF f > 0 THEN {<<at, "flow">>} ELSE {})
                               \cup (IF w > 0 THEN {<<at, "warn">>} ELSE {})
                               \cup (IF batch[at].dupMember THEN {<<at, "complete">>} ELSE {})
           /\ IF diags > 0 THEN Advance("attr", "close") ELSE stage' = "lower" /\ UNCHANGED at
  /\ UNCHANGED <<command, parsed, table, code, todo, jar, lowered, out>>

Skip ==
  /\ stage = "attr" /\ at \notin parsed /\ Advance("attr", "close")
  /\ UNCHANGED <<command, parsed, table, rep, code, todo, jar, found, raised, lowered, out>>

Lower ==
  /\ stage = "lower" /\ lowered' = lowered \cup {at}
  /\ \E k \in 0..1 :
       /\ rep' = report(rep, k) /\ Raise(at, "lower", k)
       /\ IF k > 0 THEN Advance("attr", "close") /\ todo' = {}
          ELSE stage' = "write" /\ todo' = units[at].types /\ UNCHANGED at
  /\ UNCHANGED <<command, parsed, table, code, jar, found, out>>

Write(n) ==
  /\ stage = "write" /\ n \in todo /\ todo' = todo \ {n}
  /\ \/ out' = Append(out, <<n, at>>) /\ UNCHANGED rep
     \/ /\ "write" \in Faults /\ UNCHANGED out
        /\ rep' = [rep EXCEPT !.errors = @ + 1]
  /\ UNCHANGED <<command, stage, at, parsed, table, code, jar, found, raised, lowered>>

Written ==
  /\ stage = "write" /\ todo = {} /\ Advance("attr", "close")
  /\ UNCHANGED <<command, parsed, table, rep, code, todo, jar, found, raised, lowered, out>>

(* The zip writer's Close writes the directory of the jar, and its error    *)
(* counts.  The error of closing the file behind it is dropped, and what    *)
(* the system had not written yet is missing.                               *)
Close ==
  /\ stage = "close"
  /\ \/ emit = "class" /\ UNCHANGED <<rep, jar>>
     \/ emit = "jar" /\ jar' = "closed" /\ UNCHANGED rep
     \/ /\ emit = "jar" /\ "write" \in Faults
        /\ \/ jar' = "torn" /\ rep' = [rep EXCEPT !.errors = @ + 1]
           \/ jar' = "unflushed" /\ UNCHANGED rep
  /\ Exit(code)
  /\ UNCHANGED <<command, at, parsed, table, todo, found, raised, lowered, out>>

(* A compiler bug anywhere is recovered from at the top of buildAll. *)
Panic ==
  /\ "panic" \in Faults /\ stage # "done" /\ UNCHANGED rep /\ Exit(exitInternal)
  /\ UNCHANGED <<command, at, parsed, table, todo, jar, found, raised, lowered, out>>

Next ==
  \/ PathFails \/ ReadFails \/ Parse \/ Enter \/ Create \/ CreateFails
  \/ Analyse \/ Skip \/ Lower \/ Written \/ Close \/ Panic
  \/ \E n \in todo : Write(n)

Spec == Init /\ [][Next]_vars
-----------------------------------------------------------------------------
Done == stage = "done"

Jar   == {"none", "open", "closed", "torn", "unflushed"}
Phase == {"parse", "enter", "attr", "flow", "warn", "lower", "complete"}

TypeOK ==
  /\ batch \in Batches /\ emit \in Emits
  /\ at \in DOMAIN batch /\ parsed \subseteq DOMAIN batch
  /\ stage \in {"parse", "enter", "create", "attr", "lower", "write", "close", "done"}
  /\ classes \in [Name -> {NoSym, FromPath} \cup DOMAIN batch]
  /\ members \subseteq Package \X Simple \X (DOMAIN batch)
  /\ units \in [DOMAIN batch -> [types: SUBSET Name, single: SUBSET Name]]
  /\ rep \in [reported: Nat, suppressed: Nat, errors: Nat]
  /\ MaxErrors > 0 => rep.reported <= MaxErrors
  /\ code \in 0..3 /\ todo \subseteq Name /\ jar \in Jar
  /\ found \in [DOMAIN batch -> SUBSET (Simple \X ({NoSym, FromPath} \cup DOMAIN batch))]
  /\ raised \subseteq (DOMAIN batch) \X Phase /\ lowered \subseteq DOMAIN batch
  /\ out \in Seq(Name \X (DOMAIN batch))

(* Exit status 0 means that everything asked for is there: every file was   *)
(* read and lowered, every class it declares was written, the jar is        *)
(* complete, and no phase found anything wrong, reported, suppressed or     *)
(* not.  Two errors are lost and are the exceptions: a member declared      *)
(* twice, and the failing close of the jar's file (buildAll, build,         *)
(* reporter.report, sourceCompleter).                                       *)
ExitIsHonest ==
  Done /\ code = exitOK =>
    /\ rep.reported + rep.suppressed = 0 /\ (emit = "jar" => jar \in {"closed", "unflushed"})
    /\ lowered = DOMAIN batch
    /\ \A x \in raised : batch[x[1]].dupMember
    /\ \A f \in DOMAIN batch : \A i \in DOMAIN batch[f].types :
         \E k \in DOMAIN out : out[k][1] = <<batch[f].pkg, batch[f].types[i]>>

(* No class file is written twice, whatever the files of the batch declare: *)
(* the second would replace the first (Declare, typeDecl, buildAll).  And   *)
(* no class is written whose unit attr, flow, warn or lower complained      *)
(* about (the loop of buildAll).                                            *)
NoClobber ==
  /\ \A j, k \in DOMAIN out : out[j][1] = out[k][1] => j = k
  /\ \A k \in DOMAIN out : \A p \in {"attr", "flow", "warn", "lower"} : <<out[k][2], p>> \notin raised

(* What a simple name means in file f, by JLS 6.5.5 over the whole batch,   *)
(* without regard to the order of its files.  java.lang is imported on      *)
(* demand like any other package (JLS 7.3), and a name that two packages    *)
(* imported on demand have is ambiguous.                                    *)
DeclaredIn(n) == {f \in parsed : batch[f].pkg = n[1] /\ \E i \in DOMAIN batch[f].types : batch[f].types[i] = n[2]}
Exists(n) == DeclaredIn(n) # {} \/ n \in OnPath
Owners(n) == IF DeclaredIn(n) # {} THEN DeclaredIn(n) ELSE {FromPath}
Having(ps, s) == {p \in ps : Exists(<<p, s>>)}
Meaning(f, s) ==
  LET imp    == {i \in DOMAIN batch[f].imports : batch[f].imports[i][2] = s}
      demand == Having(batch[f].onDemand \cup {JavaLang}, s)
  IN  IF imp # {} THEN UNION {Owners(batch[f].imports[i]) : i \in imp}
      ELSE IF Exists(<<batch[f].pkg, s>>) THEN Owners(<<batch[f].pkg, s>>)
      ELSE IF \E p \in demand : demand = {p} THEN UNION {Owners(<<p, s>>) : p \in demand}
      ELSE {NoSym}

(* FindType differs in one case: it tries java.lang last, so the one other  *)
(* package imported on demand that has the name hides java.lang's.          *)
HidingLang(f, s) ==
  LET demand == Having(batch[f].onDemand, s)
  IN  IF Meaning(f, s) = {NoSym} /\ Exists(<<JavaLang, s>>) /\ \E p \in demand : demand = {p}
      THEN UNION {Owners(<<p, s>>) : p \in demand} ELSE {}

(* In a file that entered cleanly every name means what JLS 6.5.5 says,     *)
(* with all the files of the batch in view and a source declaration before  *)
(* a class file, wherever the file stands in the batch; the exception is a  *)
(* name that hides java.lang's instead of being ambiguous (Enter, Declare,  *)
(* FindType).                                                               *)
NamesMeanJLS ==
  \A f \in DOMAIN batch : <<f, "enter">> \notin raised =>
    \A x \in found[f] : x[2] \in Meaning(f, x[1]) \cup HidingLang(f, x[1])
=============================================================================
