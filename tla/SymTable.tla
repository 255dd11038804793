------------------------------- MODULE SymTable -------------------------------
(***************************************************************************)
(* sym.Table and ClassSym.Complete (src/sym/table.go, sym.go, binary.go):   *)
(* goroutines look classes up by binary name, enter source classes and      *)
(* complete symbols.  A symbol is an index into syms.  The sections under   *)
(* Table.mu are atomic; Class looks at the table, asks the class path and   *)
(* then takes the lock again.  ClassSym.mu is held for a whole completion,  *)
(* which may load a class file and look other classes up.                   *)
(***************************************************************************)
EXTENDS Integers, Sequences

CONSTANTS
  Goroutine, Name,
  OnPath,     \* names the class path has
  Unreadable, \* names whose class file cannot be loaded or is called otherwise
  Rows,       \* [Name -> Seq(Row)]: a class file's InnerClasses table
  Source,     \* names that source files declare
  MaxCalls,   \* bound: calls each goroutine makes
  Nobody

(* A row that concerns the class: its own, which names the enclosing class, *)
(* or that of a member type.                                                *)
Row == [n: Name, own: BOOLEAN]

ASSUME SymAssumption ==
  /\ OnPath \subseteq Name /\ Unreadable \subseteq Name /\ Source \subseteq Name
  /\ Rows \in [Name -> Seq(Row)] /\ MaxCalls \in Nat /\ Nobody \notin Goroutine

VARIABLES
  classes,  \* Table.classes: name -> index of its symbol, or 0
  syms,     \* every ClassSym made
  run,      \* what each goroutine is doing
  calls

vars == <<classes, syms, run, calls>>

Stub(n, src) == [name |-> n, src |-> src, mu |-> Nobody, state |-> "notCompleted",
                 err |-> "none", outer |-> 0, members |-> {}, runs |-> 0]
(* pc: idle; insert, in Class after the path was asked; wait, in Complete   *)
(* before its lock; load and rows, in the completer; nested, in the Class   *)
(* call of a row; ans: what Complete returned.                              *)
Idle == [pc |-> "idle", n |-> Nobody, s |-> 0, rows |-> <<>>, ans |-> "none"]

Init ==
  /\ classes = [n \in Name |-> 0] /\ syms = <<>>
  /\ run = [g \in Goroutine |-> Idle] /\ calls = [g \in Goroutine |-> 0]

At(g, pc) == run[g].pc = pc
Starts(g) == At(g, "idle") /\ calls[g] < MaxCalls /\ calls' = [calls EXCEPT ![g] = @ + 1]
Become(g, r) == run' = [run EXCEPT ![g] = r]
-----------------------------------------------------------------------------
(* Table.Class, Existing, Declare *)

(* The symbol the table has, nil, or on to the insertion. *)
Class(g, n) ==
  /\ Starts(g)
  /\ IF classes[n] # 0 \/ n \notin OnPath THEN UNCHANGED run
     ELSE Become(g, [Idle EXCEPT !.pc = "insert", !.n = n])
  /\ UNCHANGED <<classes, syms>>

(* Mutant of Stubbed: the table is not looked at again under the lock. *)
StubbedBlindly(n) ==
  [classes |-> [classes EXCEPT ![n] = Len(syms) + 1], syms |-> Append(syms, Stub(n, FALSE))]

(* Under Table.mu: another goroutine may have come first. *)
Stubbed(n) ==
  IF classes[n] # 0 THEN [classes |-> classes, syms |-> syms]
  ELSE [classes |-> [classes EXCEPT ![n] = Len(syms) + 1], syms |-> Append(syms, Stub(n, FALSE))]

ClassInsert(g) ==
  /\ At(g, "insert")
  /\ classes' = Stubbed(run[g].n).classes /\ syms' = Stubbed(run[g].n).syms
  /\ Become(g, Idle) /\ UNCHANGED calls

(* Mutant of Declare: the stub of a class file keeps the name. *)
DeclareBehindStub(g, n) ==
  /\ Starts(g) /\ n \in Source
  /\ IF classes[n] # 0 /\ syms[classes[n]].src THEN UNCHANGED <<classes, syms>>
     ELSE /\ syms' = Append(syms, Stub(n, TRUE))
          /\ classes' = IF classes[n] # 0 THEN classes ELSE [classes EXCEPT ![n] = Len(syms')]
  /\ UNCHANGED run

(* A source class takes the name from a class file, not from a source file. *)
Declare(g, n) ==
  /\ Starts(g) /\ n \in Source
  /\ IF classes[n] # 0 /\ syms[classes[n]].src THEN UNCHANGED <<classes, syms>>
     ELSE syms' = Append(syms, Stub(n, TRUE)) /\ classes' = [classes EXCEPT ![n] = Len(syms')]
  /\ UNCHANGED run
-----------------------------------------------------------------------------
(* ClassSym.Complete *)

(* The caller has the symbol from an earlier answer. *)
Complete(g, s) ==
  /\ Starts(g)
  /\ Become(g, [Idle EXCEPT !.pc = "wait", !.s = s])
  /\ UNCHANGED <<classes, syms>>

Returns(g, ans) == Become(g, [Idle EXCEPT !.ans = ans])

(* Completed before, or in flight: the second cannot be seen here, since    *)
(* the mutex is held for as long as the completion lasts.                   *)
CompleteKnown(g) ==
  /\ At(g, "wait")
  /\ LET x == syms[run[g].s] IN
       /\ x.mu = Nobody /\ x.state # "notCompleted"
       /\ Returns(g, IF x.state = "completing" THEN "cyclic" ELSE x.err)
  /\ UNCHANGED <<classes, syms, calls>>

(* Mutant of CompleteStart: the lock is not kept, nor the state set. *)
CompleteStartLoose(g) ==
  /\ At(g, "wait") /\ syms[run[g].s].state = "notCompleted"
  /\ syms' = [syms EXCEPT ![run[g].s].runs = @ + 1]
  /\ Become(g, [run[g] EXCEPT !.pc = "load"]) /\ UNCHANGED <<classes, calls>>

CompleteStart(g) ==
  /\ At(g, "wait")
  /\ LET x == syms[run[g].s] IN
       /\ x.mu = Nobody /\ x.state = "notCompleted"
       /\ syms' = [syms EXCEPT ![run[g].s] =
                      [x EXCEPT !.mu = g, !.state = "completing", !.runs = x.runs + 1]]
  /\ Become(g, [run[g] EXCEPT !.pc = "load"]) /\ UNCHANGED <<classes, calls>>

(* The completer's result is kept, good or bad, and the lock released. *)
Finish(g, err) ==
  /\ syms' = [syms EXCEPT ![run[g].s] =
                 [@ EXCEPT !.mu = Nobody, !.state = "completed", !.err = err]]
  /\ Returns(g, err)

(* sourceCompleter needs no file; binaryCompleter loads one and refuses it  *)
(* when it is called otherwise, before anything is entered.                 *)
Load(g) ==
  /\ At(g, "load")
  /\ LET x == syms[run[g].s] IN
       IF x.src THEN Finish(g, "none")
       ELSE IF x.name \in Unreadable THEN Finish(g, "unreadable")
       ELSE Become(g, [run[g] EXCEPT !.pc = "rows", !.rows = Rows[x.name]]) /\ UNCHANGED syms
  /\ UNCHANGED <<classes, calls>>

(* What a row does with t, the symbol of the class it names or 0: a row of  *)
(* the class's own replaces the enclosing class, even by none.              *)
Linked(ss, s, row, t) ==
  IF row.own THEN [ss EXCEPT ![s].outer = t]
  ELSE IF t # 0 THEN [ss EXCEPT ![s].members = @ \cup {t}] ELSE ss
RowDone(g) == Become(g, [run[g] EXCEPT !.pc = "rows", !.rows = Tail(@)])

(* enterNested, a row at a time: Class of the row's name, as in Class. *)
RowLookup(g) ==
  /\ At(g, "rows") /\ run[g].rows # <<>>
  /\ LET row == Head(run[g].rows) IN
       IF classes[row.n] # 0 \/ row.n \notin OnPath
       THEN syms' = Linked(syms, run[g].s, row, classes[row.n]) /\ RowDone(g)
       ELSE Become(g, [run[g] EXCEPT !.pc = "nested"]) /\ UNCHANGED syms
  /\ UNCHANGED <<classes, calls>>

RowInsert(g) ==
  /\ At(g, "nested")
  /\ LET row == Head(run[g].rows)
         t   == Stubbed(row.n)
     IN  /\ classes' = t.classes
         /\ syms' = Linked(t.syms, run[g].s, row, t.classes[row.n])
  /\ RowDone(g) /\ UNCHANGED calls

(* Mutant of RowsEnd: the mutex is kept. *)
RowsEndHolding(g) ==
  /\ At(g, "rows") /\ run[g].rows = <<>>
  /\ syms' = [syms EXCEPT ![run[g].s].state = "completed"] /\ Returns(g, "none")
  /\ UNCHANGED <<classes, calls>>

RowsEnd(g) ==
  /\ At(g, "rows") /\ run[g].rows = <<>> /\ Finish(g, "none")
  /\ UNCHANGED <<classes, calls>>
-----------------------------------------------------------------------------
Step(g) ==
  \/ ClassInsert(g) \/ CompleteKnown(g) \/ CompleteStart(g) \/ Load(g)
  \/ RowLookup(g) \/ RowInsert(g) \/ RowsEnd(g)

Next ==
  \E g \in Goroutine :
    \/ Step(g)
    \/ \E n \in Name : Class(g, n) \/ Declare(g, n)
    \/ \E s \in DOMAIN syms : Complete(g, s)

Spec == Init /\ [][Next]_vars

(* The Go scheduler runs every goroutine that does not wait for a mutex,    *)
(* and a waiter gets a mutex that is free again and again.                  *)
FairSpec == Spec /\ \A g \in Goroutine : SF_vars(Step(g))
-----------------------------------------------------------------------------
TypeOK ==
  /\ classes \in [Name -> 0..Len(syms)]
  /\ \A n \in Name : classes[n] # 0 => syms[classes[n]].name = n
  /\ \A s \in DOMAIN syms :
       /\ syms[s].mu \in Goroutine \cup {Nobody}
       /\ syms[s].state \in {"notCompleted", "completing", "completed"}
       /\ syms[s].state = "completing" <=> syms[s].mu # Nobody
       /\ syms[s].members \subseteq DOMAIN syms
  /\ calls \in [Goroutine -> 0..MaxCalls]

(* A class file has one symbol however many goroutines mention it first:    *)
(* symbols are compared by identity everywhere above (Class).               *)
OneSymbolPerFile ==
  \A s, t \in DOMAIN syms : ~syms[s].src /\ ~syms[t].src /\ syms[s].name = syms[t].name => s = t

(* "A source declaration always wins over a class file of the same name"    *)
(* (src/sym/README.md): once declared, the name is the source symbol's for  *)
(* good, although Class may have asked the path before (Declare, Class).    *)
SourceWins == \A s \in DOMAIN syms : syms[s].src => classes[syms[s].name] = s

(* The first k rows of a class file are in its symbol: every member type,   *)
(* and the enclosing class that the last own row names.                     *)
Entered(ss, s, rows, k) ==
  \A i \in 1..k : rows[i].n \in OnPath =>
    IF rows[i].own
    THEN (\A j \in i + 1 .. k : ~rows[j].own) =>
           ss[s].outer # 0 /\ ss[ss[s].outer].name = rows[i].n
    ELSE \E t \in ss[s].members : ss[t].name = rows[i].n

(* "runs the completer at most once; a second call returns the first call's *)
(* error" (Complete in sym.go): and nobody is told of success while the     *)
(* members are still being entered.                                         *)
CompletedOnce ==
  \A s \in DOMAIN syms :
    /\ syms[s].runs <= 1
    /\ syms[s].state = "completed" /\ syms[s].err = "none" /\ ~syms[s].src =>
         Entered(syms, s, Rows[syms[s].name], Len(Rows[syms[s].name]))

(* Who waits in Complete waits for a goroutine that runs the completer of   *)
(* that very symbol, and so waits for no symbol itself: no circle of        *)
(* waiting goroutines can form, although class files may name each other,   *)
(* since enterNested looks classes up and never completes them.             *)
OwnerRuns ==
  \A g \in Goroutine :
    LET s == run[g].s IN
      At(g, "wait") /\ syms[s].mu # Nobody =>
        LET h == syms[s].mu IN run[h].pc \in {"load", "rows", "nested"} /\ run[h].s = s

(* Every call returns, although a completion takes the table's lock while   *)
(* it holds its class's, and class files may name each other (Complete,     *)
(* enterNested).                                                            *)
CallsReturn == \A g \in Goroutine : ~At(g, "idle") ~> At(g, "idle")

=============================================================================
