------------------------------ MODULE TypesTable ------------------------------
(***************************************************************************)
(* types.Table (src/types/table.go, source.go): the lazy completion of a    *)
(* class's type parameters, its supertypes and its methods' signatures,     *)
(* called by several goroutines.  A goroutine is its stack of calls.  Each  *)
(* class has one mutex (classInfo.mu), held while its bounds or supertypes  *)
(* are resolved; Go mutexes are not reentrant.  The short sections under    *)
(* Table.mu are atomic.                                                     *)
(*                                                                         *)
(* Resolving a type as written (fromAST) re-enters the table for a class    *)
(* that is mentioned with type arguments: classOf asks for its arity with   *)
(* TypeParams.  A declaration is the sequence of such mentions, in the      *)
(* order fromNamed reaches them.                                            *)
(***************************************************************************)
EXTENDS Integers, Sequences

CONSTANTS
  Goroutine, Class,
  Bounds,    \* [Class -> Seq(Class)]: mentions in the bounds of its parameters
  Supers,    \* [Class -> Seq(Class)]: mentions in its extends and implements
  Signature, \* [Class -> Seq(Class)]: mentions in the signature of its method
  MaxCalls,  \* bound: calls each goroutine makes
  Nobody

ASSUME TypesAssumption ==
  /\ Bounds \in [Class -> Seq(Class)] /\ Supers \in [Class -> Seq(Class)]
  /\ Signature \in [Class -> Seq(Class)] /\ MaxCalls \in Nat
  /\ Nobody \notin Goroutine

VARIABLES
  holder,      \* who holds each class's mutex
  paramState,  \* classInfo.paramState
  superState,  \* classInfo.superState
  cached,      \* classes whose method is in Table.methods
  filled,      \* classes whose method has its Descriptor
  stack,       \* each goroutine's calls into the table, innermost last
  answer,      \* the state of what its last call returned
  runs,        \* history: completions started, of parameters and of supertypes
  calls

vars == <<holder, paramState, superState, cached, filled, stack, answer, runs, calls>>

(* fn: TypeParams, Supertype (Interfaces alike) or MethodType (FieldType of *)
(* a class's field alike); todo: the mentions still to resolve.             *)
Frame(fn, x, pc, todo) == [fn |-> fn, c |-> x, pc |-> pc, todo |-> todo]
Entry == [TypeParams |-> "lock", Supertype |-> "params", MethodType |-> "check"]
Enter(fn, x) == Frame(fn, x, Entry[fn], <<>>)

Init ==
  /\ holder = [x \in Class |-> Nobody]
  /\ paramState = [x \in Class |-> "notDone"] /\ superState = [x \in Class |-> "notDone"]
  /\ cached = {} /\ filled = {}
  /\ stack = [g \in Goroutine |-> <<>>] /\ answer = [g \in Goroutine |-> "none"]
  /\ runs = [x \in Class |-> [params |-> 0, supers |-> 0]]
  /\ calls = [g \in Goroutine |-> 0]

Busy(g) == stack[g] # <<>>
Top(g)  == stack[g][Len(stack[g])]
At(g, fn, pc) == Busy(g) /\ Top(g).fn = fn /\ Top(g).pc = pc
Below(g) == SubSeq(stack[g], 1, Len(stack[g]) - 1)

Become(g, f)     == stack' = [stack EXCEPT ![g] = Append(Below(g), f)]
Push(g, f, call) == stack' = [stack EXCEPT ![g] = Append(Append(Below(g), f), call)]
Return(g, state) ==
  /\ stack' = [stack EXCEPT ![g] = Below(g)]
  /\ answer' = [answer EXCEPT ![g] = state]

Lock(g, x)   == holder[x] = Nobody /\ holder' = [holder EXCEPT ![x] = g]
Unlock(x)    == holder' = [holder EXCEPT ![x] = Nobody]
(* Lock, look and unlock again: the mutex must be free. *)
Glance(x)    == holder[x] = Nobody /\ UNCHANGED holder

Call(g, fn, x) ==
  /\ ~Busy(g) /\ calls[g] < MaxCalls
  /\ calls' = [calls EXCEPT ![g] = @ + 1]
  /\ stack' = [stack EXCEPT ![g] = <<Enter(fn, x)>>]
  /\ answer' = [answer EXCEPT ![g] = "none"]
  /\ UNCHANGED <<holder, paramState, superState, cached, filled, runs>>
-----------------------------------------------------------------------------
(* TypeParams *)

(* A completed class.  The inProgress branch is here too, but the mutex is  *)
(* held for as long as completion is in progress.                           *)
ParamsKnown(g) ==
  /\ At(g, "TypeParams", "lock")
  /\ LET x == Top(g).c IN
       /\ Glance(x) /\ paramState[x] # "notDone" /\ Return(g, paramState[x])
  /\ UNCHANGED <<paramState, superState, cached, filled, runs, calls>>

(* Mutant of ParamsBegin: the mutex is released before the bounds are       *)
(* resolved.                                                                *)
ParamsBeginUnlocked(g) ==
  /\ At(g, "TypeParams", "lock")
  /\ LET x == Top(g).c IN
       /\ Glance(x) /\ paramState[x] = "notDone"
       /\ paramState' = [paramState EXCEPT ![x] = "inProgress"]
       /\ runs' = [runs EXCEPT ![x].params = @ + 1]
       /\ Become(g, Frame("TypeParams", x, "body", Bounds[x]))
  /\ UNCHANGED <<superState, cached, filled, answer, calls>>

(* completeParams starts: the shells are published under the mutex. *)
ParamsBegin(g) ==
  /\ At(g, "TypeParams", "lock")
  /\ LET x == Top(g).c IN
       /\ Lock(g, x) /\ paramState[x] = "notDone"
       /\ paramState' = [paramState EXCEPT ![x] = "inProgress"]
       /\ runs' = [runs EXCEPT ![x].params = @ + 1]
       /\ Become(g, Frame("TypeParams", x, "body", Bounds[x]))
  /\ UNCHANGED <<superState, cached, filled, answer, calls>>

(* The next mention: classOf re-enters the table. *)
Mention(g) ==
  /\ Busy(g) /\ Top(g).pc = "body" /\ Top(g).todo # <<>>
  /\ Push(g, [Top(g) EXCEPT !.todo = Tail(@)], Enter("TypeParams", Head(Top(g).todo)))
  /\ UNCHANGED <<holder, paramState, superState, cached, filled, answer, runs, calls>>

(* Mutant of ParamsEnd: the mutex is not released. *)
ParamsEndHolding(g) ==
  /\ At(g, "TypeParams", "body") /\ Top(g).todo = <<>>
  /\ paramState' = [paramState EXCEPT ![Top(g).c] = "done"]
  /\ Return(g, "done")
  /\ UNCHANGED <<holder, superState, cached, filled, runs, calls>>

ParamsEnd(g) ==
  /\ At(g, "TypeParams", "body") /\ Top(g).todo = <<>>
  /\ LET x == Top(g).c IN
       /\ paramState' = [paramState EXCEPT ![x] = "done"]
       /\ Unlock(x) /\ Return(g, "done")
  /\ UNCHANGED <<superState, cached, filled, runs, calls>>
-----------------------------------------------------------------------------
(* Supertype, Interfaces: completeSupers, then a read under the mutex *)

SupersParams(g) ==
  /\ At(g, "Supertype", "params")
  /\ Push(g, [Top(g) EXCEPT !.pc = "lock"], Enter("TypeParams", Top(g).c))
  /\ UNCHANGED <<holder, paramState, superState, cached, filled, answer, runs, calls>>

SupersKnown(g) ==
  /\ At(g, "Supertype", "lock")
  /\ Glance(Top(g).c) /\ superState[Top(g).c] # "notDone"
  /\ Become(g, [Top(g) EXCEPT !.pc = "read"])
  /\ UNCHANGED <<paramState, superState, cached, filled, answer, runs, calls>>

SupersBegin(g) ==
  /\ At(g, "Supertype", "lock")
  /\ LET x == Top(g).c IN
       /\ Lock(g, x) /\ superState[x] = "notDone"
       /\ superState' = [superState EXCEPT ![x] = "inProgress"]
       /\ runs' = [runs EXCEPT ![x].supers = @ + 1]
       /\ Become(g, Frame("Supertype", x, "body", Supers[x]))
  /\ UNCHANGED <<paramState, cached, filled, answer, calls>>

SupersEnd(g) ==
  /\ At(g, "Supertype", "body") /\ Top(g).todo = <<>>
  /\ LET x == Top(g).c IN
       /\ superState' = [superState EXCEPT ![x] = "done"]
       /\ Unlock(x) /\ Become(g, Frame("Supertype", x, "read", <<>>))
  /\ UNCHANGED <<paramState, cached, filled, answer, runs, calls>>

SupersRead(g) ==
  /\ At(g, "Supertype", "read")
  /\ Glance(Top(g).c) /\ Return(g, superState[Top(g).c])
  /\ UNCHANGED <<paramState, superState, cached, filled, runs, calls>>
-----------------------------------------------------------------------------
(* MethodType, FieldType *)

MethodKnown(g) ==
  /\ At(g, "MethodType", "check") /\ Top(g).c \in cached
  /\ Return(g, "done")
  /\ UNCHANGED <<holder, paramState, superState, cached, filled, runs, calls>>

MethodBuild(g) ==
  /\ At(g, "MethodType", "check") /\ Top(g).c \notin cached
  /\ LET x == Top(g).c IN
       Push(g, Frame("MethodType", x, "body", Signature[x]), Enter("TypeParams", x))
  /\ UNCHANGED <<holder, paramState, superState, cached, filled, answer, runs, calls>>

MethodLost(g) ==
  /\ At(g, "MethodType", "body") /\ Top(g).todo = <<>> /\ Top(g).c \in cached
  /\ Return(g, "done")
  /\ UNCHANGED <<holder, paramState, superState, cached, filled, runs, calls>>

MethodStore(g) ==
  /\ At(g, "MethodType", "body") /\ Top(g).todo = <<>> /\ Top(g).c \notin cached
  /\ cached' = cached \cup {Top(g).c}
  /\ Become(g, [Top(g) EXCEPT !.pc = "fill"])
  /\ UNCHANGED <<holder, paramState, superState, filled, answer, runs, calls>>

(* The descriptor is set after the cache entry is published, unlocked. *)
MethodFill(g) ==
  /\ At(g, "MethodType", "fill")
  /\ filled' = filled \cup {Top(g).c} /\ Return(g, "done")
  /\ UNCHANGED <<holder, paramState, superState, cached, runs, calls>>
-----------------------------------------------------------------------------
Step(g) ==
  \/ ParamsKnown(g) \/ ParamsBegin(g) \/ Mention(g) \/ ParamsEnd(g)
  \/ SupersParams(g) \/ SupersKnown(g) \/ SupersBegin(g) \/ SupersEnd(g) \/ SupersRead(g)
  \/ MethodKnown(g) \/ MethodBuild(g) \/ MethodLost(g) \/ MethodStore(g) \/ MethodFill(g)

Next ==
  \E g \in Goroutine :
    \/ \E x \in Class, fn \in DOMAIN Entry : Call(g, fn, x)
    \/ Step(g)

Spec == Init /\ [][Next]_vars

(* The Go scheduler runs every goroutine that is not waiting for a mutex,   *)
(* and a waiter gets a mutex that is free again and again.                  *)
FairSpec == Spec /\ \A g \in Goroutine : SF_vars(Step(g))
-----------------------------------------------------------------------------
State == {"notDone", "inProgress", "done"}
CallFrame == [fn: DOMAIN Entry, c: Class, todo: Seq(Class),
              pc: {"lock", "params", "check", "body", "read", "fill"}]

TypeOK ==
  /\ holder \in [Class -> Goroutine \cup {Nobody}]
  /\ paramState \in [Class -> State] /\ superState \in [Class -> State]
  /\ cached \subseteq Class /\ filled \subseteq cached
  /\ stack \in [Goroutine -> Seq(CallFrame)] /\ answer \in [Goroutine -> State \cup {"none"}]
  /\ runs \in [Class -> [params: Nat, supers: Nat]] /\ calls \in [Goroutine -> 0..MaxCalls]

(* The bounds and the supertypes of a class are resolved once, however many *)
(* goroutines ask for them at the same time: a class has one set of         *)
(* TypeVars, compared by identity elsewhere.  And no caller is handed       *)
(* parameters without bounds or missing supertypes: a half-completed class  *)
(* is never seen from outside (TypeParams, Supertype, completeSupers).      *)
CompletedOnce ==
  /\ \A x \in Class : runs[x].params <= 1 /\ runs[x].supers <= 1
  /\ \A g \in Goroutine : answer[g] \notin {"notDone", "inProgress"}

(* A goroutine at a mutex of a class that somebody holds. *)
Blocked(g) == Busy(g) /\ Top(g).pc \in {"lock", "read"} /\ holder[Top(g).c] # Nobody

(* Classes that the bounds and supertypes of x name, and those it leads to: *)
(* through a chain of names, of one at least.                               *)
Names(x) == {Bounds[x][i] : i \in 1..Len(Bounds[x])} \cup {Supers[x][i] : i \in 1..Len(Supers[x])}
ClosedUnder(T) == \A z \in T : Names(z) \subseteq T
Leads(x, y) == \A T \in SUBSET Class : Names(x) \subseteq T /\ ClosedUnder(T) => y \in T

(* Classes from which no class that leads back to itself is reached, and    *)
(* calls that resolve nothing else.                                         *)
Plain == {x \in Class : \A y \in Class : y = x \/ Leads(x, y) => ~Leads(y, y)}
OnPlain(f) ==
  /\ f.c \in Plain
  /\ f.fn = "MethodType" => \A i \in 1..Len(Signature[f.c]) : Signature[f.c][i] \in Plain

(* The mutex of a class is only waited for while its holder has a call to   *)
(* finish, and a holder who waits in turn waits for a class that this one   *)
(* leads to.  So whoever waits in a circle, or for itself, does it on       *)
(* classes that lead back to themselves, and never on one mutex taken       *)
(* before another in no order (classInfo.mu, classOf: types/table.go).      *)
WaitsFollowNames ==
  \A g \in Goroutine : Blocked(g) =>
    LET x == Top(g).c IN
      /\ Busy(holder[x])
      /\ Blocked(holder[x]) => Leads(x, Top(holder[x]).c)

(* A call about classes that do not lead to a circle returns ("safe for     *)
(* concurrent use": src/types/table.go), also while other goroutines are    *)
(* stuck for good on classes that do: `class A<T extends A<T>>` and two     *)
(* classes that mention each other wait for themselves in this code.        *)
CallsReturn ==
  \A g \in Goroutine : (Busy(g) /\ OnPlain(stack[g][1])) ~> ~Busy(g)

=============================================================================
