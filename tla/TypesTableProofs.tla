--------------------------- MODULE TypesTableProofs ---------------------------
(***************************************************************************)
(* Proofs about TypesTable, for any goroutines, classes, number of calls    *)
(* and declarations, those that mention each other in a circle included.    *)
(***************************************************************************)
EXTENDS TypesTable, SequenceTheorems, TLAPS

(* A call that holds the mutex of its class. *)
Holds(f) == f.pc = "body" /\ f.fn \in {"TypeParams", "Supertype"}

(* What a call knows of its class: while it resolves bounds or supertypes   *)
(* it owns the mutex, and no other half of the class is under way;          *)
(* Supertype reads what was begun; the method whose descriptor is to be set *)
(* is in the cache.                                                         *)
FrameOK(g, f) ==
  /\ Holds(f) => holder[f.c] = g
  /\ Holds(f) /\ f.fn = "TypeParams" =>
       paramState[f.c] = "inProgress" /\ superState[f.c] # "inProgress"
  /\ Holds(f) /\ f.fn = "Supertype" =>
       superState[f.c] = "inProgress" /\ paramState[f.c] # "inProgress"
  /\ f.pc = "read" => superState[f.c] # "notDone"
  /\ f.pc = "fill" => f.c \in cached

(* A goroutine locks a class once. *)
LockedOnce(q) ==
  \A i, j \in 1..Len(q) : Holds(q[i]) /\ Holds(q[j]) /\ q[i].c = q[j].c => i = j

(* The state of a class whose mutex is free is not half-way, and tells how  *)
(* often each half was begun.                                               *)
ClassOK(x) ==
  /\ holder[x] = Nobody => paramState[x] # "inProgress" /\ superState[x] # "inProgress"
  /\ runs[x].params = IF paramState[x] = "notDone" THEN 0 ELSE 1
  /\ runs[x].supers = IF superState[x] = "notDone" THEN 0 ELSE 1

Frames  == \A g \in Goroutine : \A i \in 1..Len(stack[g]) : FrameOK(g, stack[g][i])
Locks   == \A g \in Goroutine : LockedOnce(stack[g])
Classy  == \A x \in Class : ClassOK(x)
Answers == \A g \in Goroutine : answer[g] \in {"none", "done"}

TableInv == TypeOK /\ Frames /\ Locks /\ Classy /\ Answers

(* A call that has just been entered knows nothing of its class yet. *)
Fresh(f) == f.pc \in {"lock", "params", "check"}

(* Stack r is stack q with its innermost call replaced by f or gone, and    *)
(* fresh calls on top.                                                      *)
Rests(q, r, f) ==
  \A i \in 1..Len(r) :
    \/ i < Len(q) /\ r[i] = q[i]
    \/ i = Len(q) /\ r[i] = f
    \/ Fresh(r[i])

(* Entering a call gives a fresh frame. *)
LEMMA EnterFresh ==
  ASSUME NEW fn \in DOMAIN Entry, NEW x \in Class
  PROVE  Enter(fn, x) \in CallFrame /\ Fresh(Enter(fn, x))
<1>1. DOMAIN Entry = {"TypeParams", "Supertype", "MethodType"}
  BY DEF Entry
<1>2. Entry[fn] \in {"lock", "params", "check"}
  BY <1>1 DEF Entry
<1>3. <<>> \in Seq(Class)
  OBVIOUS
<1> QED
  BY <1>2, <1>3 DEF Enter, Frame, CallFrame, Fresh

(* What is below the innermost call. *)
LEMMA BelowShape ==
  ASSUME NEW S, NEW q \in Seq(S), q # <<>>
  PROVE  LET b == SubSeq(q, 1, Len(q) - 1) IN
           /\ b \in Seq(S) /\ Len(b) = Len(q) - 1 /\ Len(q) \in Nat \ {0}
           /\ \A i \in 1..(Len(q) - 1) : b[i] = q[i]
<1>1. Len(q) \in Nat \ {0} /\ Len(q) - 1 \in Nat /\ \A i \in 1..(Len(q) - 1) : i \in 1..Len(q) /\ q[i] \in S
  OBVIOUS
<1> PICK n \in Nat : n = Len(q) - 1
  BY <1>1
<1>2. /\ SubSeq(q, 1, n) \in Seq(S)
      /\ Len(SubSeq(q, 1, n)) = IF 1 <= n THEN n - 1 + 1 ELSE 0
      /\ \A i \in 1..(n - 1 + 1) : SubSeq(q, 1, n)[i] = q[1 + i - 1]
  <2>1. 1 \in Int /\ n \in Int /\ \A i \in 1..n : q[i] \in S
    BY <1>1
  <2> QED
    BY <2>1, SubSeqProperties
<1>3. Len(SubSeq(q, 1, n)) = n /\ \A i \in 1..n : SubSeq(q, 1, n)[i] = q[i]
  BY <1>2
<1> QED
  BY <1>1, <1>2, <1>3

(* Replacing the innermost call. *)
LEMMA BecomeShape ==
  ASSUME NEW q \in Seq(CallFrame), q # <<>>, NEW f \in CallFrame
  PROVE  LET r == Append(SubSeq(q, 1, Len(q) - 1), f) IN
           r \in Seq(CallFrame) /\ Rests(q, r, f)
<1> DEFINE b == SubSeq(q, 1, Len(q) - 1)
<1>1. /\ b \in Seq(CallFrame) /\ Len(b) = Len(q) - 1 /\ Len(q) \in Nat \ {0}
      /\ \A i \in 1..(Len(q) - 1) : b[i] = q[i]
  BY BelowShape
<1> HIDE DEF b
<1>2. /\ Append(b, f) \in Seq(CallFrame) /\ Len(Append(b, f)) = Len(q)
      /\ \A i \in 1..Len(q) : Append(b, f)[i] = IF i = Len(q) THEN f ELSE q[i]
  BY <1>1
<1> QED
  BY <1>1, <1>2 DEF Rests, b

(* Replacing the innermost call and entering another one. *)
LEMMA PushShape ==
  ASSUME NEW q \in Seq(CallFrame), q # <<>>, NEW f \in CallFrame,
         NEW call \in CallFrame, Fresh(call)
  PROVE  LET r == Append(Append(SubSeq(q, 1, Len(q) - 1), f), call) IN
           r \in Seq(CallFrame) /\ Rests(q, r, f)
<1> DEFINE b == Append(SubSeq(q, 1, Len(q) - 1), f)
<1>1. b \in Seq(CallFrame) /\ Rests(q, b, f)
  BY BecomeShape
<1> HIDE DEF b
<1>2. /\ Append(b, call) \in Seq(CallFrame) /\ Len(Append(b, call)) = Len(b) + 1
      /\ \A i \in 1..Len(b) : Append(b, call)[i] = b[i]
      /\ Append(b, call)[Len(b) + 1] = call /\ Len(b) \in Nat
  BY <1>1
<1>3. ASSUME NEW i \in 1..(Len(b) + 1)
      PROVE  i \in 1..Len(b) \/ i = Len(b) + 1
  BY <1>2
<1>4. Rests(q, Append(b, call), f)
  BY <1>1, <1>2, <1>3 DEF Rests
<1> QED
  BY <1>2, <1>4 DEF b

(* Returning from the innermost call. *)
LEMMA ReturnShape ==
  ASSUME NEW q \in Seq(CallFrame), q # <<>>, NEW f \in CallFrame
  PROVE  LET r == SubSeq(q, 1, Len(q) - 1) IN
           r \in Seq(CallFrame) /\ Rests(q, r, f)
<1> DEFINE b == SubSeq(q, 1, Len(q) - 1)
<1>1. /\ b \in Seq(CallFrame) /\ Len(b) = Len(q) - 1 /\ Len(q) \in Nat \ {0}
      /\ \A i \in 1..(Len(q) - 1) : b[i] = q[i]
  BY BelowShape
<1> HIDE DEF b
<1> QED
  BY <1>1 DEF Rests, b

(* The innermost call of a busy goroutine. *)
LEMMA TopShape ==
  ASSUME TypeOK, NEW g \in Goroutine, Busy(g)
  PROVE  /\ stack[g] \in Seq(CallFrame) /\ Len(stack[g]) \in Nat \ {0}
         /\ Len(stack[g]) \in 1..Len(stack[g])
         /\ Top(g) \in CallFrame /\ Top(g) = stack[g][Len(stack[g])]
         /\ Top(g).c \in Class /\ Top(g).fn \in DOMAIN Entry /\ Top(g).todo \in Seq(Class)
<1>1. stack[g] \in Seq(CallFrame) /\ stack[g] # <<>>
  BY DEF TypeOK, Busy
<1>2. Len(stack[g]) \in Nat \ {0} /\ Len(stack[g]) \in 1..Len(stack[g])
  BY <1>1
<1>3. Top(g) \in CallFrame
  BY <1>1, <1>2 DEF Top
<1> QED
  BY <1>1, <1>2, <1>3 DEF Top, CallFrame

(* What the actions do to the stack of their goroutine. *)
Goes(g, f) == \E r \in Seq(CallFrame) : stack' = [stack EXCEPT ![g] = r] /\ Rests(stack[g], r, f)

LEMMA BecomeGoes ==
  ASSUME TypeOK, NEW g \in Goroutine, Busy(g), NEW f \in CallFrame, Become(g, f)
  PROVE  Goes(g, f)
  BY TopShape, BecomeShape DEF Become, Below, Busy, Goes

LEMMA PushGoes ==
  ASSUME TypeOK, NEW g \in Goroutine, Busy(g), NEW f \in CallFrame,
         NEW call \in CallFrame, Fresh(call), Push(g, f, call)
  PROVE  Goes(g, f)
  BY TopShape, PushShape DEF Push, Below, Busy, Goes

LEMMA ReturnGoes ==
  ASSUME TypeOK, NEW g \in Goroutine, Busy(g), NEW f \in CallFrame, NEW state, Return(g, state)
  PROVE  Goes(g, f) /\ answer' = [answer EXCEPT ![g] = state]
  BY TopShape, ReturnShape DEF Return, Below, Busy, Goes
-----------------------------------------------------------------------------
(* A frame that is still there after a step of g, as it was before. *)
Stays(g, h, i, k) ==
  /\ i \in 1..Len(stack[h]) /\ k = stack[h][i] /\ (h = g => i < Len(stack[g]))

(* No call below the innermost one holds the mutex that f holds. *)
NotBelow(g, f) ==
  Holds(f) => \A i \in 1..Len(stack[g]) :
                i < Len(stack[g]) => ~(Holds(stack[g][i]) /\ stack[g][i].c = f.c)

(* Fresh calls hold nothing and know nothing. *)
LEMMA FreshOK ==
  ASSUME NEW g \in Goroutine, NEW f, Fresh(f)
  PROVE  ~Holds(f) /\ FrameOK(g, f)
  BY DEF Fresh, Holds, FrameOK

(* The stacks, after a step that changed the stack of g. *)
LEMMA Stacked ==
  ASSUME TypeOK, NEW g \in Goroutine, NEW f \in CallFrame, Goes(g, f), Locks, NotBelow(g, f)
  PROVE  stack' \in [Goroutine -> Seq(CallFrame)] /\ Locks'
<1>1. PICK r \in Seq(CallFrame) : stack' = [stack EXCEPT ![g] = r] /\ Rests(stack[g], r, f)
  BY DEF Goes
<1>2. stack \in [Goroutine -> Seq(CallFrame)]
  BY DEF TypeOK
<1>3. stack' \in [Goroutine -> Seq(CallFrame)]
  BY <1>1, <1>2
<1>4. stack'[g] = r /\ \A h \in Goroutine : h # g => stack'[h] = stack[h]
  BY <1>1, <1>2
<1>5. LockedOnce(r)
  <2> PICK q : q = stack[g]
    OBVIOUS
  <2>1. LockedOnce(q) /\ Rests(q, r, f) /\ q \in Seq(CallFrame)
    BY <1>1, <1>2 DEF Locks
  <2>2. Holds(f) => \A i \in 1..Len(q) : i < Len(q) => ~(Holds(q[i]) /\ q[i].c = f.c)
    BY DEF NotBelow
  <2> SUFFICES ASSUME NEW i \in 1..Len(r), NEW j \in 1..Len(r),
                      Holds(r[i]), Holds(r[j]), r[i].c = r[j].c
               PROVE  i = j
    BY DEF LockedOnce
  <2>3. ~Fresh(r[i]) /\ ~Fresh(r[j])
    BY DEF Fresh, Holds
  <2>4. (i < Len(q) /\ r[i] = q[i]) \/ (i = Len(q) /\ r[i] = f)
    BY <2>1, <2>3 DEF Rests
  <2>5. (j < Len(q) /\ r[j] = q[j]) \/ (j = Len(q) /\ r[j] = f)
    BY <2>1, <2>3 DEF Rests
  <2>6. (i < Len(q) => i \in 1..Len(q)) /\ (j < Len(q) => j \in 1..Len(q))
    BY <2>1
  <2> QED
    BY <2>1, <2>2, <2>4, <2>5, <2>6 DEF LockedOnce
<1>6. Locks'
  <2> SUFFICES ASSUME NEW h \in Goroutine
               PROVE  LockedOnce(stack'[h])
    BY DEF Locks, LockedOnce, Holds
  <2> QED
    BY <1>4, <1>5 DEF Locks
<1> QED
  BY <1>3, <1>6

(* The frames, after a step that changed the stack of g. *)
LEMMA Framed ==
  ASSUME TypeOK, NEW g \in Goroutine, NEW f \in CallFrame, Goes(g, f), FrameOK(g, f)',
         \A h \in Goroutine, i \in Nat, k \in CallFrame : Stays(g, h, i, k) => FrameOK(h, k)'
  PROVE  Frames'
<1>1. PICK r \in Seq(CallFrame) : stack' = [stack EXCEPT ![g] = r] /\ Rests(stack[g], r, f)
  BY DEF Goes
<1>2. stack \in [Goroutine -> Seq(CallFrame)]
  BY DEF TypeOK
<1>3. stack'[g] = r /\ \A h \in Goroutine : h # g => stack'[h] = stack[h]
  BY <1>1, <1>2
<1> SUFFICES ASSUME NEW h \in Goroutine, NEW i \in 1..Len(stack'[h]), NEW k, k = stack'[h][i]
             PROVE  FrameOK(h, k)'
  BY DEF Frames, FrameOK, Holds
<1>4. i \in Nat
  BY <1>1, <1>2, <1>3
<1>5. CASE h # g
  <2>1. stack'[h] = stack[h] /\ stack[h] \in Seq(CallFrame)
    BY <1>5, <1>3, <1>2
  <2>2. i \in 1..Len(stack[h]) /\ k = stack[h][i]
    BY <2>1
  <2>3. k \in CallFrame
    BY <2>1, <2>2
  <2> QED
    BY <2>2, <2>3, <1>4, <1>5 DEF Stays
<1>6. CASE h = g
  <2>1. i \in 1..Len(r) /\ k = r[i]
    BY <1>6, <1>3
  <2>2. CASE i < Len(stack[g]) /\ r[i] = stack[g][i]
    <3>1. stack[g] \in Seq(CallFrame)
      BY <1>2
    <3>2. i \in 1..Len(stack[g])
      BY <3>1, <2>1, <2>2
    <3>3. k = stack[g][i] /\ k \in CallFrame
      BY <3>1, <3>2, <2>1, <2>2
    <3> QED
      BY <3>2, <3>3, <1>4, <1>6, <2>2 DEF Stays
  <2>3. CASE r[i] = f
    BY <2>1, <2>3, <1>6
  <2>4. CASE Fresh(r[i])
    BY <2>1, <2>4 DEF Fresh, FrameOK, Holds
  <2> QED
    BY <2>1, <2>2, <2>3, <2>4, <1>1 DEF Rests
<1> QED
  BY <1>5, <1>6

(* A frame that stays is one the invariant speaks of. *)
LEMMA StaysOK ==
  ASSUME Frames, NEW g \in Goroutine, NEW h \in Goroutine, NEW i, NEW k, Stays(g, h, i, k)
  PROVE  FrameOK(h, k)
  BY DEF Frames, Stays

(* The holder of a mutex is alone with it. *)
LEMMA Alone ==
  ASSUME TypeOK, Frames, Locks, NEW g \in Goroutine, Busy(g), Holds(Top(g)),
         NEW h \in Goroutine, NEW i, NEW k, Stays(g, h, i, k), Holds(k)
  PROVE  k.c # Top(g).c
<1>1. /\ Len(stack[g]) \in 1..Len(stack[g]) /\ Top(g) = stack[g][Len(stack[g])]
      /\ Len(stack[g]) \in Nat
  BY TopShape
<1>2. FrameOK(g, Top(g)) /\ FrameOK(h, k)
  BY <1>1, StaysOK DEF Frames
<1>3. CASE h # g
  BY <1>2, <1>3 DEF FrameOK
<1>4. CASE h = g
  BY <1>1, <1>4 DEF Stays, Locks, LockedOnce
<1> QED
  BY <1>3, <1>4

(* A call that keeps the class, the function and the place of the innermost *)
(* one holds what that one held.                                            *)
LEMMA SameBelow ==
  ASSUME TypeOK, Locks, NEW g \in Goroutine, Busy(g), NEW f,
         Holds(f) => Holds(Top(g)) /\ f.c = Top(g).c
  PROVE  NotBelow(g, f)
<1>1. /\ Len(stack[g]) \in 1..Len(stack[g]) /\ Top(g) = stack[g][Len(stack[g])]
      /\ Len(stack[g]) \in Nat
  BY TopShape
<1> QED
  BY <1>1 DEF NotBelow, Locks, LockedOnce

(* Nobody holds a free mutex. *)
LEMMA FreeBelow ==
  ASSUME TypeOK, TypesAssumption, Frames, NEW g \in Goroutine, NEW f, holder[f.c] = Nobody
  PROVE  NotBelow(g, f)
<1> SUFFICES ASSUME NEW i \in 1..Len(stack[g]), Holds(stack[g][i]), stack[g][i].c = f.c
             PROVE  FALSE
  BY DEF NotBelow
<1>1. FrameOK(g, stack[g][i])
  BY DEF Frames
<1> QED
  BY <1>1 DEF FrameOK, TypesAssumption
-----------------------------------------------------------------------------
(* One step per action *)

(* The answers a step leaves. *)
LEMMA Answered ==
  ASSUME TypeOK, Answers, NEW g \in Goroutine, NEW v \in {"none", "done"},
         answer' = [answer EXCEPT ![g] = v]
  PROVE  answer' \in [Goroutine -> {"none", "done"}]
  BY DEF TypeOK, Answers

LEMMA Unanswered ==
  ASSUME TypeOK, Answers, UNCHANGED answer
  PROVE  answer' \in [Goroutine -> {"none", "done"}]
  BY DEF TypeOK, Answers

(* A step that changes nothing but stacks, answers and calls. *)
LEMMA QuietStep ==
  ASSUME TableInv, NEW g \in Goroutine, NEW f \in CallFrame, Goes(g, f), FrameOK(g, f),
         NotBelow(g, f), UNCHANGED <<holder, paramState, superState, cached, filled, runs>>,
         answer' \in [Goroutine -> {"none", "done"}], calls' \in [Goroutine -> 0..MaxCalls]
  PROVE  TableInv'
<1>1. TypeOK /\ Frames /\ Locks /\ Classy
  BY DEF TableInv
<1>2. stack' \in [Goroutine -> Seq(CallFrame)] /\ Locks'
  BY <1>1, Stacked
<1>3. Frames'
  <2>1. FrameOK(g, f)'
    BY DEF FrameOK
  <2>2. \A h \in Goroutine, i \in Nat, k \in CallFrame : Stays(g, h, i, k) => FrameOK(h, k)'
    <3> SUFFICES ASSUME NEW h \in Goroutine, NEW i \in Nat, NEW k \in CallFrame, Stays(g, h, i, k)
                 PROVE  FrameOK(h, k)'
      OBVIOUS
    <3>1. FrameOK(h, k)
      BY <1>1, StaysOK
    <3> QED
      BY <3>1 DEF FrameOK
  <2> QED
    BY <1>1, <2>1, <2>2, Framed
<1>4. TypeOK'
  BY <1>1, <1>2 DEF TypeOK, State
<1>5. Classy' /\ Answers'
  BY <1>1 DEF Classy, ClassOK, Answers
<1> QED
  BY <1>2, <1>3, <1>4, <1>5 DEF TableInv

(* The innermost call is sound. *)
LEMMA TopOK ==
  ASSUME TypeOK, Frames, NEW g \in Goroutine, Busy(g)
  PROVE  FrameOK(g, Top(g))
  BY TopShape DEF Frames

(* A return that changes nothing but the stack and the answer. *)
LEMMA ReturnStep ==
  ASSUME TableInv, NEW g \in Goroutine, Busy(g), NEW v \in {"none", "done"}, Return(g, v),
         UNCHANGED <<holder, paramState, superState, cached, filled, runs, calls>>
  PROVE  TableInv'
<1>1. TypeOK /\ Frames /\ Locks /\ Answers
  BY DEF TableInv
<1>2. Top(g) \in CallFrame /\ FrameOK(g, Top(g))
  BY <1>1, TopShape, TopOK
<1>3. Goes(g, Top(g)) /\ answer' = [answer EXCEPT ![g] = v]
  BY <1>1, <1>2, ReturnGoes
<1>4. NotBelow(g, Top(g))
  BY <1>1, SameBelow
<1>5. calls' \in [Goroutine -> 0..MaxCalls]
  BY <1>1 DEF TypeOK
<1> QED
  BY <1>1, <1>2, <1>3, <1>4, <1>5, Answered, QuietStep

LEMMA CallStep ==
  ASSUME TableInv, TypesAssumption, NEW g \in Goroutine, NEW fn \in DOMAIN Entry,
         NEW x \in Class, Call(g, fn, x)
  PROVE  TableInv'
<1>1. TypeOK /\ Answers
  BY DEF TableInv
<1> PICK f : f = Enter(fn, x)
  OBVIOUS
<1>2. f \in CallFrame /\ Fresh(f)
  BY EnterFresh
<1>3. /\ stack[g] = <<>> /\ calls[g] < MaxCalls /\ calls' = [calls EXCEPT ![g] = calls[g] + 1]
      /\ stack' = [stack EXCEPT ![g] = <<f>>] /\ answer' = [answer EXCEPT ![g] = "none"]
      /\ UNCHANGED <<holder, paramState, superState, cached, filled, runs>>
  BY DEF Call, Busy
<1>4. Goes(g, f)
  <2>1. <<f>> \in Seq(CallFrame) /\ Len(<<f>>) = 1 /\ <<f>>[1] = f
    BY <1>2
  <2>2. Rests(stack[g], <<f>>, f)
    BY <2>1, <1>2 DEF Rests
  <2> QED
    BY <2>1, <2>2, <1>3 DEF Goes
<1>5. FrameOK(g, f) /\ NotBelow(g, f)
  BY <1>2, FreshOK DEF NotBelow
<1>6. calls' \in [Goroutine -> 0..MaxCalls]
  <2>1. calls[g] + 1 \in 0..MaxCalls
    BY <1>1, <1>3 DEF TypeOK, TypesAssumption
  <2> QED
    BY <1>1, <1>3, <2>1 DEF TypeOK
<1> QED
  BY <1>1, <1>2, <1>3, <1>4, <1>5, <1>6, Answered, QuietStep

LEMMA ParamsKnownStep ==
  ASSUME TableInv, NEW g \in Goroutine, ParamsKnown(g)
  PROVE  TableInv'
<1> PICK x : x = Top(g).c
  OBVIOUS
<1>1. /\ Busy(g) /\ holder[x] = Nobody /\ paramState[x] # "notDone" /\ Return(g, paramState[x])
      /\ UNCHANGED <<holder, paramState, superState, cached, filled, runs, calls>>
  BY DEF ParamsKnown, At, Glance
<1>2. x \in Class /\ TypeOK
  BY <1>1, TopShape DEF TableInv
<1>3. paramState[x] = "done"
  BY <1>1, <1>2 DEF TableInv, TypeOK, State, Classy, ClassOK
<1> QED
  BY <1>1, <1>3, ReturnStep

LEMMA MentionStep ==
  ASSUME TableInv, NEW g \in Goroutine, Mention(g)
  PROVE  TableInv'
<1>1. TypeOK /\ Frames /\ Locks /\ Answers
  BY DEF TableInv
<1> PICK t, f : t = Top(g) /\ f = [t EXCEPT !.todo = Tail(t.todo)]
  OBVIOUS
<1> PICK call : call = Enter("TypeParams", Head(t.todo))
  OBVIOUS
<1>2. /\ Busy(g) /\ t.todo # <<>> /\ Push(g, f, call)
      /\ UNCHANGED <<holder, paramState, superState, cached, filled, answer, runs, calls>>
  BY DEF Mention
<1>3. t \in CallFrame /\ t.todo \in Seq(Class) /\ FrameOK(g, t)
  BY <1>1, <1>2, TopShape, TopOK
<1>4. Head(t.todo) \in Class /\ Tail(t.todo) \in Seq(Class)
  BY <1>2, <1>3
<1>5. f \in CallFrame /\ f.c = t.c /\ f.fn = t.fn /\ f.pc = t.pc
  BY <1>3, <1>4 DEF CallFrame
<1>6. call \in CallFrame /\ Fresh(call)
  BY <1>4, EnterFresh DEF Entry
<1>7. Goes(g, f)
  BY <1>1, <1>2, <1>5, <1>6, PushGoes
<1>8. FrameOK(g, f) /\ NotBelow(g, f)
  BY <1>1, <1>2, <1>3, <1>5, SameBelow DEF FrameOK, Holds
<1>9. calls' \in [Goroutine -> 0..MaxCalls]
  BY <1>1, <1>2 DEF TypeOK
<1> QED
  BY <1>1, <1>2, <1>5, <1>7, <1>8, <1>9, Unanswered, QuietStep

LEMMA SupersParamsStep ==
  ASSUME TableInv, NEW g \in Goroutine, SupersParams(g)
  PROVE  TableInv'
<1>1. TypeOK /\ Frames /\ Locks /\ Answers
  BY DEF TableInv
<1> PICK t, f : t = Top(g) /\ f = [t EXCEPT !.pc = "lock"]
  OBVIOUS
<1> PICK call : call = Enter("TypeParams", t.c)
  OBVIOUS
<1>2. /\ Busy(g) /\ Push(g, f, call)
      /\ UNCHANGED <<holder, paramState, superState, cached, filled, answer, runs, calls>>
  BY DEF SupersParams, At
<1>3. t \in CallFrame /\ t.c \in Class
  BY <1>1, <1>2, TopShape
<1>4. f \in CallFrame /\ Fresh(f)
  BY <1>3 DEF CallFrame, Fresh
<1>5. call \in CallFrame /\ Fresh(call)
  BY <1>3, EnterFresh DEF Entry
<1>6. Goes(g, f)
  BY <1>1, <1>2, <1>4, <1>5, PushGoes
<1>7. FrameOK(g, f) /\ NotBelow(g, f)
  BY <1>4, FreshOK DEF NotBelow
<1>8. calls' \in [Goroutine -> 0..MaxCalls]
  BY <1>1, <1>2 DEF TypeOK
<1> QED
  BY <1>1, <1>2, <1>4, <1>6, <1>7, <1>8, Unanswered, QuietStep

LEMMA SupersKnownStep ==
  ASSUME TableInv, NEW g \in Goroutine, SupersKnown(g)
  PROVE  TableInv'
<1>1. TypeOK /\ Frames /\ Locks /\ Answers
  BY DEF TableInv
<1> PICK t, f : t = Top(g) /\ f = [t EXCEPT !.pc = "read"]
  OBVIOUS
<1>2. /\ Busy(g) /\ Become(g, f) /\ superState[t.c] # "notDone"
      /\ UNCHANGED <<holder, paramState, superState, cached, filled, answer, runs, calls>>
  BY DEF SupersKnown, At, Glance
<1>3. t \in CallFrame
  BY <1>1, <1>2, TopShape
<1>4. f \in CallFrame /\ f.pc = "read" /\ f.c = t.c
  BY <1>3 DEF CallFrame
<1>5. Goes(g, f)
  BY <1>1, <1>2, <1>4, BecomeGoes
<1>6. FrameOK(g, f) /\ NotBelow(g, f)
  BY <1>2, <1>4 DEF FrameOK, NotBelow, Holds
<1>7. calls' \in [Goroutine -> 0..MaxCalls]
  BY <1>1, <1>2 DEF TypeOK
<1> QED
  BY <1>1, <1>2, <1>4, <1>5, <1>6, <1>7, Unanswered, QuietStep

LEMMA SupersReadStep ==
  ASSUME TableInv, NEW g \in Goroutine, SupersRead(g)
  PROVE  TableInv'
<1> PICK x : x = Top(g).c
  OBVIOUS
<1>1. /\ Busy(g) /\ Top(g).pc = "read" /\ holder[x] = Nobody /\ Return(g, superState[x])
      /\ UNCHANGED <<holder, paramState, superState, cached, filled, runs, calls>>
  BY DEF SupersRead, At, Glance
<1>2. x \in Class /\ TypeOK /\ Frames /\ FrameOK(g, Top(g))
  BY <1>1, TopShape, TopOK DEF TableInv
<1>3. superState[x] = "done"
  BY <1>1, <1>2 DEF TableInv, TypeOK, State, Classy, ClassOK, FrameOK
<1> QED
  BY <1>1, <1>3, ReturnStep

LEMMA MethodReturns ==
  ASSUME TableInv, NEW g \in Goroutine, MethodKnown(g) \/ MethodLost(g)
  PROVE  TableInv'
<1>1. /\ Busy(g) /\ Return(g, "done")
      /\ UNCHANGED <<holder, paramState, superState, cached, filled, runs, calls>>
  BY DEF MethodKnown, MethodLost, At
<1> QED
  BY <1>1, ReturnStep

LEMMA MethodBuildStep ==
  ASSUME TableInv, TypesAssumption, NEW g \in Goroutine, MethodBuild(g)
  PROVE  TableInv'
<1>1. TypeOK /\ Frames /\ Locks /\ Answers
  BY DEF TableInv
<1> PICK x : x = Top(g).c
  OBVIOUS
<1> PICK f, call : f = Frame("MethodType", x, "body", Signature[x]) /\ call = Enter("TypeParams", x)
  OBVIOUS
<1>2. /\ Busy(g) /\ Push(g, f, call)
      /\ UNCHANGED <<holder, paramState, superState, cached, filled, answer, runs, calls>>
  BY DEF MethodBuild, At
<1>3. x \in Class
  BY <1>1, <1>2, TopShape
<1>4. Signature[x] \in Seq(Class)
  BY <1>3 DEF TypesAssumption
<1>5. f \in CallFrame /\ ~Holds(f) /\ f.pc = "body"
  BY <1>3, <1>4 DEF CallFrame, Frame, Entry, Holds
<1>6. call \in CallFrame /\ Fresh(call)
  BY <1>3, EnterFresh DEF Entry
<1>7. Goes(g, f)
  BY <1>1, <1>2, <1>5, <1>6, PushGoes
<1>8. FrameOK(g, f) /\ NotBelow(g, f)
  BY <1>5 DEF FrameOK, NotBelow
<1>9. calls' \in [Goroutine -> 0..MaxCalls]
  BY <1>1, <1>2 DEF TypeOK
<1> QED
  BY <1>1, <1>2, <1>5, <1>7, <1>8, <1>9, Unanswered, QuietStep

(* completeParams begins: the mutex was free, so nobody is half-way through *)
(* the class.                                                               *)
LEMMA ParamsBeginStep ==
  ASSUME TableInv, TypesAssumption, NEW g \in Goroutine, ParamsBegin(g)
  PROVE  TableInv'
<1>1. TypeOK /\ Frames /\ Locks /\ Answers /\ Classy
  BY DEF TableInv
<1> PICK x : x = Top(g).c
  OBVIOUS
<1> PICK f : f = Frame("TypeParams", x, "body", Bounds[x])
  OBVIOUS
<1>2. /\ Busy(g) /\ Become(g, f) /\ holder[x] = Nobody /\ paramState[x] = "notDone"
      /\ holder' = [holder EXCEPT ![x] = g]
      /\ paramState' = [paramState EXCEPT ![x] = "inProgress"]
      /\ runs' = [runs EXCEPT ![x].params = runs[x].params + 1]
      /\ UNCHANGED <<superState, cached, filled, answer, calls>>
  BY DEF ParamsBegin, At, Lock
<1>3. x \in Class
  BY <1>1, <1>2, TopShape
<1>4. Bounds[x] \in Seq(Class)
  BY <1>3 DEF TypesAssumption
<1>5. f \in CallFrame /\ f.c = x /\ f.pc = "body" /\ f.fn = "TypeParams"
  BY <1>3, <1>4 DEF CallFrame, Frame, Entry
<1>6. Goes(g, f)
  BY <1>1, <1>2, <1>5, BecomeGoes
<1>7. NotBelow(g, f)
  BY <1>1, <1>2, <1>5, FreeBelow
<1>8. stack' \in [Goroutine -> Seq(CallFrame)] /\ Locks'
  BY <1>1, <1>5, <1>6, <1>7, Stacked
<1>9. superState[x] # "inProgress" /\ runs[x].params = 0
  BY <1>1, <1>2, <1>3 DEF Classy, ClassOK
<1>10. holder \in [Class -> Goroutine \cup {Nobody}] /\ paramState \in [Class -> State]
  BY <1>1 DEF TypeOK
<1>11. FrameOK(g, f)'
  BY <1>2, <1>3, <1>5, <1>9, <1>10 DEF FrameOK, Holds
<1>12. \A h \in Goroutine, i \in Nat, k \in CallFrame : Stays(g, h, i, k) => FrameOK(h, k)'
  <2> SUFFICES ASSUME NEW h \in Goroutine, NEW i \in Nat, NEW k \in CallFrame, Stays(g, h, i, k)
               PROVE  FrameOK(h, k)'
    OBVIOUS
  <2>1. FrameOK(h, k) /\ k.c \in Class
    BY <1>1, StaysOK DEF CallFrame
  <2>2. Holds(k) => k.c # x
    BY <2>1, <1>2 DEF FrameOK, TypesAssumption
  <2> QED
    BY <2>1, <2>2, <1>2, <1>3, <1>10 DEF FrameOK
<1>13. Frames'
  BY <1>1, <1>5, <1>6, <1>11, <1>12, Framed
<1>14. runs \in [Class -> [params: Nat, supers: Nat]]
  BY <1>1 DEF TypeOK
<1>15. /\ runs' \in [Class -> [params: Nat, supers: Nat]]
       /\ runs'[x].params = 1 /\ runs'[x].supers = runs[x].supers
       /\ \A y \in Class : y # x => runs'[y] = runs[y]
  <2> DEFINE z == [runs[x] EXCEPT !.params = 1]
  <2>1. runs' = [runs EXCEPT ![x] = z]
    BY <1>2, <1>9
  <2>2. z \in [params: Nat, supers: Nat] /\ z.params = 1 /\ z.supers = runs[x].supers
    BY <1>3, <1>14
  <2> HIDE DEF z
  <2> QED
    BY <2>1, <2>2, <1>3, <1>14
<1>16. TypeOK'
  BY <1>1, <1>2, <1>3, <1>8, <1>15 DEF TypeOK, State
<1>17. Classy'
  <2> SUFFICES ASSUME NEW y \in Class PROVE ClassOK(y)'
    BY DEF Classy
  <2>1. ClassOK(y)
    BY <1>1 DEF Classy
  <2>2. CASE y = x
    BY <2>1, <2>2, <1>2, <1>3, <1>10, <1>15 DEF ClassOK, TypesAssumption
  <2>3. CASE y # x
    BY <2>1, <2>3, <1>2, <1>3, <1>10, <1>15 DEF ClassOK
  <2> QED
    BY <2>2, <2>3
<1>18. Answers'
  BY <1>1, <1>2 DEF Answers
<1> QED
  BY <1>8, <1>13, <1>16, <1>17, <1>18 DEF TableInv

(* completeSupers begins. *)
LEMMA SupersBeginStep ==
  ASSUME TableInv, TypesAssumption, NEW g \in Goroutine, SupersBegin(g)
  PROVE  TableInv'
<1>1. TypeOK /\ Frames /\ Locks /\ Answers /\ Classy
  BY DEF TableInv
<1> PICK x : x = Top(g).c
  OBVIOUS
<1> PICK f : f = Frame("Supertype", x, "body", Supers[x])
  OBVIOUS
<1>2. /\ Busy(g) /\ Become(g, f) /\ holder[x] = Nobody /\ superState[x] = "notDone"
      /\ holder' = [holder EXCEPT ![x] = g]
      /\ superState' = [superState EXCEPT ![x] = "inProgress"]
      /\ runs' = [runs EXCEPT ![x].supers = runs[x].supers + 1]
      /\ UNCHANGED <<paramState, cached, filled, answer, calls>>
  BY DEF SupersBegin, At, Lock
<1>3. x \in Class
  BY <1>1, <1>2, TopShape
<1>4. Supers[x] \in Seq(Class)
  BY <1>3 DEF TypesAssumption
<1>5. f \in CallFrame /\ f.c = x /\ f.pc = "body" /\ f.fn = "Supertype"
  BY <1>3, <1>4 DEF CallFrame, Frame, Entry
<1>6. Goes(g, f)
  BY <1>1, <1>2, <1>5, BecomeGoes
<1>7. NotBelow(g, f)
  BY <1>1, <1>2, <1>5, FreeBelow
<1>8. stack' \in [Goroutine -> Seq(CallFrame)] /\ Locks'
  BY <1>1, <1>5, <1>6, <1>7, Stacked
<1>9. paramState[x] # "inProgress" /\ runs[x].supers = 0
  BY <1>1, <1>2, <1>3 DEF Classy, ClassOK
<1>10. holder \in [Class -> Goroutine \cup {Nobody}] /\ superState \in [Class -> State]
  BY <1>1 DEF TypeOK
<1>11. FrameOK(g, f)'
  BY <1>2, <1>3, <1>5, <1>9, <1>10 DEF FrameOK, Holds
<1>12. \A h \in Goroutine, i \in Nat, k \in CallFrame : Stays(g, h, i, k) => FrameOK(h, k)'
  <2> SUFFICES ASSUME NEW h \in Goroutine, NEW i \in Nat, NEW k \in CallFrame, Stays(g, h, i, k)
               PROVE  FrameOK(h, k)'
    OBVIOUS
  <2>1. FrameOK(h, k) /\ k.c \in Class
    BY <1>1, StaysOK DEF CallFrame
  <2>2. Holds(k) => k.c # x
    BY <2>1, <1>2 DEF FrameOK, TypesAssumption
  <2> QED
    BY <2>1, <2>2, <1>2, <1>3, <1>10 DEF FrameOK
<1>13. Frames'
  BY <1>1, <1>5, <1>6, <1>11, <1>12, Framed
<1>14. runs \in [Class -> [params: Nat, supers: Nat]]
  BY <1>1 DEF TypeOK
<1>15. /\ runs' \in [Class -> [params: Nat, supers: Nat]]
       /\ runs'[x].supers = 1 /\ runs'[x].params = runs[x].params
       /\ \A y \in Class : y # x => runs'[y] = runs[y]
  <2> DEFINE z == [runs[x] EXCEPT !.supers = 1]
  <2>1. runs' = [runs EXCEPT ![x] = z]
    BY <1>2, <1>9
  <2>2. z \in [params: Nat, supers: Nat] /\ z.supers = 1 /\ z.params = runs[x].params
    BY <1>3, <1>14
  <2> HIDE DEF z
  <2> QED
    BY <2>1, <2>2, <1>3, <1>14
<1>16. TypeOK'
  BY <1>1, <1>2, <1>3, <1>8, <1>15 DEF TypeOK, State
<1>17. Classy'
  <2> SUFFICES ASSUME NEW y \in Class PROVE ClassOK(y)'
    BY DEF Classy
  <2>1. ClassOK(y)
    BY <1>1 DEF Classy
  <2>2. CASE y = x
    BY <2>1, <2>2, <1>2, <1>3, <1>10, <1>15 DEF ClassOK, TypesAssumption
  <2>3. CASE y # x
    BY <2>1, <2>3, <1>2, <1>3, <1>10, <1>15 DEF ClassOK
  <2> QED
    BY <2>2, <2>3
<1>18. Answers'
  BY <1>1, <1>2 DEF Answers
<1> QED
  BY <1>8, <1>13, <1>16, <1>17, <1>18 DEF TableInv

(* The parameters are done and the mutex is released: the supertypes were   *)
(* not under way.                                                           *)
LEMMA ParamsEndStep ==
  ASSUME TableInv, TypesAssumption, NEW g \in Goroutine, ParamsEnd(g)
  PROVE  TableInv'
<1>1. TypeOK /\ Frames /\ Locks /\ Answers /\ Classy
  BY DEF TableInv
<1> PICK t, x : t = Top(g) /\ x = t.c
  OBVIOUS
<1>2. /\ Busy(g) /\ t.fn = "TypeParams" /\ t.pc = "body" /\ Return(g, "done")
      /\ holder' = [holder EXCEPT ![x] = Nobody]
      /\ paramState' = [paramState EXCEPT ![x] = "done"]
      /\ UNCHANGED <<superState, cached, filled, runs, calls>>
  BY DEF ParamsEnd, At, Unlock
<1>3. t \in CallFrame /\ x \in Class /\ FrameOK(g, t) /\ Holds(t)
  BY <1>1, <1>2, TopShape, TopOK DEF Holds
<1> PICK f : f = Enter("TypeParams", x)
  OBVIOUS
<1>4. f \in CallFrame /\ Fresh(f)
  BY <1>3, EnterFresh DEF Entry
<1>5. Goes(g, f) /\ answer' = [answer EXCEPT ![g] = "done"]
  BY <1>1, <1>2, <1>4, ReturnGoes
<1>6. FrameOK(g, f)' /\ NotBelow(g, f)
  BY <1>4, FreshOK DEF NotBelow, Fresh, FrameOK, Holds
<1>7. stack' \in [Goroutine -> Seq(CallFrame)] /\ Locks'
  BY <1>1, <1>4, <1>5, <1>6, Stacked
<1>8. superState[x] # "inProgress" /\ paramState[x] = "inProgress" /\ holder[x] = g
  BY <1>2, <1>3 DEF FrameOK
<1>9. holder \in [Class -> Goroutine \cup {Nobody}] /\ paramState \in [Class -> State]
  BY <1>1 DEF TypeOK
<1>10. \A h \in Goroutine, i \in Nat, k \in CallFrame : Stays(g, h, i, k) => FrameOK(h, k)'
  <2> SUFFICES ASSUME NEW h \in Goroutine, NEW i \in Nat, NEW k \in CallFrame, Stays(g, h, i, k)
               PROVE  FrameOK(h, k)'
    OBVIOUS
  <2>1. FrameOK(h, k) /\ k.c \in Class
    BY <1>1, StaysOK DEF CallFrame
  <2>2. Holds(k) => k.c # x
    BY <1>1, <1>2, <1>3, Alone
  <2> QED
    BY <2>1, <2>2, <1>2, <1>3, <1>9 DEF FrameOK
<1>11. Frames'
  BY <1>1, <1>4, <1>5, <1>6, <1>10, Framed
<1>12. answer' \in [Goroutine -> {"none", "done"}]
  BY <1>1, <1>5, Answered
<1>13. TypeOK'
  BY <1>1, <1>2, <1>3, <1>7, <1>12 DEF TypeOK, State
<1>14. Classy'
  <2> SUFFICES ASSUME NEW y \in Class PROVE ClassOK(y)'
    BY DEF Classy
  <2>1. ClassOK(y)
    BY <1>1 DEF Classy
  <2>2. CASE y = x
    BY <2>1, <2>2, <1>2, <1>3, <1>8, <1>9 DEF ClassOK
  <2>3. CASE y # x
    BY <2>1, <2>3, <1>2, <1>3, <1>9 DEF ClassOK
  <2> QED
    BY <2>2, <2>3
<1>15. Answers'
  BY <1>12 DEF Answers
<1> QED
  BY <1>7, <1>11, <1>13, <1>14, <1>15 DEF TableInv

(* The supertypes are done and the mutex is released: the parameters were   *)
(* not under way.                                                           *)
LEMMA SupersEndStep ==
  ASSUME TableInv, TypesAssumption, NEW g \in Goroutine, SupersEnd(g)
  PROVE  TableInv'
<1>1. TypeOK /\ Frames /\ Locks /\ Answers /\ Classy
  BY DEF TableInv
<1> PICK t, x : t = Top(g) /\ x = t.c
  OBVIOUS
<1> PICK f : f = Frame("Supertype", x, "read", <<>>)
  OBVIOUS
<1>2. /\ Busy(g) /\ t.fn = "Supertype" /\ t.pc = "body" /\ Become(g, f)
      /\ holder' = [holder EXCEPT ![x] = Nobody]
      /\ superState' = [superState EXCEPT ![x] = "done"]
      /\ UNCHANGED <<paramState, cached, filled, answer, runs, calls>>
  BY DEF SupersEnd, At, Unlock
<1>3. t \in CallFrame /\ x \in Class /\ FrameOK(g, t) /\ Holds(t)
  BY <1>1, <1>2, TopShape, TopOK DEF Holds
<1>4. f \in CallFrame /\ f.c = x /\ f.pc = "read" /\ ~Holds(f)
  BY <1>3 DEF CallFrame, Frame, Entry, Holds
<1>5. Goes(g, f)
  BY <1>1, <1>2, <1>4, BecomeGoes
<1>6. FrameOK(g, f)' /\ NotBelow(g, f)
  BY <1>1, <1>2, <1>3, <1>4 DEF TypeOK, NotBelow, FrameOK
<1>7. stack' \in [Goroutine -> Seq(CallFrame)] /\ Locks'
  BY <1>1, <1>4, <1>5, <1>6, Stacked
<1>8. paramState[x] # "inProgress" /\ superState[x] = "inProgress" /\ holder[x] = g
  BY <1>2, <1>3 DEF FrameOK
<1>9. holder \in [Class -> Goroutine \cup {Nobody}] /\ superState \in [Class -> State]
  BY <1>1 DEF TypeOK
<1>10. \A h \in Goroutine, i \in Nat, k \in CallFrame : Stays(g, h, i, k) => FrameOK(h, k)'
  <2> SUFFICES ASSUME NEW h \in Goroutine, NEW i \in Nat, NEW k \in CallFrame, Stays(g, h, i, k)
               PROVE  FrameOK(h, k)'
    OBVIOUS
  <2>1. FrameOK(h, k) /\ k.c \in Class
    BY <1>1, StaysOK DEF CallFrame
  <2>2. Holds(k) => k.c # x
    BY <1>1, <1>2, <1>3, Alone
  <2> QED
    BY <2>1, <2>2, <1>2, <1>3, <1>9 DEF FrameOK
<1>11. Frames'
  BY <1>1, <1>4, <1>5, <1>6, <1>10, Framed
<1>12. answer' \in [Goroutine -> {"none", "done"}]
  BY <1>1, <1>2, Unanswered
<1>13. TypeOK'
  BY <1>1, <1>2, <1>3, <1>7, <1>12 DEF TypeOK, State
<1>14. Classy'
  <2> SUFFICES ASSUME NEW y \in Class PROVE ClassOK(y)'
    BY DEF Classy
  <2>1. ClassOK(y)
    BY <1>1 DEF Classy
  <2>2. CASE y = x
    BY <2>1, <2>2, <1>2, <1>3, <1>8, <1>9 DEF ClassOK
  <2>3. CASE y # x
    BY <2>1, <2>3, <1>2, <1>3, <1>9 DEF ClassOK
  <2> QED
    BY <2>2, <2>3
<1>15. Answers'
  BY <1>12 DEF Answers
<1> QED
  BY <1>7, <1>11, <1>13, <1>14, <1>15 DEF TableInv

(* The method is in the cache, its descriptor is still to be set. *)
LEMMA MethodStoreStep ==
  ASSUME TableInv, NEW g \in Goroutine, MethodStore(g)
  PROVE  TableInv'
<1>1. TypeOK /\ Frames /\ Locks /\ Answers /\ Classy
  BY DEF TableInv
<1> PICK t, f : t = Top(g) /\ f = [t EXCEPT !.pc = "fill"]
  OBVIOUS
<1>2. /\ Busy(g) /\ Become(g, f) /\ cached' = cached \cup {t.c}
      /\ UNCHANGED <<holder, paramState, superState, filled, answer, runs, calls>>
  BY DEF MethodStore, At
<1>3. t \in CallFrame /\ t.c \in Class
  BY <1>1, <1>2, TopShape
<1>4. f \in CallFrame /\ f.pc = "fill" /\ f.c = t.c /\ ~Holds(f)
  BY <1>3 DEF CallFrame, Holds
<1>5. Goes(g, f)
  BY <1>1, <1>2, <1>4, BecomeGoes
<1>6. FrameOK(g, f)' /\ NotBelow(g, f)
  BY <1>2, <1>4 DEF FrameOK, NotBelow
<1>7. stack' \in [Goroutine -> Seq(CallFrame)] /\ Locks'
  BY <1>1, <1>4, <1>5, <1>6, Stacked
<1>8. \A h \in Goroutine, i \in Nat, k \in CallFrame : Stays(g, h, i, k) => FrameOK(h, k)'
  <2> SUFFICES ASSUME NEW h \in Goroutine, NEW i \in Nat, NEW k \in CallFrame, Stays(g, h, i, k)
               PROVE  FrameOK(h, k)'
    OBVIOUS
  <2>1. FrameOK(h, k)
    BY <1>1, StaysOK
  <2> QED
    BY <2>1, <1>2 DEF FrameOK
<1>9. Frames'
  BY <1>1, <1>4, <1>5, <1>6, <1>8, Framed
<1>10. TypeOK'
  BY <1>1, <1>2, <1>3, <1>7 DEF TypeOK, State
<1>11. Classy' /\ Answers'
  BY <1>1, <1>2 DEF Classy, ClassOK, Answers
<1> QED
  BY <1>7, <1>9, <1>10, <1>11 DEF TableInv

LEMMA MethodFillStep ==
  ASSUME TableInv, NEW g \in Goroutine, MethodFill(g)
  PROVE  TableInv'
<1>1. TypeOK /\ Frames /\ Locks /\ Answers /\ Classy
  BY DEF TableInv
<1> PICK t : t = Top(g)
  OBVIOUS
<1>2. /\ Busy(g) /\ t.pc = "fill" /\ Return(g, "done") /\ filled' = filled \cup {t.c}
      /\ UNCHANGED <<holder, paramState, superState, cached, runs, calls>>
  BY DEF MethodFill, At
<1>3. t \in CallFrame /\ FrameOK(g, t)
  BY <1>1, <1>2, TopShape, TopOK
<1>4. Goes(g, t) /\ answer' = [answer EXCEPT ![g] = "done"]
  BY <1>1, <1>2, <1>3, ReturnGoes
<1>5. FrameOK(g, t)' /\ NotBelow(g, t)
  BY <1>2, <1>3 DEF FrameOK, NotBelow, Holds
<1>6. stack' \in [Goroutine -> Seq(CallFrame)] /\ Locks'
  BY <1>1, <1>3, <1>4, <1>5, Stacked
<1>7. \A h \in Goroutine, i \in Nat, k \in CallFrame : Stays(g, h, i, k) => FrameOK(h, k)'
  <2> SUFFICES ASSUME NEW h \in Goroutine, NEW i \in Nat, NEW k \in CallFrame, Stays(g, h, i, k)
               PROVE  FrameOK(h, k)'
    OBVIOUS
  <2>1. FrameOK(h, k)
    BY <1>1, StaysOK
  <2> QED
    BY <2>1, <1>2 DEF FrameOK
<1>8. Frames'
  BY <1>1, <1>3, <1>4, <1>5, <1>7, Framed
<1>9. answer' \in [Goroutine -> {"none", "done"}]
  BY <1>1, <1>4, Answered
<1>10. filled' \subseteq cached
  BY <1>1, <1>2, <1>3 DEF TypeOK, FrameOK
<1>11. TypeOK'
  BY <1>1, <1>2, <1>6, <1>9, <1>10 DEF TypeOK, State
<1>12. Classy' /\ Answers'
  BY <1>1, <1>2, <1>9 DEF Classy, ClassOK, Answers
<1> QED
  BY <1>6, <1>8, <1>11, <1>12 DEF TableInv

LEMMA InitTable == TypesAssumption /\ Init => TableInv
<1> SUFFICES ASSUME TypesAssumption, Init
             PROVE  TableInv
  OBVIOUS
<1>1. TypeOK
  BY DEF Init, TypeOK, State, TypesAssumption
<1>2. \A g \in Goroutine : Len(stack[g]) = 0
  BY DEF Init
<1>3. Frames /\ Locks
  BY <1>2 DEF Frames, Locks, LockedOnce
<1>4. Classy /\ Answers
  BY DEF Init, Classy, ClassOK, Answers
<1> QED
  BY <1>1, <1>3, <1>4 DEF TableInv

LEMMA NextTable == TypesAssumption /\ TableInv /\ [Next]_vars => TableInv'
<1> SUFFICES ASSUME TypesAssumption, TableInv, [Next]_vars
             PROVE  TableInv'
  OBVIOUS
<1>1. ASSUME NEW g \in Goroutine, NEW x \in Class, NEW fn \in DOMAIN Entry, Call(g, fn, x)
      PROVE  TableInv'
  BY <1>1, CallStep
<1>2. ASSUME NEW g \in Goroutine, Step(g)
      PROVE  TableInv'
  BY <1>2, ParamsKnownStep, ParamsBeginStep, MentionStep, ParamsEndStep, SupersParamsStep,
     SupersKnownStep, SupersBeginStep, SupersEndStep, SupersReadStep, MethodReturns,
     MethodBuildStep, MethodStoreStep, MethodFillStep DEF Step
<1>3. CASE UNCHANGED vars
  <2>1. TypeOK'
    BY <1>3 DEF vars, TableInv, TypeOK, State
  <2>2. Frames' /\ Locks'
    BY <1>3 DEF vars, TableInv, Frames, FrameOK, Locks
  <2>3. Classy' /\ Answers'
    BY <1>3 DEF vars, TableInv, Classy, ClassOK, Answers
  <2> QED
    BY <2>1, <2>2, <2>3 DEF TableInv
<1> QED
  BY <1>1, <1>2, <1>3 DEF Next

(* Every reachable state has the types TypeOK gives: no method's descriptor *)
(* is set before its cache entry is published (types.Table).                *)
THEOREM TableTypes == Spec => []TypeOK
<1>1. Init => TableInv
  BY InitTable, TypesAssumption
<1>2. TableInv /\ [Next]_vars => TableInv'
  BY NextTable, TypesAssumption
<1>3. TableInv => TypeOK
  BY DEF TableInv
<1> QED
  BY <1>1, <1>2, <1>3, PTL DEF Spec

(* However many goroutines ask, the bounds and the supertypes of a class    *)
(* are resolved once, and no caller is handed a half-completed class        *)
(* (TypeParams, Supertype, completeSupers).  This holds also for            *)
(* declarations that mention each other in a circle.                        *)
THEOREM ClassesCompleteOnce == Spec => []CompletedOnce
<1>1. Init => TableInv
  BY InitTable, TypesAssumption
<1>2. TableInv /\ [Next]_vars => TableInv'
  BY NextTable, TypesAssumption
<1>3. TableInv => CompletedOnce
  BY DEF TableInv, CompletedOnce, Classy, ClassOK, Answers
<1> QED
  BY <1>1, <1>2, <1>3, PTL DEF Spec
-----------------------------------------------------------------------------
(* Every held mutex is held by a call on its holder's stack. *)
Owned ==
  \A x \in Class : holder[x] # Nobody =>
    \E i \in 1..Len(stack[holder[x]]) : Holds(stack[holder[x]][i]) /\ stack[holder[x]][i].c = x

(* What a class names it leads to, and what that leads to. *)
LEMMA NamesLead ==
  ASSUME NEW x, NEW y \in Names(x)
  PROVE  Leads(x, y)
BY DEF Leads

LEMMA LeadsOn ==
  ASSUME NEW x, NEW y, NEW z, Leads(x, y), Leads(y, z)
  PROVE  Leads(x, z)
<1> SUFFICES ASSUME NEW T \in SUBSET Class, Names(x) \subseteq T, ClosedUnder(T)
             PROVE  z \in T
  BY DEF Leads
<1>1. y \in T BY DEF Leads
<1>2. Names(y) \subseteq T BY <1>1 DEF ClosedUnder
<1> QED BY <1>2 DEF Leads

(* To what a call that holds a mutex still mentions its class leads. *)
Descends(f) == Holds(f) => \A i \in 1..Len(f.todo) : Leads(f.c, f.todo[i])

(* A stack of calls: TypeParams alone is entered from inside, and above a   *)
(* call that holds a mutex there are only calls its class leads to.         *)
Ordered(q) ==
  /\ \A i \in 1..Len(q) : i > 1 => q[i].fn = "TypeParams"
  /\ \A i \in 1..Len(q) : Descends(q[i])
  /\ \A i, j \in 1..Len(q) : i < j /\ Holds(q[i]) => Leads(q[i].c, q[j].c)

OrderInv == Owned /\ \A g \in Goroutine : Ordered(stack[g])

(* Returning from the innermost call. *)
LEMMA ReturnOrder ==
  ASSUME NEW q \in Seq(CallFrame), q # <<>>, Ordered(q)
  PROVE  LET r == SubSeq(q, 1, Len(q) - 1) IN
           /\ r \in Seq(CallFrame) /\ Len(r) = Len(q) - 1 /\ Ordered(r)
           /\ \A i \in 1..(Len(q) - 1) : r[i] = q[i]
<1>1. PICK r : r = SubSeq(q, 1, Len(q) - 1) OBVIOUS
<1>2. /\ r \in Seq(CallFrame) /\ Len(r) = Len(q) - 1 /\ Len(q) \in Nat \ {0}
      /\ \A i \in 1..(Len(q) - 1) : r[i] = q[i]
  BY <1>1, BelowShape
<1>3. \A i \in 1..Len(r) : i \in 1..Len(q) /\ r[i] = q[i] BY <1>2
<1>4. Ordered(r) BY <1>3 DEF Ordered
<1> QED BY <1>1, <1>2, <1>4

(* The innermost call goes on with the same class. *)
LEMMA BecomeOrder ==
  ASSUME NEW q \in Seq(CallFrame), q # <<>>, Ordered(q), NEW f \in CallFrame,
         f.fn = q[Len(q)].fn, f.c = q[Len(q)].c, Descends(f)
  PROVE  LET r == Append(SubSeq(q, 1, Len(q) - 1), f) IN
           /\ r \in Seq(CallFrame) /\ Len(r) = Len(q) /\ Ordered(r) /\ r[Len(q)] = f
           /\ \A i \in 1..(Len(q) - 1) : r[i] = q[i]
<1>1. PICK b, r : b = SubSeq(q, 1, Len(q) - 1) /\ r = Append(b, f) OBVIOUS
<1>2. /\ b \in Seq(CallFrame) /\ Len(b) = Len(q) - 1 /\ Len(q) \in Nat \ {0}
      /\ \A i \in 1..(Len(q) - 1) : b[i] = q[i]
  BY <1>1, BelowShape
<1>3. /\ r \in Seq(CallFrame) /\ Len(r) = Len(q) /\ r[Len(q)] = f
      /\ \A i \in 1..(Len(q) - 1) : r[i] = q[i]
  BY <1>1, <1>2
<1>4. \A i \in 1..Len(r) : /\ i \in 1..Len(q) /\ r[i].fn = q[i].fn /\ r[i].c = q[i].c
                           /\ Descends(r[i]) /\ (i < Len(q) => r[i] = q[i])
  <2> SUFFICES ASSUME NEW i \in 1..Len(r)
               PROVE  /\ i \in 1..Len(q) /\ r[i].fn = q[i].fn /\ r[i].c = q[i].c
                      /\ Descends(r[i]) /\ (i < Len(q) => r[i] = q[i])
    OBVIOUS
  <2>1. i \in 1..Len(q) /\ (i = Len(q) \/ i \in 1..(Len(q) - 1)) BY <1>2, <1>3
  <2>2. CASE i = Len(q) BY <1>2, <1>3, <2>1, <2>2
  <2>3. CASE i \in 1..(Len(q) - 1) BY <1>2, <1>3, <2>1, <2>3 DEF Ordered
  <2> QED BY <2>1, <2>2, <2>3
<1>5. ASSUME NEW i \in 1..Len(r), NEW j \in 1..Len(r), i < j, Holds(r[i])
      PROVE  Leads(r[i].c, r[j].c)
  <2>1. i < Len(q) /\ r[i] = q[i] /\ r[j].c = q[j].c /\ i \in 1..Len(q) /\ j \in 1..Len(q)
    BY <1>2, <1>3, <1>4, <1>5
  <2> QED BY <1>5, <2>1 DEF Ordered
<1>6. Ordered(r) BY <1>4, <1>5 DEF Ordered
<1> QED BY <1>1, <1>3, <1>6

(* The innermost call enters TypeParams, of a class its own leads to if it  *)
(* holds a mutex, or of its own.                                            *)
LEMMA PushOrder ==
  ASSUME NEW q \in Seq(CallFrame), q # <<>>, Ordered(q),
         NEW f \in CallFrame, f.fn = q[Len(q)].fn, f.c = q[Len(q)].c, Descends(f),
         NEW y \in Class, Holds(f) => Leads(f.c, y),
         y = f.c \/ f.fn = "MethodType" \/ Leads(f.c, y)
  PROVE  LET r == Append(Append(SubSeq(q, 1, Len(q) - 1), f), Enter("TypeParams", y)) IN
           /\ r \in Seq(CallFrame) /\ Len(r) = Len(q) + 1 /\ Ordered(r) /\ r[Len(q)] = f
           /\ \A i \in 1..(Len(q) - 1) : r[i] = q[i]
<1>0. PICK call : call = Enter("TypeParams", y) OBVIOUS
<1>1. PICK b, r : b = Append(SubSeq(q, 1, Len(q) - 1), f) /\ r = Append(b, call) OBVIOUS
<1>2. /\ b \in Seq(CallFrame) /\ Len(b) = Len(q) /\ Ordered(b) /\ b[Len(q)] = f
      /\ \A i \in 1..(Len(q) - 1) : b[i] = q[i]
  BY <1>1, BecomeOrder
<1>3. Len(q) \in Nat \ {0} OBVIOUS
<1>4. call \in CallFrame /\ ~Holds(call) /\ call.fn = "TypeParams" /\ call.c = y
  <2>1. "TypeParams" \in DOMAIN Entry BY DEF Entry
  <2> QED BY <1>0, <2>1, EnterFresh, FreshOK DEF Enter, Frame, Fresh, Holds
<1>5. /\ r \in Seq(CallFrame) /\ Len(r) = Len(q) + 1 /\ r[Len(q) + 1] = call
      /\ \A i \in 1..Len(q) : r[i] = b[i]
  BY <1>1, <1>2, <1>3, <1>4
<1>6. ASSUME NEW i \in 1..Len(r)
      PROVE  (i > 1 => r[i].fn = "TypeParams") /\ Descends(r[i])
  <2>1. i \in 1..Len(q) \/ i = Len(q) + 1 BY <1>3, <1>5
  <2> QED BY <1>2, <1>4, <1>5, <2>1 DEF Ordered, Descends
<1>7. ASSUME NEW i \in 1..Len(r), NEW j \in 1..Len(r), i < j, Holds(r[i])
      PROVE  Leads(r[i].c, r[j].c)
  <2>1. i \in 1..Len(q) /\ r[i] = b[i] BY <1>3, <1>5, <1>7
  <2>2. CASE j \in 1..Len(q) BY <1>2, <1>5, <1>7, <2>1, <2>2 DEF Ordered
  <2>3. CASE j = Len(q) + 1
    <3>1. r[j].c = y BY <1>4, <1>5, <2>3
    <3>2. CASE i = Len(q) BY <1>2, <1>7, <2>1, <3>1, <3>2
    <3>3. CASE i < Len(q)
      <4>1. Len(q) > 1 /\ Len(q) \in 1..Len(b) /\ i \in 1..Len(b) BY <1>2, <1>3, <2>1, <3>3
      <4>2. f.fn = "TypeParams" /\ Leads(b[i].c, f.c)
        BY <1>2, <1>7, <2>1, <3>3, <4>1 DEF Ordered
      <4>3. y = f.c \/ Leads(f.c, y) BY <4>2
      <4> QED BY <2>1, <3>1, <4>2, <4>3, LeadsOn
    <3> QED BY <1>3, <2>1, <3>2, <3>3
  <2> QED BY <1>3, <1>5, <2>2, <2>3
<1>8. Ordered(r) BY <1>6, <1>7 DEF Ordered
<1>9. \A i \in 1..(Len(q) - 1) : r[i] = q[i] /\ i \in 1..Len(q) BY <1>2, <1>3, <1>5
<1>10. r[Len(q)] = f BY <1>2, <1>3, <1>5
<1> QED BY <1>0, <1>1, <1>5, <1>8, <1>9, <1>10

(* A step that changed the stack of g to r, below whose innermost call      *)
(* nothing moved: the innermost call held nothing and the mutexes stay, or  *)
(* it has its mutex now, or it has given it back.                           *)
Turns(g, r) ==
  /\ r \in Seq(CallFrame) /\ stack' = [stack EXCEPT ![g] = r] /\ Ordered(r)
  /\ Busy(g)
  /\ \A i \in 1..(Len(stack[g]) - 1) : i \in 1..Len(r) /\ r[i] = stack[g][i]
  /\ \/ UNCHANGED holder /\ ~Holds(Top(g))
     \/ /\ Len(stack[g]) \in 1..Len(r) /\ Holds(r[Len(stack[g])])
        /\ r[Len(stack[g])].c = Top(g).c
        /\ UNCHANGED holder \/ holder' = [holder EXCEPT ![Top(g).c] = g]
     \/ holder' = [holder EXCEPT ![Top(g).c] = Nobody]

(* Such a step keeps the order. *)
LEMMA TurnsKeep ==
  ASSUME TypeOK, OrderInv, NEW g \in Goroutine, NEW r, Turns(g, r)
  PROVE  OrderInv'
<1>1. stack \in [Goroutine -> Seq(CallFrame)] /\ holder \in [Class -> Goroutine \cup {Nobody}]
  BY DEF TypeOK
<1>2. stack'[g] = r /\ \A h \in Goroutine : h # g => stack'[h] = stack[h]
  BY <1>1 DEF Turns
<1>3. ASSUME NEW h \in Goroutine PROVE Ordered(stack'[h])
  BY <1>2 DEF OrderInv, Turns
<1>4. PICK n, t : n = Len(stack[g]) /\ t = Top(g) OBVIOUS
<1>5. n \in Nat \ {0} /\ n \in 1..Len(stack[g]) /\ t = stack[g][n] /\ t.c \in Class
  BY <1>4, TopShape DEF Turns
<1>6. ASSUME NEW x \in Class, holder'[x] # Nobody
      PROVE  \E i \in 1..Len(stack'[holder'[x]]) :
               Holds(stack'[holder'[x]][i]) /\ stack'[holder'[x]][i].c = x
  <2>1. CASE holder'[x] = g /\ n \in 1..Len(r) /\ Holds(r[n]) /\ r[n].c = x
    BY <1>2, <2>1
  <2>2. CASE holder'[x] = holder[x] /\ ~(holder[x] = g /\ Holds(t) /\ t.c = x)
    <3>1. PICK h : h = holder[x] OBVIOUS
    <3>2. h \in Goroutine /\ h # Nobody BY <1>1, <1>6, <2>2, <3>1
    <3>3. PICK i \in 1..Len(stack[h]) : Holds(stack[h][i]) /\ stack[h][i].c = x
      BY <3>1, <3>2 DEF OrderInv, Owned
    <3>4. CASE h # g BY <1>2, <2>2, <3>1, <3>2, <3>3, <3>4
    <3>5. CASE h = g
      <4>1. i # n BY <1>5, <2>2, <3>1, <3>3, <3>5
      <4>2. i \in 1..(n - 1) BY <1>4, <1>5, <3>3, <3>5, <4>1
      <4>3. i \in 1..Len(r) /\ r[i] = stack[g][i] BY <1>4, <4>2 DEF Turns
      <4> QED BY <1>2, <2>2, <3>1, <3>3, <3>5, <4>3
    <3> QED BY <3>4, <3>5
  <2>3. CASE UNCHANGED holder /\ ~Holds(t) BY <2>2, <2>3
  <2>4. CASE /\ n \in 1..Len(r) /\ Holds(r[n]) /\ r[n].c = t.c
             /\ UNCHANGED holder \/ holder' = [holder EXCEPT ![t.c] = g]
    <3>1. CASE x = t.c /\ holder'[x] = g BY <2>1, <2>4, <3>1
    <3>2. CASE ~(x = t.c /\ holder'[x] = g)
      <4>1. holder'[x] = holder[x] BY <1>1, <1>5, <2>4, <3>2
      <4> QED BY <2>2, <3>2, <4>1
    <3> QED BY <3>1, <3>2
  <2>5. CASE holder' = [holder EXCEPT ![t.c] = Nobody]
    <3>1. x # t.c /\ holder'[x] = holder[x] BY <1>1, <1>5, <1>6, <2>5
    <3> QED BY <2>2, <3>1
  <2> QED BY <1>4, <2>3, <2>4, <2>5 DEF Turns
<1>7. Owned'
  <2> SUFFICES ASSUME NEW x \in Class, holder'[x] # Nobody
               PROVE  \E i \in 1..Len(stack'[holder'[x]]) :
                        Holds(stack'[holder'[x]][i]) /\ stack'[holder'[x]][i].c = x
    BY DEF Owned, Holds
  <2> QED BY <1>6
<1>8. \A h \in Goroutine : Ordered(stack'[h]) BY <1>3
<1> QED BY <1>7, <1>8 DEF OrderInv, Ordered, Descends, Holds
-----------------------------------------------------------------------------
(* A return from a call that holds nothing. *)
LEMMA ReturnTurns ==
  ASSUME TypeOK, OrderInv, NEW g \in Goroutine, Busy(g), NEW v, Return(g, v),
         \/ UNCHANGED holder /\ ~Holds(Top(g))
         \/ holder' = [holder EXCEPT ![Top(g).c] = Nobody]
  PROVE  OrderInv'
<1>1. PICK q, r : q = stack[g] /\ r = SubSeq(q, 1, Len(q) - 1) OBVIOUS
<1>2. q \in Seq(CallFrame) /\ q # <<>> /\ Ordered(q) /\ Len(q) \in Nat
  BY <1>1 DEF TypeOK, Busy, OrderInv
<1>3. /\ r \in Seq(CallFrame) /\ Len(r) = Len(q) - 1 /\ Ordered(r)
      /\ \A i \in 1..(Len(q) - 1) : r[i] = q[i]
  BY <1>1, <1>2, ReturnOrder
<1>4. stack' = [stack EXCEPT ![g] = r] BY <1>1 DEF Return, Below
<1>5. Turns(g, r) BY <1>1, <1>2, <1>3, <1>4 DEF Turns
<1> QED BY <1>5, TurnsKeep

(* The innermost call goes on. *)
LEMMA BecomeTurns ==
  ASSUME TypeOK, OrderInv, NEW g \in Goroutine, Busy(g), NEW f \in CallFrame,
         Become(g, f), f.fn = Top(g).fn, f.c = Top(g).c, Descends(f),
         \/ UNCHANGED holder /\ ~Holds(Top(g))
         \/ Holds(f) /\ holder' = [holder EXCEPT ![Top(g).c] = g]
         \/ holder' = [holder EXCEPT ![Top(g).c] = Nobody]
  PROVE  OrderInv'
<1>1. PICK q, r : q = stack[g] /\ r = Append(SubSeq(q, 1, Len(q) - 1), f) OBVIOUS
<1>2. /\ q \in Seq(CallFrame) /\ q # <<>> /\ Ordered(q) /\ Len(q) \in Nat \ {0}
      /\ Top(g) = q[Len(q)]
  BY <1>1 DEF TypeOK, Busy, OrderInv, Top
<1>3. /\ r \in Seq(CallFrame) /\ Len(r) = Len(q) /\ Ordered(r) /\ r[Len(q)] = f
      /\ \A i \in 1..(Len(q) - 1) : r[i] = q[i]
  BY <1>1, <1>2, BecomeOrder
<1>4. stack' = [stack EXCEPT ![g] = r] BY <1>1 DEF Become, Below
<1>5. Len(q) \in 1..Len(r) /\ \A i \in 1..(Len(q) - 1) : i \in 1..Len(r) BY <1>2, <1>3
<1>6. Turns(g, r) BY <1>1, <1>2, <1>3, <1>4, <1>5 DEF Turns
<1> QED BY <1>6, TurnsKeep

(* The innermost call enters TypeParams. *)
LEMMA PushTurns ==
  ASSUME TypeOK, OrderInv, NEW g \in Goroutine, Busy(g),
         NEW f \in CallFrame, NEW y \in Class, Push(g, f, Enter("TypeParams", y)),
         f.fn = Top(g).fn, f.c = Top(g).c, Descends(f), Holds(f) => Leads(f.c, y),
         y = f.c \/ f.fn = "MethodType" \/ Leads(f.c, y),
         UNCHANGED holder, ~Holds(Top(g)) \/ Holds(f)
  PROVE  OrderInv'
<1>1. PICK q, r : /\ q = stack[g]
                  /\ r = Append(Append(SubSeq(q, 1, Len(q) - 1), f), Enter("TypeParams", y))
  OBVIOUS
<1>2. /\ q \in Seq(CallFrame) /\ q # <<>> /\ Ordered(q) /\ Len(q) \in Nat \ {0}
      /\ Top(g) = q[Len(q)]
  BY <1>1 DEF TypeOK, Busy, OrderInv, Top
<1>3. /\ r \in Seq(CallFrame) /\ Len(r) = Len(q) + 1 /\ Ordered(r) /\ r[Len(q)] = f
      /\ \A i \in 1..(Len(q) - 1) : r[i] = q[i]
  BY <1>1, <1>2, PushOrder
<1>4. stack' = [stack EXCEPT ![g] = r] BY <1>1 DEF Push, Below
<1>5. Len(q) \in 1..Len(r) /\ \A i \in 1..(Len(q) - 1) : i \in 1..Len(r) BY <1>2, <1>3
<1>6. Turns(g, r) BY <1>1, <1>2, <1>3, <1>4, <1>5 DEF Turns
<1> QED BY <1>6, TurnsKeep
-----------------------------------------------------------------------------
(* A goroutine without a call makes one. *)
LEMMA CallOrder ==
  ASSUME TypeOK, OrderInv, NEW g \in Goroutine, NEW fn \in DOMAIN Entry,
         NEW x \in Class, Call(g, fn, x)
  PROVE  OrderInv'
<1>1. PICK f : f = Enter(fn, x) OBVIOUS
<1>2. f \in CallFrame /\ ~Holds(f) BY <1>1, EnterFresh, FreshOK DEF Fresh, Holds
<1>3. stack \in [Goroutine -> Seq(CallFrame)] /\ holder \in [Class -> Goroutine \cup {Nobody}]
  BY DEF TypeOK
<1>4. /\ stack[g] = <<>> /\ stack'[g] = <<f>> /\ UNCHANGED holder
      /\ \A h \in Goroutine : h # g => stack'[h] = stack[h]
  BY <1>1, <1>3 DEF Call, Busy
<1>5. Ordered(<<f>>)
  <2>1. Len(<<f>>) = 1 /\ <<f>>[1] = f /\ \A i \in 1..Len(<<f>>) : i = 1 OBVIOUS
  <2> QED BY <1>2, <2>1 DEF Ordered, Descends
<1>6. \A h \in Goroutine : Ordered(stack'[h]) BY <1>4, <1>5 DEF OrderInv
<1>7. ASSUME NEW y \in Class, holder[y] # Nobody
      PROVE  holder[y] \in Goroutine /\ stack'[holder[y]] = stack[holder[y]]
  <2>1. holder[y] \in Goroutine BY <1>3, <1>7
  <2>2. \E i \in 1..Len(stack[holder[y]]) : Holds(stack[holder[y]][i]) BY <1>7 DEF OrderInv, Owned
  <2>3. holder[y] # g BY <1>4, <2>2
  <2> QED BY <1>4, <2>1, <2>3
<1>8. Owned' BY <1>4, <1>7 DEF OrderInv, Owned, Holds
<1> QED BY <1>6, <1>8 DEF OrderInv, Ordered, Descends, Holds

(* What the steps of TypeParams keep. *)
LEMMA ParamsOrder ==
  ASSUME TypesAssumption, TableInv, OrderInv, NEW g \in Goroutine,
         ParamsKnown(g) \/ ParamsBegin(g) \/ ParamsEnd(g)
  PROVE  OrderInv'
<1>1. TypeOK /\ Busy(g) BY DEF TableInv, ParamsKnown, ParamsBegin, ParamsEnd, At
<1>2. PICK x : x = Top(g).c OBVIOUS
<1>3. x \in Class /\ Top(g) \in CallFrame BY <1>1, <1>2, TopShape
<1>4. CASE ParamsKnown(g)
  <2>1. Return(g, paramState[x]) /\ UNCHANGED holder /\ ~Holds(Top(g))
    BY <1>2, <1>4 DEF ParamsKnown, Glance, At, Holds
  <2> QED BY <1>1, <2>1, ReturnTurns
<1>5. CASE ParamsBegin(g)
  <2>1. PICK f : f = Frame("TypeParams", x, "body", Bounds[x]) OBVIOUS
  <2>2. Become(g, f) /\ holder' = [holder EXCEPT ![x] = g] /\ Top(g).fn = "TypeParams"
    BY <1>2, <1>5, <2>1 DEF ParamsBegin, Lock, At
  <2>3. f \in CallFrame /\ f.fn = "TypeParams" /\ f.c = x /\ Holds(f) /\ f.todo = Bounds[x]
    BY <1>3, <2>1 DEF TypesAssumption, Frame, CallFrame, Entry, Holds
  <2>4. Descends(f) BY <1>3, <2>3, NamesLead DEF Names, Descends
  <2> QED BY <1>1, <1>2, <2>2, <2>3, <2>4, BecomeTurns
<1>6. CASE ParamsEnd(g)
  <2>1. Return(g, "done") /\ holder' = [holder EXCEPT ![Top(g).c] = Nobody]
    BY <1>6 DEF ParamsEnd, Unlock
  <2> QED BY <1>1, <2>1, ReturnTurns
<1> QED BY <1>4, <1>5, <1>6

(* What the steps of Supertype keep. *)
LEMMA SupersOrder ==
  ASSUME TypesAssumption, TableInv, OrderInv, NEW g \in Goroutine,
         \/ SupersParams(g) \/ SupersKnown(g) \/ SupersBegin(g) \/ SupersEnd(g) \/ SupersRead(g)
  PROVE  OrderInv'
<1>1. TypeOK /\ Busy(g)
  BY DEF TableInv, SupersParams, SupersKnown, SupersBegin, SupersEnd, SupersRead, At
<1>2. PICK x : x = Top(g).c OBVIOUS
<1>3. x \in Class /\ Top(g) \in CallFrame
  BY <1>1, <1>2, TopShape
<1>4. Top(g).fn = "Supertype"
  BY DEF SupersParams, SupersKnown, SupersBegin, SupersEnd, SupersRead, At
<1>5. CASE SupersParams(g)
  <2>1. PICK f : f = [Top(g) EXCEPT !.pc = "lock"] OBVIOUS
  <2>2. Push(g, f, Enter("TypeParams", x)) /\ UNCHANGED holder /\ ~Holds(Top(g))
    BY <1>2, <1>5, <2>1 DEF SupersParams, At, Holds
  <2>3. f \in CallFrame /\ f.fn = Top(g).fn /\ f.c = x /\ ~Holds(f)
    BY <1>2, <1>3, <2>1 DEF CallFrame, Holds
  <2> QED BY <1>1, <1>2, <1>3, <2>2, <2>3, PushTurns DEF Descends
<1>6. CASE SupersKnown(g)
  <2>1. PICK f : f = [Top(g) EXCEPT !.pc = "read"] OBVIOUS
  <2>2. Become(g, f) /\ UNCHANGED holder /\ ~Holds(Top(g))
    BY <1>6, <2>1 DEF SupersKnown, Glance, At, Holds
  <2>3. f \in CallFrame /\ f.fn = Top(g).fn /\ f.c = Top(g).c /\ ~Holds(f)
    BY <1>3, <2>1 DEF CallFrame, Holds
  <2> QED BY <1>1, <2>2, <2>3, BecomeTurns DEF Descends
<1>7. CASE SupersBegin(g)
  <2>1. PICK f : f = Frame("Supertype", x, "body", Supers[x]) OBVIOUS
  <2>2. Become(g, f) /\ holder' = [holder EXCEPT ![x] = g]
    BY <1>2, <1>7, <2>1 DEF SupersBegin, Lock
  <2>3. f \in CallFrame /\ f.fn = "Supertype" /\ f.c = x /\ Holds(f) /\ f.todo = Supers[x]
    BY <1>3, <2>1 DEF TypesAssumption, Frame, CallFrame, Entry, Holds
  <2>4. Descends(f) BY <1>3, <2>3, NamesLead DEF Names, Descends
  <2> QED BY <1>1, <1>2, <1>4, <2>2, <2>3, <2>4, BecomeTurns
<1>8. CASE SupersEnd(g)
  <2>1. PICK f : f = Frame("Supertype", x, "read", <<>>) OBVIOUS
  <2>2. Become(g, f) /\ holder' = [holder EXCEPT ![Top(g).c] = Nobody]
    BY <1>2, <1>8, <2>1 DEF SupersEnd, Unlock
  <2>3. <<>> \in Seq(Class) OBVIOUS
  <2>4. f \in CallFrame /\ f.fn = "Supertype" /\ f.c = x /\ ~Holds(f)
    BY <1>3, <2>1, <2>3 DEF Frame, CallFrame, Entry, Holds
  <2> QED BY <1>1, <1>2, <1>4, <2>2, <2>4, BecomeTurns DEF Descends
<1>9. CASE SupersRead(g)
  <2>1. Return(g, superState[Top(g).c]) /\ UNCHANGED holder /\ ~Holds(Top(g))
    BY <1>9 DEF SupersRead, Glance, At, Holds
  <2> QED BY <1>1, <2>1, ReturnTurns
<1> QED BY <1>5, <1>6, <1>7, <1>8, <1>9

(* What the steps of MethodType keep. *)
LEMMA MethodOrder ==
  ASSUME TypesAssumption, TableInv, OrderInv, NEW g \in Goroutine,
         \/ MethodKnown(g) \/ MethodBuild(g) \/ MethodLost(g) \/ MethodStore(g) \/ MethodFill(g)
  PROVE  OrderInv'
<1>1. TypeOK /\ Busy(g) /\ UNCHANGED holder
  BY DEF TableInv, MethodKnown, MethodBuild, MethodLost, MethodStore, MethodFill, At
<1>2. PICK x : x = Top(g).c OBVIOUS
<1>3. x \in Class /\ Top(g) \in CallFrame
  BY <1>1, <1>2, TopShape
<1>4. Top(g).fn = "MethodType" /\ ~Holds(Top(g))
  BY DEF MethodKnown, MethodBuild, MethodLost, MethodStore, MethodFill, At, Holds
<1>5. CASE MethodKnown(g) \/ MethodLost(g) \/ MethodFill(g)
  BY <1>1, <1>4, <1>5, ReturnTurns DEF MethodKnown, MethodLost, MethodFill
<1>6. CASE MethodBuild(g)
  <2>1. PICK f : f = Frame("MethodType", x, "body", Signature[x]) OBVIOUS
  <2>2. Push(g, f, Enter("TypeParams", x)) BY <1>2, <1>6, <2>1 DEF MethodBuild
  <2>3. f \in CallFrame /\ f.fn = "MethodType" /\ f.c = x /\ ~Holds(f)
    BY <1>3, <2>1 DEF TypesAssumption, Frame, CallFrame, Entry, Holds
  <2> QED BY <1>1, <1>2, <1>3, <1>4, <2>2, <2>3, PushTurns DEF Descends
<1>7. CASE MethodStore(g)
  <2>1. PICK f : f = [Top(g) EXCEPT !.pc = "fill"] OBVIOUS
  <2>2. Become(g, f) BY <1>7, <2>1 DEF MethodStore
  <2>3. f \in CallFrame /\ f.fn = Top(g).fn /\ f.c = Top(g).c /\ ~Holds(f)
    BY <1>3, <2>1 DEF CallFrame, Holds
  <2> QED BY <1>1, <1>4, <2>2, <2>3, BecomeTurns DEF Descends
<1> QED BY <1>5, <1>6, <1>7

(* A mention takes a goroutine that holds a mutex where its class leads. *)
LEMMA MentionOrder ==
  ASSUME TypesAssumption, TableInv, OrderInv, NEW g \in Goroutine,
         Mention(g)
  PROVE  OrderInv'
<1>1. TypeOK /\ Busy(g) /\ UNCHANGED holder BY DEF TableInv, Mention
<1>2. PICK t, todo : t = Top(g) /\ todo = t.todo OBVIOUS
<1>3. /\ t \in CallFrame /\ todo \in Seq(Class) /\ todo # <<>> /\ t.pc = "body"
      /\ t.fn \in {"TypeParams", "Supertype", "MethodType"}
  BY <1>1, <1>2, TopShape DEF Mention, Entry
<1>4. PICK f, y : f = [t EXCEPT !.todo = Tail(todo)] /\ y = Head(todo) OBVIOUS
<1>5. Push(g, f, Enter("TypeParams", y)) BY <1>2, <1>4 DEF Mention
<1>6. /\ Len(todo) \in Nat \ {0} /\ y \in Class /\ y = todo[1] /\ Tail(todo) \in Seq(Class)
      /\ Len(Tail(todo)) = Len(todo) - 1
      /\ \A i \in 1..Len(Tail(todo)) : i + 1 \in 1..Len(todo) /\ Tail(todo)[i] = todo[i + 1]
  <2>1. todo \in Seq(Class) /\ todo # <<>> BY <1>3
  <2>2. Len(todo) \in Nat \ {0} /\ todo[1] \in Class /\ Head(todo) = todo[1] BY <2>1
  <2>3. Tail(todo) \in Seq(Class) /\ Len(Tail(todo)) = Len(todo) - 1 BY <2>1
  <2>4. \A i \in 1..Len(Tail(todo)) : i + 1 \in 1..Len(todo) BY <2>2, <2>3
  <2>5. \A i \in 1..Len(Tail(todo)) : Tail(todo)[i] = todo[i + 1] BY <2>1, <2>2, <2>3
  <2> QED BY <1>4, <2>2, <2>3, <2>4, <2>5
<1>7. /\ f \in CallFrame /\ f.fn = t.fn /\ f.c = t.c /\ f.pc = "body" /\ f.todo = Tail(todo)
      /\ Holds(f) <=> Holds(t)
  BY <1>3, <1>4, <1>6 DEF CallFrame, Holds
<1>8. Descends(t)
  BY <1>1, <1>2, TopShape DEF OrderInv, Ordered
<1>9. Holds(t) => Leads(t.c, y)
  <2>1. 1 \in 1..Len(todo) BY <1>6
  <2> QED BY <1>2, <1>6, <1>8, <2>1 DEF Descends
<1>10. Descends(f)
  <2> SUFFICES ASSUME Holds(f), NEW i \in 1..Len(Tail(todo))
               PROVE  Leads(t.c, Tail(todo)[i])
    BY <1>7 DEF Descends
  <2>1. Holds(t) /\ i + 1 \in 1..Len(todo) /\ Tail(todo)[i] = todo[i + 1] BY <1>6, <1>7
  <2>2. Leads(t.c, todo[i + 1]) BY <1>2, <1>8, <2>1 DEF Descends
  <2> QED BY <2>1, <2>2
<1>11. f.fn = "MethodType" \/ Holds(f) BY <1>3, <1>7 DEF Holds
<1> QED BY <1>1, <1>2, <1>3, <1>5, <1>6, <1>7, <1>9, <1>10, <1>11, PushTurns

(* Every step keeps the order. *)
LEMMA OrderStep ==
  ASSUME TypesAssumption, TableInv, OrderInv, [Next]_vars
  PROVE  OrderInv'
<1>1. TypeOK BY DEF TableInv
<1>2. CASE UNCHANGED vars
  <2>1. UNCHANGED <<stack, holder>> BY <1>2 DEF vars
  <2>2. Owned' BY <2>1 DEF OrderInv, Owned, Holds
  <2>3. \A h \in Goroutine : Ordered(stack'[h]) BY <2>1 DEF OrderInv
  <2> QED BY <2>2, <2>3 DEF OrderInv, Ordered, Descends, Holds
<1>3. CASE Next
  <2>1. PICK g \in Goroutine : (\E x \in Class, fn \in DOMAIN Entry : Call(g, fn, x)) \/ Step(g)
    BY <1>3 DEF Next
  <2>2. CASE \E x \in Class, fn \in DOMAIN Entry : Call(g, fn, x) BY <1>1, <2>2, CallOrder
  <2>3. CASE Step(g)
    BY <2>3, ParamsOrder, SupersOrder, MethodOrder, MentionOrder DEF Step
  <2> QED BY <2>1, <2>2, <2>3
<1> QED BY <1>2, <1>3

(* Above the call with which somebody holds a mutex there are only calls    *)
(* about classes that its class leads to.                                   *)
LEMMA OrderFollows ==
  ASSUME TableInv, TypesAssumption, OrderInv
  PROVE  WaitsFollowNames
<1> SUFFICES ASSUME NEW g \in Goroutine, Blocked(g)
             PROVE  LET x == Top(g).c IN
                      /\ Busy(holder[x])
                      /\ Blocked(holder[x]) => Leads(x, Top(holder[x]).c)
  BY DEF WaitsFollowNames
<1>1. TypeOK BY DEF TableInv
<1>2. PICK x, h : x = Top(g).c /\ h = holder[x] OBVIOUS
<1>3. x \in Class /\ h # Nobody BY <1>1, <1>2, TopShape DEF Blocked
<1>4. h \in Goroutine BY <1>1, <1>2, <1>3 DEF TypeOK
<1>5. PICK i \in 1..Len(stack[h]) : Holds(stack[h][i]) /\ stack[h][i].c = x
  BY <1>2, <1>3 DEF OrderInv, Owned
<1>6. Busy(h)
  <2>1. stack[h] \in Seq(CallFrame) BY <1>1, <1>4 DEF TypeOK
  <2> QED BY <1>5, <2>1 DEF Busy
<1>7. ASSUME Blocked(h) PROVE Leads(x, Top(h).c)
  <2>1. /\ Len(stack[h]) \in Nat \ {0} /\ Len(stack[h]) \in 1..Len(stack[h])
        /\ Top(h) = stack[h][Len(stack[h])]
    BY <1>1, <1>4, <1>6, TopShape
  <2>2. i # Len(stack[h]) BY <1>5, <1>7, <2>1 DEF Blocked, Holds
  <2>3. i < Len(stack[h]) BY <1>5, <2>1, <2>2
  <2> QED BY <1>4, <1>5, <2>1, <2>3 DEF OrderInv, Ordered
<1> QED BY <1>2, <1>6, <1>7

(* For all declarations, circular ones included: a goroutine that waits for *)
(* the mutex of a class waits for somebody with a call to finish, and when  *)
(* that one waits too it is for a class the first leads to.  A deadlock on  *)
(* the mutexes of classInfo therefore runs along the names of a circle of   *)
(* declarations (TypeParams, completeSupers, classOf).                      *)
THEOREM DeadlocksFollowNames == Spec => []WaitsFollowNames
<1>1. Init => TableInv BY InitTable, TypesAssumption
<1>2. TableInv /\ [Next]_vars => TableInv' BY NextTable, TypesAssumption
<1>3. Init => OrderInv
  <2> SUFFICES ASSUME Init PROVE OrderInv OBVIOUS
  <2>1. Owned BY DEF Init, Owned
  <2>2. \A g \in Goroutine : stack[g] = <<>> BY DEF Init
  <2>3. Ordered(<<>>) BY DEF Ordered
  <2> QED BY <2>1, <2>2, <2>3 DEF OrderInv
<1>4. TableInv /\ OrderInv /\ [Next]_vars => OrderInv' BY OrderStep, TypesAssumption
<1>5. TableInv /\ OrderInv => WaitsFollowNames BY OrderFollows, TypesAssumption
<1> QED BY <1>1, <1>2, <1>3, <1>4, <1>5, PTL DEF Spec
=============================================================================
