---------------------------- MODULE SymTableProofs ----------------------------
(***************************************************************************)
(* Proofs about SymTable, for any goroutines, names, class path, class      *)
(* files and number of calls.                                               *)
(***************************************************************************)
EXTENDS SymTable, TLAPS

(* What a symbol and a goroutine's state are made of. *)
SymRec ==
  [name: Name, src: BOOLEAN, mu: Goroutine \cup {Nobody},
   state: {"notCompleted", "completing", "completed"}, err: {"none", "unreadable"},
   outer: Nat, members: SUBSET Nat, runs: Nat]
RunRec ==
  [pc: {"idle", "insert", "wait", "load", "rows", "nested"}, n: Name \cup {Nobody}, s: Nat,
   rows: Seq(Row), ans: {"none", "unreadable", "cyclic"}]

Shapes ==
  /\ classes \in [Name -> Nat] /\ syms \in Seq(SymRec)
  /\ run \in [Goroutine -> RunRec] /\ calls \in [Goroutine -> 0..MaxCalls]

(* A name in the table leads to a symbol of that name, and what a symbol    *)
(* points to exists.                                                        *)
Refs ==
  /\ \A n \in Name : classes[n] <= Len(syms) /\ (classes[n] # 0 => syms[classes[n]].name = n)
  /\ \A s \in 1..Len(syms) : syms[s].outer <= Len(syms) /\ syms[s].members \subseteq 1..Len(syms)

(* The name of every symbol is taken: by itself, or by the source class     *)
(* that took it from a class file.                                          *)
Taken ==
  \A s \in 1..Len(syms) : LET c == classes[syms[s].name] IN
    c = s \/ (~syms[s].src /\ c # 0 /\ syms[c].src)

Busy(g) == run[g].pc \in {"load", "rows", "nested"}

(* The state tells what a symbol went through, and a completed class file   *)
(* has all its rows entered.                                                *)
SymOK(s) ==
  /\ syms[s].state = "completing" <=> syms[s].mu # Nobody
  /\ syms[s].runs = IF syms[s].state = "notCompleted" THEN 0 ELSE 1
  /\ syms[s].state = "completed" /\ syms[s].err = "none" /\ ~syms[s].src =>
       Entered(syms, s, Rows[syms[s].name], Len(Rows[syms[s].name]))

(* rows is what is left of all. *)
Suffix(rows, all) ==
  /\ Len(rows) <= Len(all)
  /\ \A i \in 1..Len(rows) : rows[i] = all[i + (Len(all) - Len(rows))]

(* A goroutine in a completer holds the mutex of its symbol, and the rows   *)
(* it has behind it are entered.                                            *)
RunOK(g) ==
  /\ run[g].pc = "insert" => run[g].n \in Name
  /\ run[g].pc = "wait" \/ Busy(g) => run[g].s \in 1..Len(syms)
  /\ Busy(g) => syms[run[g].s].mu = g
  /\ run[g].pc \in {"rows", "nested"} =>
       LET all == Rows[syms[run[g].s].name] IN
         /\ Suffix(run[g].rows, all)
         /\ Entered(syms, run[g].s, all, Len(all) - Len(run[g].rows))
  /\ run[g].pc = "nested" => run[g].rows # <<>>

Threads == (\A s \in 1..Len(syms) : SymOK(s)) /\ (\A g \in Goroutine : RunOK(g))

TableInv == Shapes /\ Refs /\ Taken /\ OneSymbolPerFile /\ Threads
-----------------------------------------------------------------------------
(* The fields of a symbol. *)
LEMMA SymFields ==
  ASSUME NEW x \in SymRec
  PROVE  /\ x.name \in Name /\ x.src \in BOOLEAN /\ x.mu \in Goroutine \cup {Nobody}
         /\ x.state \in {"notCompleted", "completing", "completed"}
         /\ x.err \in {"none", "unreadable"}
         /\ x.outer \in Nat /\ x.members \subseteq Nat /\ x.runs \in Nat
BY DEF SymRec

(* The two updates of a row. *)
LEMMA SymUpdates ==
  ASSUME NEW x \in SymRec, NEW t \in Nat
  PROVE  /\ [x EXCEPT !.outer = t] \in SymRec
         /\ [x EXCEPT !.members = x.members \cup {t}] \in SymRec
BY DEF SymRec

(* What is entered stays entered while the list of symbols grows, names are *)
(* kept and the symbol gains members only (the scope of enterNested).       *)
LEMMA EnteredGrows ==
  ASSUME NEW ss \in Seq(SymRec), NEW tt \in Seq(SymRec), NEW s \in 1..Len(ss),
         Len(ss) <= Len(tt), \A t \in 1..Len(ss) : tt[t].name = ss[t].name,
         ss[s].outer <= Len(ss), ss[s].members \subseteq 1..Len(ss),
         tt[s].outer = ss[s].outer, ss[s].members \subseteq tt[s].members,
         NEW rows, NEW k \in Nat, Entered(ss, s, rows, k)
  PROVE  Entered(tt, s, rows, k)
<1> SUFFICES ASSUME NEW i \in 1..k, rows[i].n \in OnPath
             PROVE  IF rows[i].own
                    THEN (\A j \in i + 1 .. k : ~rows[j].own) =>
                           tt[s].outer # 0 /\ tt[tt[s].outer].name = rows[i].n
                    ELSE \E t \in tt[s].members : tt[t].name = rows[i].n
  BY DEF Entered
<1>1. ss[s] \in SymRec OBVIOUS
<1>2. CASE rows[i].own
  <2> SUFFICES ASSUME \A j \in i + 1 .. k : ~rows[j].own
               PROVE  tt[s].outer # 0 /\ tt[tt[s].outer].name = rows[i].n
    BY <1>2
  <2>1. ss[s].outer # 0 /\ ss[ss[s].outer].name = rows[i].n BY <1>2 DEF Entered
  <2>2. ss[s].outer \in 1..Len(ss) BY <1>1, <2>1, SymFields
  <2> QED BY <2>1, <2>2
<1>3. CASE ~rows[i].own
  <2>1. PICK t \in ss[s].members : ss[t].name = rows[i].n BY <1>3 DEF Entered
  <2> QED BY <1>3, <2>1
<1> QED BY <1>2, <1>3

(* The update of a symbol in the list, as a whole. *)
LEMMA SymReplaced ==
  ASSUME NEW ss \in Seq(SymRec), NEW s \in 1..Len(ss), NEW x \in SymRec,
         NEW tt, tt = [ss EXCEPT ![s] = x]
  PROVE  /\ tt \in Seq(SymRec) /\ Len(tt) = Len(ss) /\ tt[s] = x
         /\ \A y \in 1..Len(ss) : y # s => tt[y] = ss[y]
OBVIOUS

(* What a row that names the class t does to the symbol x. *)
Gains(x, y, row, t) ==
  /\ y.name = x.name /\ y.src = x.src /\ y.mu = x.mu
  /\ y.state = x.state /\ y.err = x.err /\ y.runs = x.runs
  /\ row.own => y.outer = t /\ y.members = x.members
  /\ ~row.own => y.outer = x.outer
  /\ ~row.own /\ t # 0 => y.members = x.members \cup {t}
  /\ ~row.own /\ t = 0 => y.members = x.members

(* Neither update leaves the list. *)
LEMMA GainsBounded ==
  ASSUME NEW x, NEW y, NEW row \in Row, NEW m \in Nat, NEW t \in 0..m, Gains(x, y, row, t),
         x.outer <= m, x.members \subseteq 1..m
  PROVE  y.outer <= m /\ y.members \subseteq 1..m
<1>1. row.own \in BOOLEAN BY DEF Row
<1>2. CASE row.own BY <1>2 DEF Gains
<1>3. CASE ~row.own /\ t = 0 BY <1>3 DEF Gains
<1>4. CASE ~row.own /\ t # 0 BY <1>4 DEF Gains
<1> QED BY <1>1, <1>2, <1>3, <1>4

(* What a row does to a list of symbols (Linked). *)
LEMMA LinkedShape ==
  ASSUME NEW ss \in Seq(SymRec), NEW s \in 1..Len(ss), NEW row \in Row, NEW t \in 0..Len(ss)
  PROVE  LET tt == Linked(ss, s, row, t) IN
           /\ tt \in Seq(SymRec) /\ Len(tt) = Len(ss)
           /\ \A x \in 1..Len(ss) : x # s => tt[x] = ss[x]
           /\ Gains(ss[s], tt[s], row, t)
<1>0. t \in Nat OBVIOUS
<1>1. ss[s] \in SymRec OBVIOUS
<1>2. CASE row.own
  <2>1. [ss[s] EXCEPT !.outer = t] \in SymRec BY <1>0, <1>1, SymUpdates, Zenon
  <2>2. Linked(ss, s, row, t) = [ss EXCEPT ![s] = [ss[s] EXCEPT !.outer = t]]
    BY <1>2 DEF Linked
  <2>3. Len(Linked(ss, s, row, t)) = Len(ss) /\ Linked(ss, s, row, t) \in Seq(SymRec) BY <2>1, <2>2
  <2>4. LET y == [ss[s] EXCEPT !.outer = t] IN
          /\ y.name = ss[s].name /\ y.src = ss[s].src /\ y.mu = ss[s].mu
          /\ y.state = ss[s].state /\ y.err = ss[s].err /\ y.runs = ss[s].runs
          /\ y.outer = t /\ y.members = ss[s].members
    BY <1>1 DEF SymRec
  <2>5. Linked(ss, s, row, t)[s] = [ss[s] EXCEPT !.outer = t] BY <2>2
  <2>6. \A x \in 1..Len(ss) : x # s => Linked(ss, s, row, t)[x] = ss[x] BY <2>2
  <2> QED BY <1>2, <2>3, <2>4, <2>5, <2>6 DEF Gains
<1>3. CASE ~row.own /\ t # 0
  <2> DEFINE y == [ss[s] EXCEPT !.members = ss[s].members \cup {t}]
  <2>1. y \in SymRec BY <1>0, <1>1, SymUpdates, Zenon
  <2>2. /\ y.name = ss[s].name /\ y.src = ss[s].src /\ y.mu = ss[s].mu
        /\ y.state = ss[s].state /\ y.err = ss[s].err /\ y.runs = ss[s].runs
        /\ y.outer = ss[s].outer /\ y.members = ss[s].members \cup {t}
    BY <1>1 DEF SymRec
  <2>3. Linked(ss, s, row, t) = [ss EXCEPT ![s] = y] BY <1>3 DEF Linked
  <2> HIDE DEF y
  <2> QED BY <1>3, <2>1, <2>2, <2>3, SymReplaced DEF Gains
<1>4. CASE ~row.own /\ t = 0
  BY <1>4 DEF Linked, Gains
<1> QED BY <1>2, <1>3, <1>4 DEF Row

(* A row that is linked is entered, and the rows before it still are. *)
LEMMA EnteredNext ==
  ASSUME NEW ss \in Seq(SymRec), NEW s \in 1..Len(ss), NEW t \in 0..Len(ss),
         ss[s].outer <= Len(ss), ss[s].members \subseteq 1..Len(ss),
         NEW rows \in Seq(Row), NEW k \in Nat, k + 1 <= Len(rows),
         rows[k + 1].n \in OnPath => t # 0 /\ ss[t].name = rows[k + 1].n,
         Entered(ss, s, rows, k)
  PROVE  Entered(Linked(ss, s, rows[k + 1], t), s, rows, k + 1)
<1> DEFINE tt == Linked(ss, s, rows[k + 1], t)
<1>1. rows[k + 1] \in Row OBVIOUS
<1>2. /\ tt \in Seq(SymRec) /\ Len(tt) = Len(ss)
      /\ \A x \in 1..Len(ss) : x # s => tt[x] = ss[x]
      /\ Gains(ss[s], tt[s], rows[k + 1], t)
  BY <1>1, LinkedShape
<1>3. \A x \in 1..Len(ss) : tt[x].name = ss[x].name BY <1>2 DEF Gains
<1>4. ss[s] \in SymRec OBVIOUS
<1> HIDE DEF tt
<1> SUFFICES ASSUME NEW i \in 1..(k + 1), rows[i].n \in OnPath
             PROVE  IF rows[i].own
                    THEN (\A j \in i + 1 .. k + 1 : ~rows[j].own) =>
                           tt[s].outer # 0 /\ tt[tt[s].outer].name = rows[i].n
                    ELSE \E u \in tt[s].members : tt[u].name = rows[i].n
  BY DEF Entered, tt
<1>5. CASE i = k + 1 /\ rows[i].own BY <1>2, <1>3, <1>5 DEF Gains
<1>6. CASE i = k + 1 /\ ~rows[i].own
  <2>1. t \in tt[s].members /\ tt[t].name = rows[i].n BY <1>2, <1>3, <1>6 DEF Gains
  <2> QED BY <1>6, <2>1
<1>7. CASE i # k + 1 /\ rows[i].own
  <2> SUFFICES ASSUME \A j \in i + 1 .. k + 1 : ~rows[j].own
               PROVE  tt[s].outer # 0 /\ tt[tt[s].outer].name = rows[i].n
    BY <1>7
  <2>1. i \in 1..k /\ \A j \in i + 1 .. k : ~rows[j].own BY <1>7
  <2>2. ss[s].outer # 0 /\ ss[ss[s].outer].name = rows[i].n BY <1>7, <2>1 DEF Entered
  <2>3. tt[s].outer = ss[s].outer
    <3>1. ~rows[k + 1].own BY <1>7
    <3> QED BY <1>2, <3>1 DEF Gains
  <2>4. ss[s].outer \in 1..Len(ss) BY <1>4, <2>2, SymFields
  <2> QED BY <1>3, <2>2, <2>3, <2>4
<1>8. CASE i # k + 1 /\ ~rows[i].own
  <2>1. PICK u \in ss[s].members : ss[u].name = rows[i].n BY <1>8 DEF Entered
  <2>2. ss[s].members \subseteq tt[s].members BY <1>1, <1>2 DEF Gains, Row
  <2>3. u \in tt[s].members /\ tt[u].name = rows[i].n BY <1>3, <2>1, <2>2
  <2> QED BY <1>8, <2>3
<1> QED BY <1>5, <1>6, <1>7, <1>8

(* A new symbol at the end of the list. *)
LEMMA AppendShape ==
  ASSUME NEW ss \in Seq(SymRec), NEW n \in Name, NEW src \in BOOLEAN
  PROVE  LET tt == Append(ss, Stub(n, src)) IN
           /\ tt \in Seq(SymRec) /\ Len(tt) = Len(ss) + 1
           /\ \A x \in 1..Len(ss) : tt[x] = ss[x]
           /\ tt[Len(ss) + 1] = Stub(n, src)
<1>1. Stub(n, src) \in SymRec BY DEF SymRec, Stub
<1> QED BY <1>1

-----------------------------------------------------------------------------
(* The table after a symbol was made for a name that no symbol has, or that *)
(* a source class takes from a class file (stub, Declare).                  *)
LEMMA NewName ==
  ASSUME Shapes, Refs, Taken, OneSymbolPerFile, NEW n \in Name, NEW src \in BOOLEAN,
         syms' \in Seq(SymRec), Len(syms') = Len(syms) + 1,
         \A x \in 1..Len(syms) : syms'[x].name = syms[x].name /\ syms'[x].src = syms[x].src,
         syms'[Len(syms) + 1].name = n, syms'[Len(syms) + 1].src = src,
         \A x \in 1..Len(syms') :
           syms'[x].outer <= Len(syms') /\ syms'[x].members \subseteq 1..Len(syms'),
         classes' = [classes EXCEPT ![n] = Len(syms) + 1],
         classes[n] = 0 \/ (src /\ ~syms[classes[n]].src)
  PROVE  classes' \in [Name -> Nat] /\ Refs' /\ Taken' /\ OneSymbolPerFile'
<1>1. Len(syms) \in Nat /\ classes \in [Name -> Nat] BY DEF Shapes
<1>2. \A x \in 1..Len(syms) : syms[x].name \in Name /\ syms[x].src \in BOOLEAN
  BY SymFields DEF Shapes
<1>3. classes' \in [Name -> Nat] BY <1>1
<1>4. Refs' BY <1>1 DEF Refs
<1>5. Taken'
  <2> SUFFICES ASSUME NEW x \in 1..Len(syms')
               PROVE  LET c == classes'[syms'[x].name] IN
                        c = x \/ (~syms'[x].src /\ c # 0 /\ syms'[c].src)
    BY DEF Taken
  <2>1. CASE x = Len(syms) + 1 BY <1>1, <2>1
  <2>2. CASE x \in 1..Len(syms) /\ syms[x].name = n BY <1>1, <2>2 DEF Taken
  <2>3. CASE x \in 1..Len(syms) /\ syms[x].name # n
    BY <1>1, <1>2, <2>3 DEF Taken, Refs
  <2> QED BY <1>1, <2>1, <2>2, <2>3
<1>6. OneSymbolPerFile'
  <2> SUFFICES ASSUME NEW x \in 1..Len(syms'), NEW y \in 1..Len(syms'), ~syms'[x].src,
                      ~syms'[y].src, syms'[x].name = syms'[y].name
               PROVE  x = y
    BY DEF OneSymbolPerFile
  <2>1. ASSUME NEW z \in 1..Len(syms), ~src PROVE syms[z].name # n
    BY <1>1, <2>1 DEF Taken
  <2>2. DOMAIN syms = 1..Len(syms) BY DEF Shapes
  <2>3. CASE x \in 1..Len(syms) /\ y \in 1..Len(syms) BY <2>2, <2>3 DEF OneSymbolPerFile
  <2>4. CASE x = Len(syms) + 1 /\ y \in 1..Len(syms) BY <2>1, <2>4
  <2>5. CASE y = Len(syms) + 1 /\ x \in 1..Len(syms) BY <2>1, <2>5
  <2> QED BY <1>1, <2>3, <2>4, <2>5
<1> QED BY <1>3, <1>4, <1>5, <1>6

(* The table after a step that makes no symbol. *)
LEMMA SameNames ==
  ASSUME Shapes, Refs, Taken, OneSymbolPerFile,
         syms' \in Seq(SymRec), Len(syms') = Len(syms), classes' = classes,
         \A x \in 1..Len(syms) : syms'[x].name = syms[x].name /\ syms'[x].src = syms[x].src,
         \A x \in 1..Len(syms') :
           syms'[x].outer <= Len(syms') /\ syms'[x].members \subseteq 1..Len(syms')
  PROVE  classes' \in [Name -> Nat] /\ Refs' /\ Taken' /\ OneSymbolPerFile'
<1>1. Len(syms) \in Nat /\ classes \in [Name -> Nat] BY DEF Shapes
<1>2. \A x \in 1..Len(syms) : syms[x].name \in Name /\ syms[x].src \in BOOLEAN
  BY SymFields DEF Shapes
<1>3. Refs' BY <1>1 DEF Refs
<1>4. Taken' BY <1>1, <1>2 DEF Taken, Refs
<1>5. OneSymbolPerFile' BY DEF OneSymbolPerFile, Shapes
<1> QED BY <1>1, <1>3, <1>4, <1>5

(* A step of g that changes no symbol but s, whose mutex nobody else holds, *)
(* disturbs neither the other symbols nor the other goroutines.             *)
LEMMA OthersKeep ==
  ASSUME TableInv, NEW g \in Goroutine, NEW s \in 0..Len(syms),
         syms' \in Seq(SymRec), Len(syms) <= Len(syms'),
         \A x \in 1..Len(syms) : x # s => syms'[x] = syms[x],
         s # 0 => syms'[s].name = syms[s].name /\ syms[s].mu \in {g, Nobody},
         \A x \in Len(syms) + 1 .. Len(syms') : \E n \in Name, src \in BOOLEAN : syms'[x] = Stub(n, src),
         \A h \in Goroutine : h # g => run'[h] = run[h]
  PROVE  /\ \A x \in 1..Len(syms') : x # s => SymOK(x)'
         /\ \A h \in Goroutine : h # g => RunOK(h)'
<1>1. Len(syms) \in Nat /\ syms \in Seq(SymRec) /\ Len(syms') \in Nat BY DEF TableInv, Shapes
<1>2. \A x \in 1..Len(syms) : syms'[x].name = syms[x].name OBVIOUS
<1>3. ASSUME NEW x \in 1..Len(syms), x # s, NEW rows, NEW k \in Nat, Entered(syms, x, rows, k)
      PROVE  Entered(syms', x, rows, k)
  <2>1. syms[x].outer <= Len(syms) /\ syms[x].members \subseteq 1..Len(syms)
    BY DEF TableInv, Refs
  <2>2. syms'[x].outer = syms[x].outer /\ syms[x].members \subseteq syms'[x].members BY <1>3
  <2> HIDE DEF SymRec
  <2> QED BY <1>1, <1>2, <1>3, <2>1, <2>2, EnteredGrows
<1>4. \A x \in 1..Len(syms) : Rows[syms[x].name] \in Seq(Row)
  BY SymAssumption, SymFields DEF TableInv, Shapes
<1>5. ASSUME NEW x \in 1..Len(syms'), x # s PROVE SymOK(x)'
  <2>1. CASE x \in 1..Len(syms)
    <3>1. SymOK(x) BY <2>1 DEF TableInv, Threads
    <3>2. Len(Rows[syms[x].name]) \in Nat BY <1>4, <2>1
    <3> QED BY <1>3, <1>5, <2>1, <3>1, <3>2 DEF SymOK
  <2>2. CASE x \in Len(syms) + 1 .. Len(syms')
    <3>1. PICK n \in Name, src \in BOOLEAN : syms'[x] = Stub(n, src) BY <2>2
    <3>2. syms'[x].state = "notCompleted" /\ syms'[x].mu = Nobody /\ syms'[x].runs = 0
      BY <3>1 DEF Stub
    <3> QED BY <3>2 DEF SymOK
  <2> QED BY <1>1, <2>1, <2>2
<1>6. ASSUME NEW h \in Goroutine, h # g PROVE RunOK(h)'
  <2>1. RunOK(h) /\ run'[h] = run[h] /\ run[h] \in RunRec BY <1>6 DEF TableInv, Threads, Shapes
  <2>2. run[h].rows \in Seq(Row) BY <2>1 DEF RunRec
  <2>3. CASE Busy(h)
    <3>1. run[h].s \in 1..Len(syms) /\ syms[run[h].s].mu = h BY <2>1, <2>3 DEF RunOK
    <3>2. run[h].s # s BY <1>6, <3>1, SymAssumption
    <3>3. syms'[run[h].s] = syms[run[h].s] BY <3>1, <3>2
    <3>4. run[h].pc \in {"rows", "nested"} =>
            LET all == Rows[syms[run[h].s].name] IN
              Entered(syms', run[h].s, all, Len(all) - Len(run[h].rows))
      <4> SUFFICES ASSUME run[h].pc \in {"rows", "nested"}
                   PROVE  LET all == Rows[syms[run[h].s].name] IN
                            Entered(syms', run[h].s, all, Len(all) - Len(run[h].rows))
        OBVIOUS
      <4> DEFINE all == Rows[syms[run[h].s].name]
      <4>1. Suffix(run[h].rows, all) /\ Entered(syms, run[h].s, all, Len(all) - Len(run[h].rows))
        BY <2>1 DEF RunOK
      <4>2. Len(all) \in Nat /\ Len(run[h].rows) \in Nat /\ Len(run[h].rows) <= Len(all)
        <5>1. all \in Seq(Row) BY <1>4, <3>1
        <5>2. Len(run[h].rows) <= Len(all) BY <4>1, Zenon DEF Suffix
        <5> HIDE DEF all
        <5> QED BY <2>2, <5>1, <5>2
      <4>3. Len(all) - Len(run[h].rows) \in Nat BY <4>2
      <4> HIDE DEF all
      <4>4. Entered(syms', run[h].s, all, Len(all) - Len(run[h].rows)) BY <1>3, <3>1, <3>2, <4>1, <4>3
      <4> QED BY <4>4 DEF all
    <3>5. run[h].s \in 1..Len(syms') BY <1>1, <3>1
    <3>6. run[h].pc # "insert" /\ run[h].pc # "wait" BY <2>3 DEF Busy
    <3>7. RunOK(h)
            => /\ run[h].pc \in {"rows", "nested"} =>
                    Suffix(run[h].rows, Rows[syms[run[h].s].name])
               /\ run[h].pc = "nested" => run[h].rows # <<>>
      BY DEF RunOK
    <3> QED BY <2>1, <3>1, <3>3, <3>4, <3>5, <3>6, <3>7 DEF RunOK
  <2>4. CASE ~Busy(h)
    <3>1. run[h].pc \notin {"load", "rows", "nested"} /\ ~Busy(h)' BY <2>1, <2>4 DEF Busy
    <3>2. run[h].pc = "insert" => run[h].n \in Name BY <2>1 DEF RunOK
    <3>3. run[h].pc = "wait" => run[h].s \in 1..Len(syms') BY <1>1, <2>1 DEF RunOK
    <3> QED BY <2>1, <3>1, <3>2, <3>3 DEF RunOK
  <2> QED BY <2>3, <2>4
<1> QED BY <1>5, <1>6
-----------------------------------------------------------------------------
(* A goroutine's next state. *)
LEMMA Becomes ==
  ASSUME Shapes, NEW g \in Goroutine, NEW r \in RunRec, Become(g, r)
  PROVE  /\ run' \in [Goroutine -> RunRec] /\ run'[g] = r
         /\ \A h \in Goroutine : h # g => run'[h] = run[h]
BY DEF Shapes, Become

(* Between calls, and after a return, a goroutine has no symbol in hand. *)
LEMMA IdleRuns ==
  ASSUME NEW ans \in {"none", "unreadable", "cyclic"}
  PROVE  /\ Idle \in RunRec /\ Idle.pc = "idle"
         /\ [Idle EXCEPT !.ans = ans] \in RunRec /\ [Idle EXCEPT !.ans = ans].pc = "idle"
<1>1. <<>> \in Seq(Row) OBVIOUS
<1> HIDE DEF Row
<1> QED BY <1>1 DEF Idle, RunRec

(* A goroutine between calls owes nothing. *)
LEMMA IdleOK ==
  ASSUME NEW g \in Goroutine, run'[g].pc = "idle"
  PROVE  RunOK(g)'
BY DEF RunOK, Busy

(* A step that leaves the table and the symbols alone. *)
LEMMA Quiet ==
  ASSUME TableInv, NEW g \in Goroutine, NEW r \in RunRec, Become(g, r),
         UNCHANGED <<classes, syms>>, calls' \in [Goroutine -> 0..MaxCalls], RunOK(g)'
  PROVE  TableInv'
<1>1. Shapes /\ Refs /\ Taken /\ OneSymbolPerFile BY DEF TableInv
<1>2. Shapes' BY <1>1, Becomes DEF Shapes
<1>3. Refs' /\ Taken' /\ OneSymbolPerFile' BY <1>1 DEF Refs, Taken, OneSymbolPerFile
<1>4. \A h \in Goroutine : h # g => run'[h] = run[h] BY <1>1, Becomes
<1>5. syms \in Seq(SymRec) /\ Len(syms) \in Nat BY <1>1 DEF Shapes
<1>6. /\ \A x \in 1..Len(syms') : x # 0 => SymOK(x)'
      /\ \A h \in Goroutine : h # g => RunOK(h)'
  BY <1>4, <1>5, OthersKeep
<1>7. Threads' BY <1>5, <1>6 DEF Threads
<1> QED BY <1>2, <1>3, <1>7 DEF TableInv

(* A call counts. *)
LEMMA Counts ==
  ASSUME Shapes, NEW g \in Goroutine, Starts(g)
  PROVE  calls' \in [Goroutine -> 0..MaxCalls] /\ run[g].pc = "idle"
BY SymAssumption DEF Shapes, Starts, At

(* Table.Class up to the insertion. *)
LEMMA ClassKeeps ==
  ASSUME TableInv, NEW g \in Goroutine, NEW n \in Name, Class(g, n)
  PROVE  TableInv'
<1>1. Shapes BY DEF TableInv
<1>2. calls' \in [Goroutine -> 0..MaxCalls] /\ run[g].pc = "idle" BY <1>1, Counts DEF Class
<1>3. CASE UNCHANGED run
  <2>1. run[g] \in RunRec /\ Become(g, run[g]) BY <1>1, <1>3 DEF Become, Shapes
  <2>2. RunOK(g)' BY <1>2, <1>3, IdleOK
  <2> QED BY <1>2, <2>1, <2>2, Quiet DEF Class
<1>4. CASE Become(g, [Idle EXCEPT !.pc = "insert", !.n = n])
  <2> DEFINE r == [Idle EXCEPT !.pc = "insert", !.n = n]
  <2>0. <<>> \in Seq(Row) OBVIOUS
  <2>1. r \in RunRec /\ r.pc = "insert" /\ r.n = n BY <2>0 DEF Idle, RunRec
  <2> HIDE DEF r
  <2>2. run'[g] = r BY <1>1, <1>4, <2>1, Becomes DEF r
  <2>3. RunOK(g)' BY <2>1, <2>2 DEF RunOK, Busy
  <2> QED BY <1>2, <1>4, <2>1, <2>3, Quiet DEF Class, r
<1> QED BY <1>3, <1>4 DEF Class

(* Making a symbol for a free name, or one that a source class takes. *)
LEMMA MakesSymbol ==
  ASSUME TableInv, NEW g \in Goroutine, NEW r \in RunRec, Become(g, r), r.pc = "idle",
         NEW n \in Name, NEW src \in BOOLEAN, calls' \in [Goroutine -> 0..MaxCalls],
         syms' = Append(syms, Stub(n, src)), classes' = [classes EXCEPT ![n] = Len(syms) + 1],
         classes[n] = 0 \/ (src /\ ~syms[classes[n]].src)
  PROVE  TableInv'
<1>1. Shapes /\ Refs /\ Taken /\ OneSymbolPerFile BY DEF TableInv
<1>2. syms \in Seq(SymRec) /\ Len(syms) \in Nat BY <1>1 DEF Shapes
<1>3. /\ syms' \in Seq(SymRec) /\ Len(syms') = Len(syms) + 1
      /\ \A x \in 1..Len(syms) : syms'[x] = syms[x]
      /\ syms'[Len(syms) + 1] = Stub(n, src)
  BY <1>2, AppendShape
<1>4. /\ Stub(n, src).name = n /\ Stub(n, src).src = src
      /\ Stub(n, src).outer = 0 /\ Stub(n, src).members = {}
  BY DEF Stub
<1>5. \A x \in 1..Len(syms') :
        syms'[x].outer <= Len(syms') /\ syms'[x].members \subseteq 1..Len(syms')
  <2>1. \A x \in 1..Len(syms) : syms[x].outer \in Nat BY <1>2, SymFields
  <2> QED BY <1>1, <1>2, <1>3, <1>4, <2>1 DEF Refs
<1>6. classes' \in [Name -> Nat] /\ Refs' /\ Taken' /\ OneSymbolPerFile'
  BY <1>1, <1>3, <1>4, <1>5, NewName
<1>7. run' \in [Goroutine -> RunRec] /\ run'[g] = r
      /\ \A h \in Goroutine : h # g => run'[h] = run[h]
  BY <1>1, Becomes
<1>8. /\ \A x \in 1..Len(syms') : x # 0 => SymOK(x)'
      /\ \A h \in Goroutine : h # g => RunOK(h)'
  <2>1. \A x \in Len(syms) + 1 .. Len(syms') : \E m \in Name, b \in BOOLEAN : syms'[x] = Stub(m, b)
    BY <1>2, <1>3
  <2>2. 0 \in 0..Len(syms) /\ Len(syms) <= Len(syms') BY <1>2, <1>3
  <2> QED BY <1>2, <1>3, <1>7, <2>1, <2>2, OthersKeep
<1>9. RunOK(g)' BY <1>7, IdleOK
<1>10. Threads' BY <1>2, <1>3, <1>8, <1>9 DEF Threads
<1> QED BY <1>3, <1>6, <1>7, <1>10 DEF TableInv, Shapes

(* The insertion of Class, with or without another goroutine's stub. *)
LEMMA ClassInsertKeeps ==
  ASSUME TableInv, NEW g \in Goroutine, ClassInsert(g)
  PROVE  TableInv'
<1>1. Shapes /\ RunOK(g) BY DEF TableInv, Threads
<1>2. run[g].n \in Name BY <1>1 DEF RunOK, ClassInsert, At
<1>3. Idle \in RunRec /\ Idle.pc = "idle" BY IdleRuns
<1>4. calls' \in [Goroutine -> 0..MaxCalls] /\ Become(g, Idle) BY <1>1 DEF Shapes, ClassInsert
<1>5. CASE classes[run[g].n] = 0
  <2>1. /\ syms' = Append(syms, Stub(run[g].n, FALSE))
        /\ classes' = [classes EXCEPT ![run[g].n] = Len(syms) + 1]
    BY <1>5 DEF ClassInsert, Stubbed
  <2> QED BY <1>2, <1>3, <1>4, <1>5, <2>1, MakesSymbol
<1>6. CASE classes[run[g].n] # 0
  <2>1. UNCHANGED <<classes, syms>> BY <1>6 DEF ClassInsert, Stubbed
  <2>2. RunOK(g)' BY <1>1, <1>3, <1>4, Becomes, IdleOK
  <2> QED BY <1>3, <1>4, <2>1, <2>2, Quiet
<1> QED BY <1>5, <1>6

(* Table.Declare. *)
LEMMA DeclareKeeps ==
  ASSUME TableInv, NEW g \in Goroutine, NEW n \in Name, Declare(g, n)
  PROVE  TableInv'
<1>1. Shapes BY DEF TableInv
<1>2. calls' \in [Goroutine -> 0..MaxCalls] /\ run[g].pc = "idle" BY <1>1, Counts DEF Declare
<1>3. run[g] \in RunRec /\ Become(g, run[g]) BY <1>1 DEF Declare, Become, Shapes
<1>4. CASE classes[n] # 0 /\ syms[classes[n]].src
  <2>1. RunOK(g)' BY <1>2, IdleOK DEF Declare
  <2> QED BY <1>2, <1>3, <1>4, <2>1, Quiet DEF Declare
<1>5. CASE ~(classes[n] # 0 /\ syms[classes[n]].src)
  <2>1. syms' = Append(syms, Stub(n, TRUE)) /\ classes' = [classes EXCEPT ![n] = Len(syms')]
    BY <1>5 DEF Declare
  <2>2. Len(syms') = Len(syms) + 1 BY <1>1, <2>1, AppendShape DEF Shapes
  <2>3. classes' = [classes EXCEPT ![n] = Len(syms) + 1] BY <2>1, <2>2
  <2> QED BY <1>2, <1>3, <1>5, <2>1, <2>3, MakesSymbol
<1> QED BY <1>4, <1>5
-----------------------------------------------------------------------------
(* A step of g that changes the symbol it locks, has locked or unlocks. *)
LEMMA TouchesOne ==
  ASSUME TableInv, NEW g \in Goroutine, NEW r \in RunRec, Become(g, r),
         UNCHANGED <<classes, calls>>, NEW s \in 1..Len(syms), syms[s].mu \in {g, Nobody},
         syms' \in Seq(SymRec), Len(syms') = Len(syms),
         \A x \in 1..Len(syms) : x # s => syms'[x] = syms[x],
         syms'[s].name = syms[s].name, syms'[s].src = syms[s].src,
         syms'[s].outer <= Len(syms), syms'[s].members \subseteq 1..Len(syms),
         SymOK(s)', RunOK(g)'
  PROVE  TableInv'
<1>1. Shapes /\ Refs /\ Taken /\ OneSymbolPerFile BY DEF TableInv
<1>2. Len(syms) \in Nat BY <1>1 DEF Shapes
<1>3. \A x \in 1..Len(syms') :
        syms'[x].outer <= Len(syms') /\ syms'[x].members \subseteq 1..Len(syms')
  BY <1>1 DEF Refs
<1>4. \A x \in 1..Len(syms) : syms'[x].name = syms[x].name /\ syms'[x].src = syms[x].src
  OBVIOUS
<1>5. classes' \in [Name -> Nat] /\ Refs' /\ Taken' /\ OneSymbolPerFile'
  BY <1>1, <1>3, <1>4, SameNames
<1>6. run' \in [Goroutine -> RunRec] /\ \A h \in Goroutine : h # g => run'[h] = run[h]
  BY <1>1, Becomes
<1>7. /\ \A x \in 1..Len(syms') : x # s => SymOK(x)'
      /\ \A h \in Goroutine : h # g => RunOK(h)'
  <2>1. s \in 0..Len(syms) /\ Len(syms) <= Len(syms') BY <1>2
  <2>2. \A x \in Len(syms) + 1 .. Len(syms') : \E n \in Name, src \in BOOLEAN : syms'[x] = Stub(n, src)
    BY <1>2
  <2> QED BY <1>6, <2>1, <2>2, OthersKeep
<1>8. Threads' BY <1>7 DEF Threads
<1>9. Shapes' BY <1>1, <1>5, <1>6 DEF Shapes
<1> QED BY <1>5, <1>8, <1>9 DEF TableInv

(* Complete up to its lock. *)
LEMMA CompleteKeeps ==
  ASSUME TableInv, NEW g \in Goroutine, NEW s \in DOMAIN syms, Complete(g, s)
  PROVE  TableInv'
<1>1. Shapes BY DEF TableInv
<1>2. calls' \in [Goroutine -> 0..MaxCalls] BY <1>1, Counts DEF Complete
<1>3. s \in Nat /\ s \in 1..Len(syms) BY <1>1 DEF Shapes
<1> DEFINE r == [Idle EXCEPT !.pc = "wait", !.s = s]
<1>4. <<>> \in Seq(Row) OBVIOUS
<1>5. r \in RunRec /\ r.pc = "wait" /\ r.s = s BY <1>3, <1>4 DEF Idle, RunRec
<1> HIDE DEF r
<1>6. Become(g, r) BY DEF Complete, r
<1>7. run'[g] = r BY <1>1, <1>5, <1>6, Becomes
<1>8. UNCHANGED <<classes, syms>> BY DEF Complete
<1>9. RunOK(g)' BY <1>3, <1>5, <1>7, <1>8 DEF RunOK, Busy
<1> QED BY <1>2, <1>5, <1>6, <1>8, <1>9, Quiet

(* Complete of a symbol that was completed before. *)
LEMMA CompleteKnownKeeps ==
  ASSUME TableInv, NEW g \in Goroutine, CompleteKnown(g)
  PROVE  TableInv'
<1>1. Shapes /\ RunOK(g) BY DEF TableInv, Threads
<1>2. run[g].s \in 1..Len(syms) BY <1>1 DEF RunOK, CompleteKnown, At
<1> DEFINE a == IF syms[run[g].s].state = "completing" THEN "cyclic" ELSE syms[run[g].s].err
<1>3. a \in {"none", "unreadable", "cyclic"} BY <1>1, <1>2, SymFields DEF Shapes
<1>4. Become(g, [Idle EXCEPT !.ans = a]) BY DEF CompleteKnown, Returns
<1> HIDE DEF a
<1> DEFINE r == [Idle EXCEPT !.ans = a]
<1>5. r \in RunRec /\ r.pc = "idle" BY <1>3, IdleRuns
<1> HIDE DEF r
<1>6. Become(g, r) BY <1>4 DEF r
<1>7. RunOK(g)' BY <1>1, <1>5, <1>6, Becomes, IdleOK
<1>8. UNCHANGED <<classes, syms>> /\ calls' \in [Goroutine -> 0..MaxCalls]
  BY <1>1 DEF CompleteKnown, Shapes
<1> QED BY <1>5, <1>6, <1>7, <1>8, Quiet

(* The start of a completer, with the mutex taken. *)
LEMMA CompleteStartKeeps ==
  ASSUME TableInv, NEW g \in Goroutine, CompleteStart(g)
  PROVE  TableInv'
<1>0. PICK s : s = run[g].s OBVIOUS
<1>1. Shapes /\ Refs /\ RunOK(g) BY DEF TableInv, Threads
<1>2. s \in 1..Len(syms) /\ syms[s] \in SymRec /\ syms \in Seq(SymRec)
  BY <1>0, <1>1 DEF RunOK, CompleteStart, At, Shapes
<1>3. syms[s].mu = Nobody /\ syms[s].runs = 0
  <2>1. SymOK(s) BY <1>2 DEF TableInv, Threads
  <2> QED BY <1>0, <2>1 DEF SymOK, CompleteStart
<1> DEFINE x == [syms[s] EXCEPT !.mu = g, !.state = "completing", !.runs = 1]
<1>4. /\ x \in SymRec /\ x.mu = g /\ x.state = "completing" /\ x.runs = 1
      /\ x.name = syms[s].name /\ x.src = syms[s].src
      /\ x.outer = syms[s].outer /\ x.members = syms[s].members
  BY <1>2, <1>3 DEF SymRec
<1>5. syms' = [syms EXCEPT ![s] = x]
  BY <1>0, <1>3 DEF CompleteStart
<1> HIDE DEF x
<1>6. /\ syms' \in Seq(SymRec) /\ Len(syms') = Len(syms) /\ syms'[s] = x
      /\ \A y \in 1..Len(syms) : y # s => syms'[y] = syms[y]
  BY <1>2, <1>4, <1>5, SymReplaced
<1> DEFINE r == [run[g] EXCEPT !.pc = "load"]
<1>7. r \in RunRec /\ r.pc = "load" /\ r.s = s
  <2>1. run[g] \in RunRec BY <1>1 DEF Shapes
  <2> QED BY <1>0, <2>1 DEF RunRec
<1> HIDE DEF r
<1>8. Become(g, r) /\ UNCHANGED <<classes, calls>> BY DEF CompleteStart, r
<1>9. run'[g] = r BY <1>1, <1>7, <1>8, Becomes
<1>10. SymOK(s)' BY <1>4, <1>6, SymAssumption DEF SymOK
<1>11. RunOK(g)' BY <1>2, <1>4, <1>6, <1>7, <1>9 DEF RunOK, Busy
<1>12. syms[s].outer <= Len(syms) /\ syms[s].members \subseteq 1..Len(syms)
  BY <1>1, <1>2 DEF Refs
<1> QED BY <1>2, <1>3, <1>4, <1>6, <1>7, <1>8, <1>10, <1>11, <1>12, TouchesOne

(* The end of a completer, good or bad, with the mutex released. *)
LEMMA FinishKeeps ==
  ASSUME TableInv, NEW g \in Goroutine, Busy(g), NEW err \in {"none", "unreadable"},
         Finish(g, err), UNCHANGED <<classes, calls>>,
         err = "none" /\ ~syms[run[g].s].src =>
           LET all == Rows[syms[run[g].s].name] IN Entered(syms, run[g].s, all, Len(all))
  PROVE  TableInv'
<1>0. PICK s : s = run[g].s OBVIOUS
<1>1. Shapes /\ Refs /\ RunOK(g) BY DEF TableInv, Threads
<1>2. s \in 1..Len(syms) /\ syms[s].mu = g BY <1>0, <1>1 DEF RunOK
<1>3. syms[s] \in SymRec /\ syms \in Seq(SymRec) BY <1>1, <1>2 DEF Shapes
<1>4. syms[s].runs = 1 /\ syms[s].outer <= Len(syms) /\ syms[s].members \subseteq 1..Len(syms)
  <2>1. SymOK(s) BY <1>2 DEF TableInv, Threads
  <2>2. syms[s].state = "completing" BY <1>2, <2>1, SymAssumption DEF SymOK
  <2> QED BY <1>1, <1>2, <2>1, <2>2 DEF SymOK, Refs
<1> DEFINE x == [syms[s] EXCEPT !.mu = Nobody, !.state = "completed", !.err = err]
<1>5. /\ x \in SymRec /\ x.mu = Nobody /\ x.state = "completed" /\ x.err = err
      /\ x.name = syms[s].name /\ x.src = syms[s].src /\ x.runs = syms[s].runs
      /\ x.outer = syms[s].outer /\ x.members = syms[s].members
  BY <1>3 DEF SymRec
<1>6. syms' = [syms EXCEPT ![s] = x] BY <1>0 DEF Finish
<1> HIDE DEF x
<1>7. /\ syms' \in Seq(SymRec) /\ Len(syms') = Len(syms) /\ syms'[s] = x
      /\ \A y \in 1..Len(syms) : y # s => syms'[y] = syms[y]
  BY <1>2, <1>3, <1>5, <1>6, SymReplaced
<1>8. err = "none" /\ ~x.src => Entered(syms', s, Rows[x.name], Len(Rows[x.name]))
  <2> SUFFICES ASSUME err = "none", ~x.src
               PROVE  Entered(syms', s, Rows[x.name], Len(Rows[x.name]))
    OBVIOUS
  <2>1. Entered(syms, s, Rows[x.name], Len(Rows[x.name])) BY <1>0, <1>5
  <2>2. Len(Rows[x.name]) \in Nat BY <1>5, SymFields, SymAssumption
  <2>3. Len(syms) <= Len(syms') /\ \A t \in 1..Len(syms) : syms'[t].name = syms[t].name
    BY <1>3, <1>5, <1>7
  <2>4. syms'[s].outer = syms[s].outer /\ syms[s].members \subseteq syms'[s].members
    BY <1>5, <1>7
  <2> QED BY <1>2, <1>3, <1>4, <1>7, <2>1, <2>2, <2>3, <2>4, EnteredGrows
<1>9. SymOK(s)' BY <1>4, <1>5, <1>7, <1>8 DEF SymOK
<1> DEFINE r == [Idle EXCEPT !.ans = err]
<1>10. r \in RunRec /\ r.pc = "idle" BY IdleRuns
<1> HIDE DEF r
<1>11. Become(g, r) BY DEF Finish, Returns, r
<1>12. RunOK(g)' BY <1>1, <1>10, <1>11, Becomes, IdleOK
<1> QED BY <1>2, <1>4, <1>5, <1>7, <1>9, <1>10, <1>11, <1>12, TouchesOne

(* The loading of the class file. *)
LEMMA LoadKeeps ==
  ASSUME TableInv, NEW g \in Goroutine, Load(g)
  PROVE  TableInv'
<1>0. PICK s : s = run[g].s OBVIOUS
<1>1. Shapes /\ RunOK(g) /\ Busy(g) BY DEF TableInv, Threads, Load, At, Busy
<1>2. s \in 1..Len(syms) /\ syms[s].mu = g BY <1>0, <1>1 DEF RunOK
<1>3. syms[s].name \in Name BY <1>1, <1>2, SymFields DEF Shapes
<1>4. CASE syms[s].src
  <2>1. Finish(g, "none") /\ UNCHANGED <<classes, calls>> BY <1>0, <1>4 DEF Load
  <2> QED BY <1>0, <1>1, <1>4, <2>1, FinishKeeps
<1>5. CASE ~syms[s].src /\ syms[s].name \in Unreadable
  <2>1. Finish(g, "unreadable") /\ UNCHANGED <<classes, calls>> BY <1>0, <1>5 DEF Load
  <2> QED BY <1>1, <2>1, FinishKeeps
<1>6. CASE ~syms[s].src /\ syms[s].name \notin Unreadable
  <2> DEFINE all == Rows[syms[s].name]
             r == [run[g] EXCEPT !.pc = "rows", !.rows = all]
  <2>1. all \in Seq(Row) BY <1>3, SymAssumption
  <2> HIDE DEF all
  <2>2. r \in RunRec /\ r.pc = "rows" /\ r.s = s /\ r.rows = all
    <3>1. run[g] \in RunRec BY <1>1 DEF Shapes
    <3> QED BY <1>0, <2>1, <3>1 DEF RunRec
  <2> HIDE DEF r
  <2>3. Become(g, r) /\ UNCHANGED <<classes, syms, calls>> BY <1>0, <1>6 DEF Load, r, all
  <2>4. run'[g] = r BY <1>1, <2>2, <2>3, Becomes
  <2>5. Suffix(all, all) /\ Entered(syms, s, all, Len(all) - Len(all))
    BY <2>1 DEF Suffix, Entered
  <2>6. RunOK(g)' BY <1>2, <2>2, <2>3, <2>4, <2>5 DEF RunOK, Busy, all
  <2>7. calls' \in [Goroutine -> 0..MaxCalls] BY <1>1, <2>3 DEF Shapes
  <2> QED BY <2>2, <2>3, <2>6, <2>7, Quiet
<1> QED BY <1>4, <1>5, <1>6

(* The end of the rows: all are entered. *)
LEMMA RowsEndKeeps ==
  ASSUME TableInv, NEW g \in Goroutine, RowsEnd(g)
  PROVE  TableInv'
<1>0. PICK s : s = run[g].s OBVIOUS
<1>1. Shapes /\ RunOK(g) /\ Busy(g) BY DEF TableInv, Threads, RowsEnd, At, Busy
<1>2. s \in 1..Len(syms) /\ run[g].pc = "rows" /\ run[g].rows = <<>>
  BY <1>0, <1>1 DEF RunOK, RowsEnd, At
<1>3. Rows[syms[s].name] \in Seq(Row) BY <1>1, <1>2, SymFields, SymAssumption DEF Shapes
<1>4. Entered(syms, s, Rows[syms[s].name], Len(Rows[syms[s].name]) - 0)
  BY <1>0, <1>1, <1>2 DEF RunOK
<1>5. Entered(syms, s, Rows[syms[s].name], Len(Rows[syms[s].name])) BY <1>3, <1>4
<1> QED BY <1>0, <1>1, <1>5, FinishKeeps DEF RowsEnd

(* What is left after a row. *)
LEMMA SuffixTail ==
  ASSUME NEW all \in Seq(Row), NEW rows \in Seq(Row), Suffix(rows, all), rows # <<>>
  PROVE  LET k == Len(all) - Len(rows) IN
           /\ k \in Nat /\ k + 1 <= Len(all) /\ all[k + 1] = Head(rows) /\ Head(rows) \in Row
           /\ Tail(rows) \in Seq(Row) /\ Suffix(Tail(rows), all)
           /\ Len(all) - Len(Tail(rows)) = k + 1
<1>1. Len(rows) \in Nat /\ Len(rows) >= 1 /\ Len(all) \in Nat OBVIOUS
<1>2. Tail(rows) \in Seq(Row) /\ Len(Tail(rows)) = Len(rows) - 1
      /\ \A i \in 1..Len(rows) - 1 : Tail(rows)[i] = rows[i + 1]
  BY <1>1
<1>3. Head(rows) = rows[1] /\ Head(rows) \in Row BY <1>1
<1>4. Suffix(Tail(rows), all)
  <2> SUFFICES ASSUME NEW i \in 1..Len(Tail(rows))
               PROVE  Tail(rows)[i] = all[i + (Len(all) - Len(Tail(rows)))]
    BY <1>1, <1>2 DEF Suffix
  <2>1. rows[i + 1] = all[(i + 1) + (Len(all) - Len(rows))] BY <1>1, <1>2 DEF Suffix
  <2>2. (i + 1) + (Len(all) - Len(rows)) = i + (Len(all) - Len(Tail(rows))) BY <1>1, <1>2
  <2> QED BY <1>2, <2>1, <2>2
<1>5. all[Len(all) - Len(rows) + 1] = Head(rows)
  <2>1. rows[1] = all[1 + (Len(all) - Len(rows))] BY <1>1 DEF Suffix
  <2> QED BY <1>1, <1>3, <2>1
<1> QED BY <1>1, <1>2, <1>3, <1>4, <1>5 DEF Suffix

(* A completer among its rows: the row in hand, and those behind it. *)
LEMMA AtRow ==
  ASSUME TableInv, NEW g \in Goroutine, run[g].pc \in {"rows", "nested"}, run[g].rows # <<>>
  PROVE  LET s == run[g].s  all == Rows[syms[s].name]  k == Len(all) - Len(run[g].rows) IN
           /\ s \in 1..Len(syms) /\ syms[s].mu = g /\ syms[s] \in SymRec
           /\ syms[s].outer <= Len(syms) /\ syms[s].members \subseteq 1..Len(syms)
           /\ syms[s].state = "completing" /\ syms[s].runs = 1
           /\ all \in Seq(Row) /\ k \in Nat /\ k + 1 <= Len(all)
           /\ Head(run[g].rows) = all[k + 1] /\ Head(run[g].rows) \in Row
           /\ Entered(syms, s, all, k)
<1> DEFINE s == run[g].s
           all == Rows[syms[s].name]
           k == Len(all) - Len(run[g].rows)
<1>1. Shapes /\ Refs /\ RunOK(g) /\ Busy(g) BY DEF TableInv, Threads, Busy
<1>2. s \in 1..Len(syms) /\ syms[s].mu = g BY <1>1 DEF RunOK
<1>3. syms[s] \in SymRec BY <1>1, <1>2 DEF Shapes
<1>4. syms[s].outer <= Len(syms) /\ syms[s].members \subseteq 1..Len(syms) BY <1>1, <1>2 DEF Refs
<1>5. syms[s].state = "completing" /\ syms[s].runs = 1
  <2>1. SymOK(s) BY <1>2 DEF TableInv, Threads
  <2> QED BY <1>2, <2>1, SymAssumption DEF SymOK
<1>6. all \in Seq(Row) BY <1>3, SymFields, SymAssumption
<1>7. run[g].rows \in Seq(Row)
  <2>1. run[g] \in RunRec BY <1>1 DEF Shapes
  <2> QED BY <2>1 DEF RunRec
<1>8. Suffix(run[g].rows, all) /\ Entered(syms, s, all, k) BY <1>1 DEF RunOK
<1>9. /\ k \in Nat /\ k + 1 <= Len(all) /\ all[k + 1] = Head(run[g].rows)
      /\ Head(run[g].rows) \in Row
  BY <1>6, <1>7, <1>8, SuffixTail
<1> QED BY <1>2, <1>3, <1>4, <1>5, <1>6, <1>8, <1>9

(* The goroutine after a row, once the row is entered. *)
LEMMA AfterRow ==
  ASSUME TableInv, NEW g \in Goroutine, run[g].pc \in {"rows", "nested"}, run[g].rows # <<>>,
         RowDone(g), NEW s, s = run[g].s, NEW k, k = Len(Rows[syms[s].name]) - Len(run[g].rows),
         s \in 1..Len(syms'), syms'[s].mu = g, syms'[s].name = syms[s].name,
         Entered(syms', s, Rows[syms[s].name], k + 1)
  PROVE  \E r \in RunRec : Become(g, r) /\ RunOK(g)'
<1> DEFINE all == Rows[syms[s].name]
           r == [run[g] EXCEPT !.pc = "rows", !.rows = Tail(run[g].rows)]
<1>1. Shapes /\ RunOK(g) BY DEF TableInv, Threads
<1>2. run[g] \in RunRec BY <1>1 DEF Shapes
<1>3. run[g].rows \in Seq(Row) BY <1>2 DEF RunRec
<1>4. all \in Seq(Row) BY AtRow
<1>5. Suffix(run[g].rows, all) BY <1>1 DEF RunOK
<1>6. /\ Tail(run[g].rows) \in Seq(Row) /\ Suffix(Tail(run[g].rows), all)
      /\ Len(all) - Len(Tail(run[g].rows)) = k + 1
  BY <1>3, <1>4, <1>5, SuffixTail
<1>7. r \in RunRec /\ r.pc = "rows" /\ r.s = s /\ r.rows = Tail(run[g].rows)
  BY <1>2, <1>6 DEF RunRec
<1>8. Become(g, r) BY DEF RowDone
<1> HIDE DEF r, all
<1>9. run'[g] = r BY <1>1, <1>7, <1>8, Becomes
<1>10. RunOK(g)' BY <1>6, <1>7, <1>9 DEF RunOK, Busy, all
<1> QED BY <1>7, <1>8, <1>10

(* A row whose class has a symbol, or that the path does not have. *)
LEMMA LinkKeeps ==
  ASSUME TableInv, NEW g \in Goroutine, run[g].pc \in {"rows", "nested"}, run[g].rows # <<>>,
         LET row == Head(run[g].rows) IN
           /\ classes[row.n] # 0 \/ row.n \notin OnPath
           /\ syms' = Linked(syms, run[g].s, row, classes[row.n]),
         RowDone(g), UNCHANGED <<classes, calls>>
  PROVE  TableInv'
<1>1. PICK s, k, row, t : /\ s = run[g].s /\ k = Len(Rows[syms[s].name]) - Len(run[g].rows)
                          /\ row = Head(run[g].rows) /\ t = classes[row.n]
  OBVIOUS
<1> DEFINE all == Rows[syms[s].name]
<1>2. /\ s \in 1..Len(syms) /\ syms[s].mu = g /\ syms[s] \in SymRec
      /\ syms[s].outer <= Len(syms) /\ syms[s].members \subseteq 1..Len(syms)
      /\ syms[s].state = "completing" /\ syms[s].runs = 1
      /\ all \in Seq(Row) /\ k \in Nat /\ k + 1 <= Len(all)
      /\ row = all[k + 1] /\ row \in Row /\ Entered(syms, s, all, k)
  BY <1>1, AtRow
<1> HIDE DEF all
<1>3. Shapes /\ Refs BY DEF TableInv
<1>4. syms \in Seq(SymRec) /\ Len(syms) \in Nat BY <1>3 DEF Shapes
<1>5. row.n \in Name BY <1>2 DEF Row
<1>6. t \in 0..Len(syms) /\ (t # 0 => syms[t].name = row.n) /\ (row.n \in OnPath => t # 0)
  BY <1>1, <1>3, <1>4, <1>5 DEF Refs, Shapes
<1>7. syms' = Linked(syms, s, row, t) BY <1>1
<1>8. /\ syms' \in Seq(SymRec) /\ Len(syms') = Len(syms)
      /\ \A x \in 1..Len(syms) : x # s => syms'[x] = syms[x]
      /\ Gains(syms[s], syms'[s], row, t)
  BY <1>2, <1>4, <1>6, <1>7, LinkedShape
<1>9. Entered(syms', s, all, k + 1) BY <1>2, <1>4, <1>6, <1>7, EnteredNext
<1>10. syms'[s].outer <= Len(syms) /\ syms'[s].members \subseteq 1..Len(syms)
  <2>1. Gains(syms[s], syms'[s], row, t) BY <1>8
  <2>2. syms[s].outer <= Len(syms) /\ syms[s].members \subseteq 1..Len(syms) /\ row \in Row
    BY <1>2
  <2> QED BY <1>4, <1>6, <2>1, <2>2, GainsBounded
<1>11. SymOK(s)' BY <1>2, <1>8, SymAssumption DEF SymOK, Gains
<1>12. PICK r \in RunRec : Become(g, r) /\ RunOK(g)'
  <2>1. syms'[s].mu = g /\ syms'[s].name = syms[s].name BY <1>2, <1>8 DEF Gains
  <2>2. s \in 1..Len(syms') BY <1>2, <1>8
  <2> QED BY <1>1, <1>9, <2>1, <2>2, AfterRow DEF all
<1>13. syms'[s].name = syms[s].name /\ syms'[s].src = syms[s].src BY <1>8 DEF Gains
<1> QED BY <1>2, <1>8, <1>10, <1>11, <1>12, <1>13, TouchesOne

(* enterNested's look at the table. *)
LEMMA RowLookupKeeps ==
  ASSUME TableInv, NEW g \in Goroutine, RowLookup(g)
  PROVE  TableInv'
<1>1. Shapes /\ RunOK(g) /\ run[g].pc = "rows" /\ run[g].rows # <<>>
  BY DEF TableInv, Threads, RowLookup, At
<1>2. CASE classes[Head(run[g].rows).n] # 0 \/ Head(run[g].rows).n \notin OnPath
  BY <1>1, <1>2, LinkKeeps DEF RowLookup
<1>3. CASE ~(classes[Head(run[g].rows).n] # 0 \/ Head(run[g].rows).n \notin OnPath)
  <2> DEFINE r == [run[g] EXCEPT !.pc = "nested"]
  <2>1. r \in RunRec /\ r.pc = "nested" /\ r.s = run[g].s /\ r.rows = run[g].rows
    <3>1. run[g] \in RunRec BY <1>1 DEF Shapes
    <3> QED BY <3>1 DEF RunRec
  <2> HIDE DEF r
  <2>2. Become(g, r) /\ UNCHANGED <<classes, syms, calls>> BY <1>3 DEF RowLookup, r
  <2>3. run'[g] = r BY <1>1, <2>1, <2>2, Becomes
  <2>4. RunOK(g)' BY <1>1, <2>1, <2>2, <2>3 DEF RunOK, Busy
  <2>5. calls' \in [Goroutine -> 0..MaxCalls] BY <1>1, <2>2 DEF Shapes
  <2> QED BY <2>1, <2>2, <2>4, <2>5, Quiet
<1> QED BY <1>2, <1>3

(* enterNested's insertion, with or without another goroutine's symbol. *)
LEMMA RowInsertKeeps ==
  ASSUME TableInv, NEW g \in Goroutine, RowInsert(g)
  PROVE  TableInv'
<1>1. run[g].pc = "nested" /\ run[g].rows # <<>> BY DEF TableInv, Threads, RunOK, RowInsert, At
<1>2. PICK s, k, row, t : /\ s = run[g].s /\ k = Len(Rows[syms[s].name]) - Len(run[g].rows)
                          /\ row = Head(run[g].rows) /\ t = Len(syms) + 1
  OBVIOUS
<1>3. CASE classes[row.n] # 0
  <2>1. UNCHANGED <<classes, calls>> /\ syms' = Linked(syms, s, row, classes[row.n]) /\ RowDone(g)
    BY <1>2, <1>3 DEF RowInsert, Stubbed
  <2> QED BY <1>1, <1>2, <1>3, <2>1, LinkKeeps
<1>4. CASE classes[row.n] = 0
  <2> DEFINE all == Rows[syms[s].name]
             ss == Append(syms, Stub(row.n, FALSE))
  <2>1. /\ s \in 1..Len(syms) /\ syms[s].mu = g /\ syms[s] \in SymRec
        /\ syms[s].outer <= Len(syms) /\ syms[s].members \subseteq 1..Len(syms)
        /\ syms[s].state = "completing" /\ syms[s].runs = 1
        /\ all \in Seq(Row) /\ k \in Nat /\ k + 1 <= Len(all)
        /\ row = all[k + 1] /\ row \in Row /\ Entered(syms, s, all, k)
    BY <1>1, <1>2, AtRow
  <2>2. Shapes /\ Refs /\ Taken /\ OneSymbolPerFile BY DEF TableInv
  <2>3. syms \in Seq(SymRec) /\ Len(syms) \in Nat /\ classes \in [Name -> Nat] BY <2>2 DEF Shapes
  <2>4. row.n \in Name BY <2>1 DEF Row
  <2>5. /\ ss \in Seq(SymRec) /\ Len(ss) = Len(syms) + 1
        /\ \A x \in 1..Len(syms) : ss[x] = syms[x]
        /\ ss[t] = Stub(row.n, FALSE)
    BY <1>2, <2>3, <2>4, AppendShape
  <2>6. /\ ss[t].name = row.n /\ ss[t].src = FALSE /\ ss[t].outer = 0 /\ ss[t].members = {}
    <3>1. LET x == Stub(row.n, FALSE) IN
            x.name = row.n /\ x.src = FALSE /\ x.outer = 0 /\ x.members = {}
      BY DEF Stub
    <3> QED BY <2>5, <3>1
  <2>7. /\ classes' = [classes EXCEPT ![row.n] = t] /\ syms' = Linked(ss, s, row, t)
        /\ RowDone(g) /\ UNCHANGED calls
    BY <1>2, <1>4, <2>3, <2>4 DEF RowInsert, Stubbed
  <2> HIDE DEF all, ss
  <2>8. s \in 1..Len(ss) /\ t \in 0..Len(ss) /\ t \in 1..Len(ss) /\ s # t BY <1>2, <2>1, <2>3, <2>5
  <2>9. /\ syms' \in Seq(SymRec) /\ Len(syms') = Len(ss)
        /\ \A x \in 1..Len(ss) : x # s => syms'[x] = ss[x]
        /\ Gains(ss[s], syms'[s], row, t)
    BY <2>1, <2>5, <2>7, <2>8, LinkedShape
  <2>10. Entered(ss, s, all, k)
    <3>1. Len(syms) <= Len(ss) /\ \A x \in 1..Len(syms) : ss[x].name = syms[x].name
      BY <2>3, <2>5
    <3>2. ss[s] = syms[s] BY <2>1, <2>5
    <3> QED BY <2>1, <2>3, <2>5, <3>1, <3>2, EnteredGrows
  <2>10a. ss[s] = syms[s] /\ ss[s].outer <= Len(ss) /\ ss[s].members \subseteq 1..Len(ss)
    <3>1. syms[s].outer \in Nat BY <2>1, SymFields
    <3>2. 1..Len(syms) \subseteq 1..Len(ss) BY <2>3, <2>5
    <3> QED BY <2>1, <2>3, <2>5, <3>1, <3>2
  <2>11. Entered(syms', s, all, k + 1)
    <3>1. t # 0 BY <1>2, <2>3
    <3> QED BY <2>1, <2>5, <2>6, <2>7, <2>8, <2>10, <2>10a, <3>1, EnteredNext
  <2>12. ASSUME NEW x \in 1..Len(syms')
         PROVE  syms'[x].outer <= Len(syms') /\ syms'[x].members \subseteq 1..Len(syms')
    <3>1. CASE x = t
      <4>1. syms'[x].outer = 0 /\ syms'[x].members = {} BY <2>6, <2>8, <2>9, <3>1
      <4> QED BY <2>3, <2>5, <2>9, <4>1
    <3>2. CASE x = s
      <4>1. Len(ss) \in Nat BY <2>3, <2>5
      <4> QED BY <2>1, <2>8, <2>9, <2>10a, <3>2, <4>1, GainsBounded
    <3>3. CASE x # t /\ x # s
      <4>1. x \in 1..Len(syms) /\ syms'[x] = syms[x] BY <1>2, <2>3, <2>5, <2>9, <3>3
      <4>2. syms[x].outer \in Nat BY <2>3, <4>1, SymFields
      <4> QED BY <2>2, <2>3, <2>5, <2>9, <4>1, <4>2 DEF Refs
    <3> QED BY <3>1, <3>2, <3>3
  <2>13. \A x \in 1..Len(syms) : syms'[x].name = syms[x].name /\ syms'[x].src = syms[x].src
    <3>1. syms'[s].name = syms[s].name /\ syms'[s].src = syms[s].src BY <2>9, <2>10a DEF Gains
    <3>2. \A x \in 1..Len(syms) : x # s => syms'[x] = syms[x] BY <2>3, <2>5, <2>9
    <3> QED BY <3>1, <3>2
  <2>14. syms'[t] = Stub(row.n, FALSE) BY <2>5, <2>8, <2>9
  <2>15. classes' \in [Name -> Nat] /\ Refs' /\ Taken' /\ OneSymbolPerFile'
    BY <1>2, <1>4, <2>2, <2>4, <2>5, <2>6, <2>7, <2>8, <2>9, <2>12, <2>13, NewName
  <2>16. SymOK(s)' BY <2>1, <2>9, <2>10a, SymAssumption DEF SymOK, Gains
  <2>17. PICK r \in RunRec : Become(g, r) /\ RunOK(g)'
    <3>1. syms'[s].mu = g /\ syms'[s].name = syms[s].name BY <2>1, <2>9, <2>10a DEF Gains
    <3> QED BY <1>1, <1>2, <2>7, <2>8, <2>9, <2>11, <3>1, AfterRow DEF all
  <2>18. run' \in [Goroutine -> RunRec] /\ \A h \in Goroutine : h # g => run'[h] = run[h]
    BY <2>2, <2>17, Becomes
  <2>19. /\ \A x \in 1..Len(syms') : x # s => SymOK(x)'
         /\ \A h \in Goroutine : h # g => RunOK(h)'
    <3>1. s \in 0..Len(syms) /\ Len(syms) <= Len(syms') BY <2>1, <2>3, <2>5, <2>9
    <3>2. \A x \in 1..Len(syms) : x # s => syms'[x] = syms[x] BY <2>3, <2>5, <2>9
    <3>3. \A x \in Len(syms) + 1 .. Len(syms') : \E n \in Name, src \in BOOLEAN : syms'[x] = Stub(n, src)
      <4>1. \A x \in Len(syms) + 1 .. Len(syms') : x = t BY <1>2, <2>3, <2>5, <2>9
      <4> QED BY <2>4, <2>14, <4>1
    <3> QED BY <2>1, <2>9, <2>13, <2>18, <3>1, <3>2, <3>3, OthersKeep
  <2>20. Threads' BY <2>16, <2>17, <2>19 DEF Threads
  <2> QED BY <2>2, <2>7, <2>9, <2>15, <2>18, <2>20 DEF TableInv, Shapes
<1> QED BY <1>3, <1>4
-----------------------------------------------------------------------------
(* An empty table satisfies the invariant. *)
LEMMA TableInit == Init => TableInv
<1> SUFFICES ASSUME Init PROVE TableInv OBVIOUS
<1>1. Idle \in RunRec /\ Idle.pc = "idle" BY IdleRuns
<1>2. Shapes BY <1>1, SymAssumption DEF Init, Shapes
<1>3. syms = <<>> /\ Len(syms) = 0 /\ 1..Len(syms) = {} /\ DOMAIN syms = {} BY DEF Init
<1>4. Refs /\ Taken /\ OneSymbolPerFile
  BY <1>3 DEF Init, Refs, Taken, OneSymbolPerFile
<1>5. \A g \in Goroutine : RunOK(g) BY <1>1 DEF Init, RunOK, Busy
<1> QED BY <1>2, <1>3, <1>4, <1>5 DEF TableInv, Threads

(* Every step of every goroutine keeps it. *)
LEMMA TableStep ==
  ASSUME TableInv, [Next]_vars
  PROVE  TableInv'
<1>1. CASE UNCHANGED vars
  <2>1. UNCHANGED <<classes, syms, run, calls>> BY <1>1 DEF vars
  <2> QED BY <2>1 DEF TableInv, Shapes, Refs, Taken, OneSymbolPerFile, Threads, SymOK, RunOK, Busy
<1>2. CASE Next
  <2>1. PICK g \in Goroutine : \/ Step(g)
                               \/ \E n \in Name : Class(g, n) \/ Declare(g, n)
                               \/ \E s \in DOMAIN syms : Complete(g, s)
    BY <1>2 DEF Next
  <2>2. CASE Step(g)
    BY <2>2, ClassInsertKeeps, CompleteKnownKeeps, CompleteStartKeeps, LoadKeeps,
       RowLookupKeeps, RowInsertKeeps, RowsEndKeeps DEF Step
  <2>3. CASE \E n \in Name : Class(g, n) \/ Declare(g, n)
    BY <2>3, ClassKeeps, DeclareKeeps
  <2>4. CASE \E s \in DOMAIN syms : Complete(g, s) BY <2>4, CompleteKeeps
  <2> QED BY <2>1, <2>2, <2>3, <2>4
<1> QED BY <1>1, <1>2

(* The inductive invariant holds in every state. *)
LEMMA TableInvariant == Spec => []TableInv
BY TableInit, TableStep, PTL DEF Spec

(* Table, symbols and counters keep their types, a name leads to a symbol   *)
(* of that name, and a symbol is completing exactly while its mutex is held *)
(* (Table.classes, ClassSym.Complete).                                      *)
THEOREM SymTypes == Spec => []TypeOK
<1>1. ASSUME TableInv PROVE TypeOK
  <2>1. Shapes /\ Refs BY <1>1 DEF TableInv
  <2>2. /\ syms \in Seq(SymRec) /\ Len(syms) \in Nat /\ DOMAIN syms = 1..Len(syms)
        /\ classes \in [Name -> Nat]
    BY <2>1 DEF Shapes
  <2>3. classes \in [Name -> 0..Len(syms)] BY <2>1, <2>2 DEF Refs
  <2>4. ASSUME NEW s \in DOMAIN syms
        PROVE  /\ syms[s].mu \in Goroutine \cup {Nobody}
               /\ syms[s].state \in {"notCompleted", "completing", "completed"}
               /\ syms[s].state = "completing" <=> syms[s].mu # Nobody
               /\ syms[s].members \subseteq DOMAIN syms
    <3>1. syms[s] \in SymRec /\ SymOK(s) BY <1>1, <2>2 DEF TableInv, Threads
    <3> QED BY <2>1, <2>2, <3>1, SymFields DEF SymOK, Refs
  <2>5. \A n \in Name : classes[n] # 0 => syms[classes[n]].name = n BY <2>1 DEF Refs
  <2>6. calls \in [Goroutine -> 0..MaxCalls] BY <2>1 DEF Shapes
  <2> QED BY <2>3, <2>4, <2>5, <2>6 DEF TypeOK
<1> QED BY <1>1, TableInvariant, PTL

(* However many goroutines mention a class file first, it has one symbol    *)
(* (Table.Class, enterNested).                                              *)
THEOREM OneSymbol == Spec => []OneSymbolPerFile
<1>1. TableInv => OneSymbolPerFile BY DEF TableInv
<1> QED BY <1>1, TableInvariant, PTL

(* A declared source class keeps its name for good, whatever goroutines     *)
(* were between the two halves of Class then (Table.Declare).               *)
THEOREM SourceKeepsName == Spec => []SourceWins
<1>1. ASSUME TableInv PROVE SourceWins
  <2>1. DOMAIN syms = 1..Len(syms) BY <1>1 DEF TableInv, Shapes
  <2> QED BY <1>1, <2>1 DEF TableInv, Taken, SourceWins
<1> QED BY <1>1, TableInvariant, PTL

(* A completer runs at most once, and a class file completed without error  *)
(* has every member type and its enclosing class (ClassSym.Complete,        *)
(* enterNested).                                                            *)
THEOREM CompletesOnce == Spec => []CompletedOnce
<1>1. ASSUME TableInv PROVE CompletedOnce
  <2>1. DOMAIN syms = 1..Len(syms) BY <1>1 DEF TableInv, Shapes
  <2> SUFFICES ASSUME NEW s \in DOMAIN syms
               PROVE  /\ syms[s].runs <= 1
                      /\ syms[s].state = "completed" /\ syms[s].err = "none" /\ ~syms[s].src =>
                           Entered(syms, s, Rows[syms[s].name], Len(Rows[syms[s].name]))
    BY DEF CompletedOnce
  <2>2. SymOK(s) BY <1>1, <2>1 DEF TableInv, Threads
  <2> QED BY <2>2 DEF SymOK
<1> QED BY <1>1, TableInvariant, PTL
-----------------------------------------------------------------------------
(* Every held mutex is that of the symbol its holder completes. *)
Owned ==
  \A s \in 1..Len(syms) : syms[s].mu # Nobody =>
    LET h == syms[s].mu IN h \in Goroutine /\ Busy(h) /\ run[h].s = s

(* A step of g leaves the mutexes of the other goroutines alone, and g has  *)
(* none but that of the symbol it completes.                                *)
HandsOff(g) ==
  /\ \A h \in Goroutine : h # g => run'[h] = run[h]
  /\ \A x \in 1..Len(syms') : syms'[x].mu # Nobody =>
       \/ syms'[x].mu = g /\ Busy(g)' /\ run'[g].s = x
       \/ x \in 1..Len(syms) /\ syms'[x].mu = syms[x].mu /\ syms[x].mu # g

(* Such a step keeps the owners. *)
LEMMA OwnersStay ==
  ASSUME Owned, NEW g \in Goroutine, HandsOff(g)
  PROVE  Owned'
<1> SUFFICES ASSUME NEW x \in 1..Len(syms'), syms'[x].mu # Nobody
             PROVE  /\ syms'[x].mu \in Goroutine /\ run'[syms'[x].mu].s = x
                    /\ run'[syms'[x].mu].pc \in {"load", "rows", "nested"}
  BY DEF Owned, Busy
<1>1. CASE syms'[x].mu = g /\ Busy(g)' /\ run'[g].s = x BY <1>1 DEF Busy
<1>2. CASE x \in 1..Len(syms) /\ syms'[x].mu = syms[x].mu /\ syms[x].mu # g
  <2>0. PICK h : h = syms[x].mu OBVIOUS
  <2>1. h \in Goroutine /\ Busy(h) /\ run[h].s = x BY <1>2, <2>0 DEF Owned
  <2>2. run'[h] = run[h] BY <1>2, <2>0, <2>1 DEF HandsOff
  <2> QED BY <1>2, <2>0, <2>1, <2>2 DEF Busy
<1> QED BY <1>1, <1>2 DEF HandsOff

(* A goroutine outside the completers holds nothing: a step with which it   *)
(* stays outside and at most makes symbols.                                 *)
LEMMA Outside ==
  ASSUME Shapes, Owned, NEW g \in Goroutine, ~Busy(g), Len(syms) <= Len(syms'), Len(syms') \in Nat,
         \A h \in Goroutine : h # g => run'[h] = run[h],
         \A x \in 1..Len(syms) : syms'[x].mu = syms[x].mu,
         \A x \in Len(syms) + 1 .. Len(syms') : syms'[x].mu = Nobody
  PROVE  HandsOff(g)
<1> SUFFICES ASSUME NEW x \in 1..Len(syms'), syms'[x].mu # Nobody
             PROVE  x \in 1..Len(syms) /\ syms'[x].mu = syms[x].mu /\ syms[x].mu # g
  BY DEF HandsOff
<1>1. Len(syms) \in Nat BY DEF Shapes
<1>2. x \in 1..Len(syms) BY <1>1
<1> QED BY <1>2 DEF Owned

(* A completer that goes on with its symbol, or ends and releases it. *)
LEMMA Inside ==
  ASSUME Shapes, Owned, NEW g \in Goroutine, NEW s, s = run[g].s,
         Len(syms) <= Len(syms'), Len(syms') \in Nat,
         \A h \in Goroutine : h # g => run'[h] = run[h],
         \A x \in 1..Len(syms) : x # s => syms'[x].mu = syms[x].mu,
         \A x \in Len(syms) + 1 .. Len(syms') : syms'[x].mu = Nobody,
         s \in 1..Len(syms),
         syms'[s].mu = Nobody \/ (syms'[s].mu = g /\ Busy(g)' /\ run'[g].s = s)
  PROVE  HandsOff(g)
<1> SUFFICES ASSUME NEW x \in 1..Len(syms'), syms'[x].mu # Nobody, x # s
             PROVE  x \in 1..Len(syms) /\ syms'[x].mu = syms[x].mu /\ syms[x].mu # g
  BY DEF HandsOff
<1>1. Len(syms) \in Nat BY DEF Shapes
<1>2. x \in 1..Len(syms) BY <1>1
<1> QED BY <1>2 DEF Owned

(* What Class, Declare and Complete do outside the completers. *)
LEMMA CallersHandsOff ==
  ASSUME TableInv, Owned, NEW g \in Goroutine,
         \/ \E n \in Name : Class(g, n) \/ Declare(g, n)
         \/ \E s \in DOMAIN syms : Complete(g, s)
         \/ CompleteKnown(g) \/ ClassInsert(g)
  PROVE  HandsOff(g)
<1>1. Shapes BY DEF TableInv
<1>2. syms \in Seq(SymRec) /\ Len(syms) \in Nat BY <1>1 DEF Shapes
<1>3. ~Busy(g)
  BY DEF Class, Declare, Complete, CompleteKnown, ClassInsert, Starts, At, Busy
<1>4. \A h \in Goroutine : h # g => run'[h] = run[h]
  BY <1>1 DEF Class, Declare, Complete, CompleteKnown, ClassInsert, Become, Returns, Shapes
<1>5. UNCHANGED syms \/ \E m \in Name, b \in BOOLEAN : syms' = Append(syms, Stub(m, b))
  <2>1. ClassInsert(g) => run[g].n \in Name BY DEF TableInv, Threads, RunOK, ClassInsert, At
  <2> QED BY <2>1 DEF Class, Declare, Complete, CompleteKnown, ClassInsert, Stubbed
<1>6. CASE UNCHANGED syms
  <2>1. \A x \in Len(syms) + 1 .. Len(syms') : syms'[x].mu = Nobody BY <1>2, <1>6
  <2> QED BY <1>1, <1>2, <1>3, <1>4, <1>6, <2>1, Outside
<1>7. CASE \E m \in Name, b \in BOOLEAN : syms' = Append(syms, Stub(m, b))
  <2>1. PICK m \in Name, b \in BOOLEAN : syms' = Append(syms, Stub(m, b)) BY <1>7
  <2>2. /\ Len(syms') = Len(syms) + 1 /\ syms'[Len(syms) + 1] = Stub(m, b)
        /\ \A x \in 1..Len(syms) : syms'[x] = syms[x]
    BY <1>2, <2>1, AppendShape
  <2>3. Stub(m, b).mu = Nobody BY DEF Stub
  <2>4. \A x \in Len(syms) + 1 .. Len(syms') : syms'[x].mu = Nobody BY <1>2, <2>2, <2>3
  <2>5. Len(syms) <= Len(syms') /\ Len(syms') \in Nat BY <1>2, <2>2
  <2> QED BY <1>1, <1>3, <1>4, <2>2, <2>4, <2>5, Outside
<1> QED BY <1>5, <1>6, <1>7

(* The start of a completer takes the mutex of its symbol. *)
LEMMA StartHandsOff ==
  ASSUME TableInv, Owned, NEW g \in Goroutine, CompleteStart(g)
  PROVE  HandsOff(g)
<1>0. PICK s : s = run[g].s OBVIOUS
<1>1. Shapes /\ RunOK(g) BY DEF TableInv, Threads
<1>2. s \in 1..Len(syms) /\ syms \in Seq(SymRec) /\ Len(syms) \in Nat /\ syms[s] \in SymRec
  BY <1>0, <1>1 DEF RunOK, CompleteStart, At, Shapes
<1>3. run[g] \in RunRec BY <1>1 DEF Shapes
<1>4. run'[g].pc = "load" /\ run'[g].s = s /\ \A h \in Goroutine : h # g => run'[h] = run[h]
  BY <1>0, <1>1, <1>3 DEF CompleteStart, Become, Shapes, RunRec
<1>5. /\ Len(syms') = Len(syms) /\ syms'[s].mu = g
      /\ \A x \in 1..Len(syms) : x # s => syms'[x] = syms[x]
  BY <1>0, <1>2 DEF CompleteStart, SymRec
<1>6. \A x \in Len(syms) + 1 .. Len(syms') : syms'[x].mu = Nobody BY <1>2, <1>5
<1> QED BY <1>0, <1>1, <1>2, <1>4, <1>5, <1>6, Inside DEF Busy

(* The end of a completer releases it. *)
LEMMA FinishHandsOff ==
  ASSUME TableInv, Owned, NEW g \in Goroutine, Busy(g), NEW err, Finish(g, err)
  PROVE  HandsOff(g)
<1>0. PICK s : s = run[g].s OBVIOUS
<1>1. Shapes /\ RunOK(g) BY DEF TableInv, Threads
<1>2. s \in 1..Len(syms) /\ syms \in Seq(SymRec) /\ Len(syms) \in Nat /\ syms[s] \in SymRec
  BY <1>0, <1>1 DEF RunOK, Shapes
<1>3. \A h \in Goroutine : h # g => run'[h] = run[h]
  BY <1>1 DEF Finish, Returns, Become, Shapes
<1>4. /\ Len(syms') = Len(syms) /\ syms'[s].mu = Nobody
      /\ \A x \in 1..Len(syms) : x # s => syms'[x] = syms[x]
  BY <1>0, <1>2 DEF Finish, SymRec
<1>5. \A x \in Len(syms) + 1 .. Len(syms') : syms'[x].mu = Nobody BY <1>2, <1>4
<1> QED BY <1>0, <1>1, <1>2, <1>3, <1>4, <1>5, Inside

(* The completer's other steps keep the goroutine at its symbol. *)
LEMMA GoesOn ==
  ASSUME TableInv, Owned, NEW g \in Goroutine, Busy(g), NEW r, Become(g, r),
         r.pc \in {"rows", "nested"}, r.s = run[g].s,
         Len(syms) <= Len(syms'), Len(syms') \in Nat,
         \A x \in 1..Len(syms) : syms'[x].mu = syms[x].mu,
         \A x \in Len(syms) + 1 .. Len(syms') : syms'[x].mu = Nobody
  PROVE  HandsOff(g)
<1>0. PICK s : s = run[g].s OBVIOUS
<1>1. Shapes /\ RunOK(g) BY DEF TableInv, Threads
<1>2. s \in 1..Len(syms) /\ syms[s].mu = g BY <1>0, <1>1 DEF RunOK
<1>3. run'[g] = r /\ \A h \in Goroutine : h # g => run'[h] = run[h]
  BY <1>1 DEF Become, Shapes
<1> QED BY <1>0, <1>1, <1>2, <1>3, Inside DEF Busy

(* A row that is entered, with or without a new symbol. *)
LEMMA LinkHandsOff ==
  ASSUME TableInv, Owned, NEW g \in Goroutine, run[g].pc \in {"rows", "nested"},
         run[g].rows # <<>>, RowDone(g), NEW ss \in Seq(SymRec), NEW t \in 0..Len(ss),
         syms' = Linked(ss, run[g].s, Head(run[g].rows), t), Len(syms) <= Len(ss),
         \A x \in 1..Len(syms) : ss[x] = syms[x],
         \A x \in Len(syms) + 1 .. Len(ss) : ss[x].mu = Nobody
  PROVE  HandsOff(g)
<1>0. PICK s, row : s = run[g].s /\ row = Head(run[g].rows) OBVIOUS
<1>1. s \in 1..Len(syms) /\ row \in Row BY <1>0, AtRow
<1>2. Len(syms) \in Nat /\ Len(ss) \in Nat BY DEF TableInv, Shapes
<1>3. s \in 1..Len(ss) BY <1>1, <1>2
<1>4. /\ syms' \in Seq(SymRec) /\ Len(syms') = Len(ss)
      /\ \A x \in 1..Len(ss) : x # s => syms'[x] = ss[x]
      /\ Gains(ss[s], syms'[s], row, t)
  BY <1>0, <1>1, <1>3, LinkedShape
<1>5. syms'[s].mu = ss[s].mu BY <1>4 DEF Gains
<1>6. \A x \in 1..Len(ss) : syms'[x].mu = ss[x].mu BY <1>4, <1>5
<1>7. \A x \in 1..Len(syms) : syms'[x].mu = syms[x].mu BY <1>2, <1>6
<1>8. \A x \in Len(syms) + 1 .. Len(syms') : syms'[x].mu = Nobody BY <1>2, <1>4, <1>6
<1>9. PICK r : r = [run[g] EXCEPT !.pc = "rows", !.rows = Tail(run[g].rows)] OBVIOUS
<1>10. Become(g, r) /\ Busy(g) BY <1>9 DEF RowDone, Busy
<1>11. r.pc = "rows" /\ r.s = run[g].s
  <2>1. run[g] \in RunRec BY DEF TableInv, Shapes
  <2> QED BY <1>9, <2>1 DEF RunRec
<1> QED BY <1>2, <1>4, <1>7, <1>8, <1>10, <1>11, GoesOn

(* enterNested's look at the table. *)
LEMMA RowLookupHandsOff ==
  ASSUME TableInv, Owned, NEW g \in Goroutine, RowLookup(g)
  PROVE  HandsOff(g)
<1>1. run[g].pc = "rows" /\ run[g].rows # <<>> /\ Busy(g) BY DEF RowLookup, At, Busy
<1>2. Shapes /\ Refs /\ syms \in Seq(SymRec) /\ Len(syms) \in Nat BY DEF TableInv, Shapes
<1>3. PICK row : row = Head(run[g].rows) OBVIOUS
<1>4. CASE classes[row.n] # 0 \/ row.n \notin OnPath
  <2>1. syms' = Linked(syms, run[g].s, row, classes[row.n]) /\ RowDone(g)
    BY <1>3, <1>4 DEF RowLookup
  <2>2. classes[row.n] \in 0..Len(syms)
    <3>1. row \in Row BY <1>1, <1>3, AtRow
    <3> QED BY <1>2, <3>1 DEF Row, Refs, Shapes
  <2>3. \A x \in Len(syms) + 1 .. Len(syms) : syms[x].mu = Nobody BY <1>2
  <2> QED BY <1>1, <1>2, <1>3, <2>1, <2>2, <2>3, LinkHandsOff
<1>5. CASE ~(classes[row.n] # 0 \/ row.n \notin OnPath)
  <2>0. PICK r : r = [run[g] EXCEPT !.pc = "nested"] OBVIOUS
  <2>1. Become(g, r) /\ UNCHANGED syms
    BY <1>3, <1>5, <2>0 DEF RowLookup
  <2>2. r.pc = "nested" /\ r.s = run[g].s
    <3>1. run[g] \in RunRec BY <1>2 DEF Shapes
    <3> QED BY <2>0, <3>1 DEF RunRec
  <2>3. \A x \in Len(syms) + 1 .. Len(syms') : syms'[x].mu = Nobody BY <1>2, <2>1
  <2> QED BY <1>1, <1>2, <2>1, <2>2, <2>3, GoesOn
<1> QED BY <1>4, <1>5

(* enterNested's insertion. *)
LEMMA RowInsertHandsOff ==
  ASSUME TableInv, Owned, NEW g \in Goroutine, RowInsert(g)
  PROVE  HandsOff(g)
<1>1. run[g].pc = "nested" /\ run[g].rows # <<>> /\ RowDone(g)
  BY DEF TableInv, Threads, RunOK, RowInsert, At
<1>2. Shapes /\ Refs /\ syms \in Seq(SymRec) /\ Len(syms) \in Nat BY DEF TableInv, Shapes
<1>3. PICK row : row = Head(run[g].rows) OBVIOUS
<1>4. row.n \in Name
  <2>1. row \in Row BY <1>1, <1>3, AtRow
  <2> QED BY <2>1 DEF Row
<1>5. CASE classes[row.n] # 0
  <2>1. syms' = Linked(syms, run[g].s, row, classes[row.n])
    BY <1>3, <1>5 DEF RowInsert, Stubbed
  <2>2. classes[row.n] \in 0..Len(syms) BY <1>2, <1>4 DEF Refs, Shapes
  <2>3. \A x \in Len(syms) + 1 .. Len(syms) : syms[x].mu = Nobody BY <1>2
  <2> QED BY <1>1, <1>2, <1>3, <2>1, <2>2, <2>3, LinkHandsOff
<1>6. CASE classes[row.n] = 0
  <2> DEFINE ss == Append(syms, Stub(row.n, FALSE))
  <2>1. syms' = Linked(ss, run[g].s, row, Len(syms) + 1)
    BY <1>2, <1>3, <1>4, <1>6 DEF RowInsert, Stubbed, Shapes
  <2>2. /\ ss \in Seq(SymRec) /\ Len(ss) = Len(syms) + 1
        /\ \A x \in 1..Len(syms) : ss[x] = syms[x]
        /\ ss[Len(syms) + 1] = Stub(row.n, FALSE)
    BY <1>2, <1>4, AppendShape
  <2> HIDE DEF ss
  <2>3. Stub(row.n, FALSE).mu = Nobody BY DEF Stub
  <2>4. \A x \in Len(syms) + 1 .. Len(ss) : ss[x].mu = Nobody
    <3>1. \A x \in Len(syms) + 1 .. Len(ss) : x = Len(syms) + 1 BY <1>2, <2>2
    <3> QED BY <2>2, <2>3, <3>1
  <2>5. Len(syms) <= Len(ss) /\ Len(syms) + 1 \in 0..Len(ss) BY <1>2, <2>2
  <2> QED BY <1>1, <1>3, <2>1, <2>2, <2>4, <2>5, LinkHandsOff
<1> QED BY <1>2, <1>4, <1>5, <1>6 DEF Shapes

(* The loading of the class file. *)
LEMMA LoadHandsOff ==
  ASSUME TableInv, Owned, NEW g \in Goroutine, Load(g)
  PROVE  HandsOff(g)
<1>1. Busy(g) /\ Shapes BY DEF Load, At, Busy, TableInv
<1>2. Len(syms) \in Nat BY <1>1 DEF Shapes
<1>3. CASE \E err : Finish(g, err) BY <1>1, <1>3, FinishHandsOff
<1>4. CASE \A err : ~Finish(g, err)
  <2>0. PICK rows, r : /\ rows = Rows[syms[run[g].s].name]
                       /\ r = [run[g] EXCEPT !.pc = "rows", !.rows = rows]
    OBVIOUS
  <2>1. Become(g, r) /\ UNCHANGED syms BY <1>4, <2>0 DEF Load
  <2>2. r.pc = "rows" /\ r.s = run[g].s
    <3>1. run[g] \in RunRec BY <1>1 DEF Shapes
    <3> QED BY <2>0, <3>1 DEF RunRec
  <2>3. \A x \in Len(syms) + 1 .. Len(syms') : syms'[x].mu = Nobody BY <1>2, <2>1
  <2> QED BY <1>1, <1>2, <2>1, <2>2, <2>3, GoesOn
<1> QED BY <1>3, <1>4

(* Every step keeps the owners. *)
LEMMA OwnedStep ==
  ASSUME TableInv, Owned, [Next]_vars
  PROVE  Owned'
<1>1. CASE UNCHANGED vars
  <2>1. UNCHANGED <<syms, run>> BY <1>1 DEF vars
  <2> QED BY <2>1 DEF Owned, Busy
<1>2. CASE Next
  <2>1. PICK g \in Goroutine : \/ Step(g)
                               \/ \E n \in Name : Class(g, n) \/ Declare(g, n)
                               \/ \E s \in DOMAIN syms : Complete(g, s)
    BY <1>2 DEF Next
  <2>2. CASE ClassInsert(g) \/ CompleteKnown(g) \/ ~Step(g)
    BY <2>1, <2>2, CallersHandsOff, OwnersStay
  <2>3. CASE CompleteStart(g) BY <2>3, StartHandsOff, OwnersStay
  <2>4. CASE Load(g) BY <2>4, LoadHandsOff, OwnersStay
  <2>5. CASE RowLookup(g) BY <2>5, RowLookupHandsOff, OwnersStay
  <2>6. CASE RowInsert(g) BY <2>6, RowInsertHandsOff, OwnersStay
  <2>7. CASE RowsEnd(g)
    <3>1. Busy(g) /\ Finish(g, "none") BY <2>7 DEF RowsEnd, At, Busy
    <3> QED BY <3>1, FinishHandsOff, OwnersStay
  <2> QED BY <2>2, <2>3, <2>4, <2>5, <2>6, <2>7 DEF Step
<1> QED BY <1>1, <1>2

(* A goroutine that waits in Complete waits for one that runs the completer *)
(* and waits for no symbol, however many goroutines there are and whatever  *)
(* classes their files name (ClassSym.Complete, enterNested).               *)
THEOREM NoCircularWait == Spec => []OwnerRuns
<1>1. Init => Owned BY DEF Init, Owned
<1>2. ASSUME TableInv, Owned PROVE OwnerRuns
  <2> SUFFICES ASSUME NEW g \in Goroutine, At(g, "wait"), syms[run[g].s].mu # Nobody
               PROVE  LET h == syms[run[g].s].mu IN
                        run[h].pc \in {"load", "rows", "nested"} /\ run[h].s = run[g].s
    BY DEF OwnerRuns
  <2>1. RunOK(g) BY <1>2 DEF TableInv, Threads
  <2>2. run[g].s \in 1..Len(syms) BY <2>1 DEF RunOK, At
  <2> QED BY <1>2, <2>2 DEF Owned, Busy
<1>3. TableInv /\ Owned /\ [Next]_vars => Owned' BY OwnedStep
<1> QED BY <1>1, <1>2, <1>3, TableInvariant, PTL DEF Spec
=============================================================================
