------------------------------- MODULE MCDriver -------------------------------
(* Instances of Driver for TLC: batches of two files, in both orders.       *)
EXTENDS Driver, TLC

Path == {<<"lang", "A">>, <<"p", "B">>, <<"q", "B">>}

Unit(pkg, types, imports, onDemand, uses) ==
  [pkg |-> pkg, types |-> types, imports |-> imports, onDemand |-> onDemand,
   uses |-> uses, dupMember |-> FALSE]

Orders(s) == {[i \in DOMAIN s |-> s[p[i]]] : p \in Permutations(DOMAIN s)}

(* An import of a batch type, of a class file the batch replaces, on-demand *)
(* imports that meet, and java.lang behind them.                            *)
Forward  == <<Unit("p", <<"A">>, << <<"q", "C">> >>, {}, {"C", "B"}),
              Unit("q", <<"C">>, <<>>, {"p"}, {"A", "B"})>>
Replaced == <<Unit("q", <<"C">>, << <<"p", "B">> >>, {}, {"B"}),
              Unit("p", <<"B">>, <<>>, {}, {"A"})>>
Meeting  == <<Unit("r", <<"C">>, <<>>, {"p", "q"}, {"A", "B", "C"}),
              Unit("p", <<"A">>, <<>>, {"q"}, {"B"})>>
Clash    == <<Unit("p", <<"A", "C">>, << <<"p", "B">>, <<"q", "B">> >>, {}, {"C"}),
              Unit("p", <<"C">>, <<>>, {}, {"A"})>>

Twice    == <<[Unit("p", <<"A">>, <<>>, {}, {}) EXCEPT !.dupMember = TRUE],
              Unit("q", <<"C">>, <<>>, {}, {"A"})>>

AllBatches == Orders(Forward) \cup Orders(Replaced) \cup Orders(Meeting) \cup Orders(Clash) \cup Orders(Twice)
=============================================================================
