------------------------------- MODULE MCFMPart -------------------------------
(****************************************************************************)
(* FMPart on four vertices and three nets, over the inputs that decide its  *)
(* branches: unit weights; a heavy vertex that fits and one that never can; *)
(* no fixed vertex, one, two on one side so that the start is overweight,   *)
(* all four; a bound of 2 % and one that binds nothing; a minimal gain of 1 *)
(* and of 0 (every pass is made).  Every initial solution is tried.  And    *)
(* the hypergraphs of networks with four vertices and three nets.           *)
(****************************************************************************)
EXTENDS AbcWrapper, TLC

V4 == {1, 2, 3, 4}
N3 == {1, 2, 3}

FirstWeighs(n) == [v \in V4 |-> IF v = 1 THEN n ELSE 1]
NoneFixed == [v \in V4 |-> -1]
FixedTo0(S) == [v \in V4 |-> IF v \in S THEN 0 ELSE -1]

(* two nets of one to four pins, up to renaming; the third has weight 2 *)
NetPairs ==
  { <<{1, 2}, {2, 3}>>, <<{1, 2}, {3, 4}>>, <<{1, 2, 3}, {3, 4}>>,
    <<{1, 2, 3}, {2, 3, 4}>>, <<{1}, {1, 4}>>, <<{}, {1, 2, 3, 4}>> }
ThirdNets == {{1, 2, 3, 4}, {1, 3}}

Graphs ==
  { (1 :> p[1]) @@ (2 :> p[2]) @@ (3 :> t) : p \in NetPairs, t \in ThirdNets }

Settings ==   \* weights, fixed, pct, maxPasses, minGain
  { <<FirstWeighs(1), NoneFixed, 2, 3, 1>>,
    <<FirstWeighs(3), NoneFixed, 2, 3, 1>>,
    <<FirstWeighs(9), NoneFixed, 2, 2, 1>>,
    <<FirstWeighs(3), FixedTo0({4}), 2, 2, 0>>,
    <<FirstWeighs(3), FixedTo0({1, 2}), 2, 3, 1>>,
    <<FirstWeighs(1), FixedTo0(V4), 2, 3, 1>>,
    <<FirstWeighs(1), NoneFixed, 100, 2, 0>> }

Listed(objects) ==
  [ kind  |-> [i \in DOMAIN objects |-> Head(objects[i])],
    fanin |-> [i \in DOMAIN objects |-> Tail(objects[i])] ]

(* The network of test_fmpart.cpp:437. *)
Small == << <<"pi">>, <<"pi">>, <<"node", 1, 2>>, <<"node", 3, 2>>, <<"po", 4>> >>

(* A constant; the nodes are not in topological order, a fanin is doubled.  *)
Unordered ==
  << <<"const1">>, <<"pi">>, <<"node", 4, 1>>, <<"node", 2, 1, 2>>, <<"po", 3>> >>

(* A latch that a node and it feed, and two latches in a row. *)
Looped ==
  << <<"pi">>, <<"bi", 4>>, <<"latch", 2>>, <<"node", 1, 5>>, <<"bo", 3>>,
     <<"node", 5>>, <<"po", 6>> >>
Shifted ==
  << <<"pi">>, <<"bi", 1>>, <<"latch", 2>>, <<"bo", 3>>, <<"bi", 4>>, <<"latch", 5>>,
     <<"bo", 6>>, <<"node", 7, 1>>, <<"po", 8>> >>

MCNetlists == {Listed(l) : l \in {Small, Unordered, Looped, Shifted}}

MCInputs ==
  { [ pins |-> g, nw |-> (1 :> 1) @@ (2 :> 1) @@ (3 :> 2),
      vw |-> c[1], fixed |-> c[2], pct |-> c[3],
      maxPasses |-> c[4], minGain |-> c[5] ] : g \in Graphs, c \in Settings }
  \cup
  { [ pins |-> Hypergraphs[n], nw |-> [e \in N3 |-> 1], vw |-> FirstWeighs(1),
      fixed |-> NoneFixed, pct |-> p, maxPasses |-> 2, minGain |-> 1 ] :
      n \in MCNetlists, p \in {2, 100} }
=============================================================================
