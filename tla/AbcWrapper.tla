------------------------------ MODULE AbcWrapper ------------------------------
(****************************************************************************)
(* AbcNtkWrapper (fmpart/abc_wrapper.cpp): the hypergraph on which FMPart   *)
(* runs, made of a network.  Inputs, nodes, latches and the constant become *)
(* vertices, numbered in the order of their ids; every one of them has a    *)
(* net with all that it reaches through the interconnect in between, and    *)
(* nets of less than two pins are dropped.                                  *)
(*                                                                          *)
(* Here a network is [kind, fanin]: an object has a kind and the sequence   *)
(* of its fanins.  A latch reads a "bi" and is read by a "bo".              *)
(****************************************************************************)
EXTENDS FMPart

CONSTANT Netlists   (* networks; Inputs has their hypergraphs, among others *)

Objects(n) == DOMAIN n.kind
FanoutsOf(n, o) == {x \in Objects(n) : \E i \in DOMAIN n.fanin[x] : n.fanin[x][i] = o}

IsHyperNode(n, o) == n.kind[o] \in {"pi", "node", "latch", "const1"}

TraverseNodes(n, o) == n.kind[o] # "po"   \* slip: the search goes on at a vertex
ShouldTraverse(n, o) == n.kind[o] \in {"net", "bi", "bo"}

(* What CollectSinks visits, from the fanouts of o: the least set that has  *)
(* them and, with an object to be traversed, its fanouts.  The only fanout  *)
(* of a latch, its output, is passed through like any other.                *)
Complete(n, S) == \A x \in S : ShouldTraverse(n, x) => FanoutsOf(n, x) \subseteq S
Visited(n, o) ==
  {x \in Objects(n) :
     \A S \in SUBSET Objects(n) : FanoutsOf(n, o) \subseteq S /\ Complete(n, S) => x \in S}
Sinks(n, o) == {x \in Visited(n, o) : IsHyperNode(n, x)}

(* m_vertices and m_pins are filled in the order of the ids: an element's   *)
(* place is its rank among those that are entered.                          *)
Rank(x, S) == Cardinality({y \in S : y <= x})

HyperNodes(n) == {o \in Objects(n) : IsHyperNode(n, o)}
VertexOf(n, o) == Rank(o, HyperNodes(n))

Pins(n, o) == {VertexOf(n, x) : x \in {o} \cup Sinks(n, o)}
Carriers(n) == {o \in HyperNodes(n) : Cardinality(Pins(n, o)) >= 2}

Wrapped(n) ==
  [e \in 1 .. Cardinality(Carriers(n)) |->
     Pins(n, CHOOSE o \in Carriers(n) : Rank(o, Carriers(n)) = e)]

Hypergraphs == [n \in Netlists |-> Wrapped(n)]

ASSUME NetlistAssumption ==
  \A n \in Netlists : IsFiniteSet(Objects(n)) /\ Objects(n) \subseteq Nat

(* net_weight: a network's nets all weigh 1. *)
ASSUME UnitAssumption ==
  \A n \in Netlists, i \in Inputs :
    i.pins = Hypergraphs[n] => \A e \in Net : i.nw[e] = 1

----------------------------------------------------------------------------
(* Abc_NtkComputeCutSize, when the sides are the part ids: the objects that *)
(* an object in another part reads directly.  Latches have no say in it.    *)
IsPartStatVertex(n, o) == n.kind[o] \in {"pi", "node", "const1"}

CutSize(n) ==
  LET side(o) == part[VertexOf(n, o)]
      stat == {o \in Objects(n) : IsPartStatVertex(n, o)}
  IN Cardinality({u \in stat : \E v \in stat \cap FanoutsOf(n, u) : side(u) # side(v)})

Combinational(n) == \A o \in Objects(n) : n.kind[o] \in {"const1", "pi", "node", "po"}

(* Whenever the engine has settled a move, the cut it has kept up to date   *)
(* on the hypergraph is the number of cut nets that the partition database  *)
(* would count on the network itself, and never less when signals pass      *)
(* through latches, which the database does not look at                     *)
(* (docs/fmpart-design.md:37 has the two equal).                            *)
NetworkCut ==
  Settled =>
    \A n \in {n \in Netlists : Hypergraphs[n] = h.pins} :
      /\ CutSize(n) <= cut
      /\ Combinational(n) => cut = CutSize(n)
===============================================================================
