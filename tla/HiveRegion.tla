------------------------------- MODULE HiveRegion -------------------------------
(****************************************************************************)
(* Regions of a logic network, as hive looks for them: sets of nodes with   *)
(* few inputs and outputs.  n is the network: its nodes, the combinational  *)
(* inputs ci (primary inputs and latch outputs), the fanins of each node,   *)
(* a sequence as a fanin may fill two slots, and co, the nodes that drive a *)
(* combinational output.  rank is the rank of each node, as CombGraph       *)
(* computes it (module Hive).                                               *)
(*                                                                          *)
(* A set that the code finds by a search is defined as the least set that   *)
(* is closed under the search's steps.                                      *)
(****************************************************************************)
EXTENDS Integers, Sequences, FiniteSets, SequencesExt

IsNet(n) ==
  /\ IsFiniteSet(n.node) /\ n.node \subseteq Nat /\ IsFiniteSet(n.ci) /\ n.ci \cap n.node = {}
  /\ n.co \subseteq n.node
  /\ DOMAIN n.fanin = n.node /\ \A v \in n.node : n.fanin[v] \in Seq(n.node \cup n.ci)

(* CombGraph: m_preds, m_succs, m_ext_ins, m_ext_out *)
Preds(n, v)  == ToSet(n.fanin[v]) \cap n.node
Succs(n, v)  == {s \in n.node : v \in Preds(n, s)}
ExtIns(n, v) == ToSet(n.fanin[v]) \cap n.ci

Closed(D, next) == \A v \in D : next[v] \subseteq D
Reached(n, S, next) ==
  {x \in n.node : \A D \in SUBSET n.node : S \subseteq D /\ Closed(D, next) => x \in D}

Forward(n)  == [v \in n.node |-> Succs(n, v)]
Backward(n) == [v \in n.node |-> Preds(n, v)]

(* IsConvexBrute: no path leaves M and comes back. *)
Convex(n, M) == Reached(n, M, Forward(n)) \cap Reached(n, M, Backward(n)) \subseteq M

(* Abc_NodeMffcLabel: root, and the nodes read only by nodes found before. *)
Absorbs(n, M) ==
  \A v \in n.node : v \notin n.co /\ Succs(n, v) # {} /\ Succs(n, v) \subseteq M => v \in M
Mffc(n, root) ==
  {x \in n.node : \A M \in SUBSET n.node : root \in M /\ Absorbs(n, M) => x \in M}

----------------------------------------------------------------------------
(* ComputeClosure: the vertices marked forward and backward from the set S, *)
(* of ranks between those of S                                              *)
BelowSome(rank, S, v) == \E u \in S : rank[v] < rank[u]
AboveSome(rank, S, v) == \E u \in S : rank[v] > rank[u]
UpTo(n, rank, S) ==
  [v \in n.node |-> {s \in Succs(n, v) : BelowSome(rank, S, s) /\ s \notin S}]
DownTo(n, rank, S) ==
  [v \in n.node |-> {p \in Preds(n, v) : AboveSome(rank, S, p) /\ p \notin S}]
Desc(n, rank, S) == Reached(n, S, UpTo(n, rank, S)) \ S
Anc(n, rank, S)  == Reached(n, S, DownTo(n, rank, S)) \ S

OverBudget(n, rank, S, budget) ==
  Cardinality(Desc(n, rank, S)) > budget \/ Cardinality(Anc(n, rank, S)) > budget
NearViolators(n, rank, S) ==   \* slip: only detours of one vertex
  {v \in n.node \ S : Preds(n, v) \cap S # {} /\ Succs(n, v) \cap S # {}}
Violators(n, rank, S) == Desc(n, rank, S) \cap Anc(n, rank, S)

----------------------------------------------------------------------------
(* Region: driven counts the members that an outside driver feeds, ext the  *)
(* successors of a member outside.                                          *)
Nothing == [x \in {} |-> 0]
EmptyRegion == [members |-> {}, driven |-> Nothing, ext |-> Nothing, in |-> 0, out |-> 0]

At(f, x) == IF x \in DOMAIN f THEN f[x] ELSE 0
Count(b) == IF b THEN 1 ELSE 0

(* Region::add: id stops being an external driver, and so on *)
AllDriving(r, id) == DOMAIN r.driven   \* slip: it stays one
StillDriving(r, id) == DOMAIN r.driven \ {id}
Add(n, r, id) ==
  LET M     == r.members \cup {id}
      fed   == (Preds(n, id) \ M) \cup ExtIns(n, id)
      known == StillDriving(r, id)
      mine  == Preds(n, id) \cap r.members
      cnt   == Cardinality(Succs(n, id) \ M)
      inner == {p \in mine : r.ext[p] = 1 /\ p \notin n.co}   \* they leave the out set
  IN [ members |-> M,
       driven  |-> [d \in known \cup fed |-> At(r.driven, d) + Count(d \in fed)],
       ext     |-> [m \in M |-> IF m = id THEN cnt ELSE r.ext[m] - Count(m \in mine)],
       in      |-> r.in - Cardinality(DOMAIN r.driven \ known) + Cardinality(fed \ known),
       out     |-> r.out - Cardinality(inner) + Count(id \in n.co \/ cnt > 0) ]

EntranceCandidates(n, r) == DOMAIN r.driven \cap n.node
OutMembers(n, r) == {m \in DOMAIN r.ext : m \in n.co \/ r.ext[m] > 0}

(* Region::recompute: a scan of the members M *)
Drivers(n, M) == UNION {(Preds(n, m) \ M) \cup ExtIns(n, m) : m \in M}
Outs(n, M) == {m \in M : m \in n.co \/ Succs(n, m) \ M # {}}
Fed(n, M, d) == {m \in M : d \in ToSet(n.fanin[m])}
Exact(n, r) ==
  LET M == r.members IN
  /\ r.driven = [d \in Drivers(n, M) |-> Cardinality(Fed(n, M, d))]
  /\ r.ext = [m \in M |-> Cardinality(Succs(n, m) \ M)]
  /\ r.in = Cardinality(Drivers(n, M))
  /\ r.out = Cardinality(Outs(n, M))

Scan(n, M) ==
  [ members |-> M,
    driven  |-> [d \in Drivers(n, M) |-> Cardinality(Fed(n, M, d))],
    ext     |-> [m \in M |-> Cardinality(Succs(n, m) \ M)],
    in      |-> Cardinality(Drivers(n, M)),
    out     |-> Cardinality(Outs(n, M)) ]

(* Region::metrics: q is a fraction *)
Q(r) == IF r.in + r.out > 0 THEN <<Cardinality(r.members), r.in + r.out>> ELSE <<0, 1>>
Less(p, q) == p[1] * q[2] < q[1] * p[2]

(* lower_bound_luts: of outputs, of inputs, of the widest output *)
CeilDiv(x, k) == IF x > 0 THEN (x + k - 1) \div k ELSE 0
Support(n, M, j) ==
  LET cone == Reached(n, {j}, [v \in n.node |-> Preds(n, v) \cap M])
  IN UNION {(Preds(n, v) \ M) \cup ExtIns(n, v) : v \in cone}
LowerBound(n, r, k) ==
  Max({r.out, CeilDiv(r.in - r.out, k - 1)} \cup
      {CeilDiv(Cardinality(Support(n, r.members, j)) - 1, k - 1) : j \in OutMembers(n, r)})
=============================================================================
