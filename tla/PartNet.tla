-------------------------------- MODULE PartNet --------------------------------
(****************************************************************************)
(* Partitioned logic networks: what the cut optimisers read and change of   *)
(* an Abc_Ntk_t and its partition database.  Fanins are sequences, as a     *)
(* fanin may fill two slots.  A local function is the set of the sets of    *)
(* slots that make the node true.  Outputs have no part.                    *)
(*                                                                          *)
(* An ObjId is a number below max; the next new object gets max.            *)
(****************************************************************************)
EXTENDS PartIds, Integers, Sequences, FiniteSets, FiniteSetsExt, SequencesExt

(* The elements of S in the order R, a set of pairs. *)
Earlier(x, S, R) == Cardinality({y \in S : <<y, x>> \in R})
Listed(S, R) == [i \in 1 .. Cardinality(S) |-> CHOOSE x \in S : Earlier(x, S, R) = i - 1]
ById(S) == {e \in S \X S : e[1] < e[2]}

Vertices(n) == n.pi \cup n.node

IsNetwork(n) ==
  /\ n = [ max |-> n.max, pi |-> n.pi, node |-> n.node, fanin |-> n.fanin, truth |-> n.truth,
           part |-> n.part, po |-> n.po ]
  /\ n.max \in Nat
  /\ n.pi \cap n.node = {}
  /\ \A v \in Vertices(n) : v \in 0 .. n.max - 1
  /\ n.fanin \in [n.node -> Seq(Vertices(n))]
  /\ n.truth = [v \in n.node |-> n.truth[v] \cap SUBSET DOMAIN n.fanin[v]]
  /\ n.part \in [Vertices(n) -> Nat \cup {NoPart}]
  /\ n.po \in Seq(Vertices(n))

(* The network but for the next number, which no undoing gives back *)
Circuit(n) == [n EXCEPT !.max = 0]

Fanins(n, v) == IF v \in n.node THEN ToSet(n.fanin[v]) ELSE {}
Fanouts(n, u) == {v \in n.node : u \in Fanins(n, v)}
(* In every set of nodes there is one that reads none of them. *)
Acyclic(n) == \A S \in SUBSET n.node : S # {} => \E v \in S : Fanins(n, v) \cap S = {}

Drives(n, u) == \E o \in DOMAIN n.po : n.po[o] = u

Slots(n) == UNION {{v} \X DOMAIN n.fanin[v] : v \in n.node}
Driver(n, s) == n.fanin[s[1]][s[2]]

Foreign(p, q) == p # NoPart /\ p # q
Crosses(n, u, v) == n.part[v] # NoPart /\ Foreign(n.part[u], n.part[v])

(* ComputeCutEdgeCount *)
CutSlots(n) == {s \in Slots(n) : Crosses(n, Driver(n, s), s[1])}
CutEdges(n) == Cardinality(CutSlots(n))

(* Abc_NtkComputeCutSize, LocalCutNetState: the drivers of crossing edges *)
CutDrivers(n) == {Driver(n, s) : s \in CutSlots(n)}
CutNets(n) == Cardinality(CutDrivers(n))

(* The hops of v when its fanins, the sequence f, have the arrivals a. *)
HopsOver(n, a, f, p) ==
  Max({0} \cup {a[u] + (IF n.part[u] # p THEN 1 ELSE 0) :
                  u \in {u \in ToSet(f) : n.part[u] # NoPart}})

(* csr_hop_arrival, Abc_NtkComputeHopNum *)
Arrival(n) ==
  LET arrival[v \in Vertices(n)] ==
        IF v \in n.pi \/ n.part[v] = NoPart THEN 0
        ELSE HopsOver(n, [u \in Fanins(n, v) |-> arrival[u]], n.fanin[v], n.part[v])
  IN arrival

HopNum(n) == LET a == Arrival(n) IN Max({0} \cup {a[v] : v \in n.node})

(* partition_sizes *)
Sizes(n, parts) == [p \in 0 .. parts - 1 |-> Cardinality({v \in Vertices(n) : n.part[v] = p})]

----------------------------------------------------------------------------
(* The vertices that are true when the inputs in a are. *)
TrueAt(n, a) ==
  LET true[v \in Vertices(n)] ==
        IF v \in n.pi THEN v \in a
        ELSE {i \in DOMAIN n.fanin[v] : true[n.fanin[v][i]]} \in n.truth[v]
  IN {v \in Vertices(n) : true[v]}

(* The function of every output: the assignments that make it true. *)
Outputs(n) ==
  LET at == [a \in SUBSET n.pi |-> TrueAt(n, a)]
  IN [o \in DOMAIN n.po |-> {a \in SUBSET n.pi : n.po[o] \in at[a]}]

(* v and the vertices it depends on *)
Cone(n, v) ==
  LET cone[u \in Vertices(n)] == {u} \cup UNION {cone[w] : w \in Fanins(n, u)}
  IN cone[v]

----------------------------------------------------------------------------
(* Abc_ObjPatchFanin for every slot of the nodes in S that reads u *)
Patched(n, S, u, w) ==
  [n EXCEPT !.fanin = [v \in n.node |-> IF v \in S THEN ReplaceAll(n.fanin[v], u, w) ELSE n.fanin[v]]]

Without(n, D) ==
  LET V == n.node \ D IN
  [n EXCEPT !.node = V, !.fanin = [v \in V |-> @[v]], !.truth = [v \in V |-> @[v]],
            !.part = [v \in n.pi \cup V |-> @[v]]]

(* Abc_NtkCleanup: only what the outputs depend on stays. *)
Cleaned(n) == Without(n, n.node \ UNION {Cone(n, n.po[o]) : o \in DOMAIN n.po})

(* Abc_NtkDeleteObj_rec: v, which nothing reads, and what only v needed *)
Deleted(n, v) ==
  LET gone[u \in Vertices(n)] ==
        \/ u = v
        \/ /\ u \in n.node /\ ~Drives(n, u) /\ Fanouts(n, u) # {}
           /\ \A w \in Fanouts(n, u) : gone[w]
  IN Without(n, {u \in n.node : gone[u]})

(* a new node, with the fanins f, the local function t and the part p *)
Extended(n, f, t, p) ==
  [n EXCEPT !.max = @ + 1, !.node = @ \cup {n.max},
            !.fanin = [v \in DOMAIN @ \cup {n.max} |-> IF v = n.max THEN f ELSE @[v]],
            !.truth = [v \in DOMAIN @ \cup {n.max} |-> IF v = n.max THEN t ELSE @[v]],
            !.part  = [v \in DOMAIN @ \cup {n.max} |-> IF v = n.max THEN p ELSE @[v]]]
=============================================================================
