------------------------------- MODULE Csr2Plans -------------------------------
(****************************************************************************)
(* What csr2 searches among (csr2.cpp): sequences of relocations, clusters  *)
(* of nodes to duplicate, and nodes that another can stand for; how each is *)
(* tried on the network and undone, and in which order they are preferred.  *)
(*                                                                          *)
(* A relocation is [node, from, to]; a plan is a sequence of them with the  *)
(* change of the cut-edges it brings.  A cluster is a set of nodes, a       *)
(* transaction the duplicates and the slots that building one has changed.  *)
(****************************************************************************)
EXTENDS PartLimits

CONSTANTS
  SeedLimit,   (* kRelocationSeedLimit, 64 *)
  BeamWidth    (* kRelocationBeamWidth, 8 *)

(* The order of tuples: one that is a prefix of the other comes first. *)
Before(s, t) ==
  \E k \in 1 .. Len(t) : /\ \A i \in 1 .. k - 1 : i <= Len(s) /\ s[i] = t[i]
                         /\ k > Len(s) \/ s[k] < t[k]

FirstBy(key) == CHOOSE a \in DOMAIN key : \A b \in DOMAIN key : ~Before(key[b], key[a])
FirstsBy(key, k) == {a \in DOMAIN key : Cardinality({b \in DOMAIN key : Before(key[b], key[a])}) < k}

NodeFanouts(n, u) == {s \in Slots(n) : Driver(n, s) = u}

----------------------------------------------------------------------------
(* RelocationSequenceLess *)
PlanKey(p) ==
  <<p.delta, Len(p.steps)>> \o [i \in DOMAIN p.steps |-> p.steps[i].node]
                            \o [i \in DOMAIN p.steps |-> p.steps[i].to]
NoPlan == [steps |-> <<>>, delta |-> 0]

(* CollectRelocationCandidates, in the order of the trajectory's policy *)
Relocations(n) ==
  {[node |-> m[1], from |-> n.part[m[1]], to |-> m[2]] :
     m \in UNION {{v} \X NeighbourParts(n, v) : v \in {v \in n.node : n.part[v] # NoPart}}}

Gain(n, m) == IncidentCross(n, m.node, m.to) - IncidentCross(n, m.node, m.from)

Policy(n, l, tid, m) ==
  LET size == IF m.to < l.parts THEN Sizes(n, l.parts)[m.to] ELSE 0
  IN CASE tid = 0 -> <<Gain(n, m), m.node, m.to>>
       [] tid = 1 -> <<Gain(n, m), -size, m.node, m.to>>
       [] OTHER   -> <<size, Gain(n, m), m.node, m.to>>

Seeds(n, l, tid) ==
  FirstsBy([m \in Relocations(n) |-> Policy(n, l, tid, m)], SeedLimit)

(* ApplyRelocationLog, RollbackRelocation *)
StepsOf(steps, v) == {i \in DOMAIN steps : steps[i].node = v}
Relocated(n, steps) ==
  [n EXCEPT !.part = [v \in DOMAIN @ |-> IF StepsOf(steps, v) = {} THEN @[v]
                                         ELSE steps[Max(StepsOf(steps, v))].to]]
RelocationUndone(n, steps) ==
  [n EXCEPT !.part = [v \in DOMAIN @ |-> IF StepsOf(steps, v) = {} THEN @[v]
                                         ELSE steps[Min(StepsOf(steps, v))].from]]

(* The plans one step longer than p, which n is already relocated by *)
StepDelta(n, p, m) ==   \* slip: measured from the parent
  CutEdges(Moved(n, m.node, m.to)) - CutEdges(n)
PlanDelta(n, p, m) ==
  CutEdges(Moved(n, m.node, m.to)) - CutEdges(RelocationUndone(n, p.steps))

MayFollow(n, l, p, m) ==
  /\ \A i \in DOMAIN p.steps : p.steps[i].node # m.node
  /\ Within(Moved(n, m.node, m.to), l)

Children(n, l, tid, p) ==
  {[steps |-> Append(p.steps, m), delta |-> PlanDelta(n, p, m)] :
     m \in {m \in Seeds(n, l, tid) : MayFollow(n, l, p, m)}}

----------------------------------------------------------------------------
(* ComputeHypotheticalCutNetDelta: v reads the fanins g instead of f. *)
JointNetDelta(n, v, f, g) ==
  LET other == {u \in ToSet(f \o g) : \E s \in NodeFanouts(n, u) : s[1] # v /\ Crosses(n, u, s[1])}
      cut(h) == Cardinality({u \in ToSet(f \o g) : u \in other \/ (u \in ToSet(h) /\ Crosses(n, u, v))})
  IN cut(g) - cut(f)

(* RunPhase1Resub: a node with two crossing fanins, and another with the    *)
(* same fanins and the same local function.  The fanins are sorted before   *)
(* they are compared.                                                       *)
SlotsReading(n, v, u) == {i \in DOMAIN n.fanin[v] : n.fanin[v][i] = u}
SameFanins(n, v, d) ==
  \A u \in Vertices(n) : Cardinality(SlotsReading(n, v, u)) = Cardinality(SlotsReading(n, d, u))

Joints(n) ==
  {j \in n.node \X n.node :
     LET v == j[1] d == j[2] cross == FaninCross(n, v, n.part[v]) IN
     /\ n.part[v] # NoPart /\ cross >= 2 /\ d # v
     /\ SameFanins(n, v, d) /\ n.truth[v] = n.truth[d]
     /\ (IF n.part[d] # n.part[v] THEN 1 ELSE 0) < cross}

(* The node becomes a buffer of the other. *)
Joined(n, j) == [n EXCEPT !.fanin[j[1]] = <<j[2]>>, !.truth[j[1]] = {{1}}]

----------------------------------------------------------------------------
(* CollectReplicationCandidates: a driver, and a part that reads it *)
NetIsCut(n, u, ignored) ==
  \E s \in NodeFanouts(n, u) : n.part[s[1]] # ignored /\ Crosses(n, u, s[1])

ForeignFanins(n, u, p) == {i \in DOMAIN n.fanin[u] : Foreign(n.part[n.fanin[u][i]], p)}

EdgeGain(n, u, p) ==
  Cardinality({s \in NodeFanouts(n, u) : n.part[s[1]] = p}) - Cardinality(ForeignFanins(n, u, p))

(* PredictReplicationCutnetDelta *)
DriverNetDelta(n, u, p) ==   \* slip: the fanins' nets are forgotten
  IF NetIsCut(n, u, NoPart) /\ ~NetIsCut(n, u, p) THEN -1 ELSE 0
NetDelta(n, u, p) ==
  LET f == {w \in Fanins(n, u) : n.part[w] # NoPart}
  IN Cardinality({w \in f : ~NetIsCut(n, w, NoPart) /\ n.part[w] # p})
     - (IF NetIsCut(n, u, NoPart) /\ ~NetIsCut(n, u, p) THEN 1 ELSE 0)

Replications(n) ==
  {[key |-> <<-EdgeGain(n, c[1], c[2]), NetDelta(n, c[1], c[2]), c[1], c[2]>>,
    driver |-> c[1], part |-> c[2]] :
     c \in {<<Driver(n, s), n.part[s[1]]>> : s \in {s \in CutSlots(n) : Driver(n, s) \in n.node}}}

----------------------------------------------------------------------------
(* BuildCluster: the nodes of C are duplicated into the part p, fanins      *)
(* first; the duplicates read each other, and the readers of u in p that of *)
(* u.  Of the orders with the fanins first this is one: another changes no  *)
(* more than the numbers of the duplicates.                                 *)
FaninsFirst(n, C) ==
  LET rank[v \in Vertices(n)] == 1 + Max({0} \cup {rank[u] : u \in Fanins(n, v)})
  IN {e \in C \X C : rank[e[1]] < rank[e[2]] \/ (rank[e[1]] = rank[e[2]] /\ e[1] < e[2])}

DupOf(n, C, v) == n.max + Earlier(v, C, FaninsFirst(n, C))
NewIds(n, C) == n.max .. n.max + Cardinality(C) - 1
ReadsDups(n, C, f) == [i \in DOMAIN f |-> IF f[i] \in C THEN DupOf(n, C, f[i]) ELSE f[i]]

Duplicated(n, C, p) ==
  LET new   == NewIds(n, C)
      of(x) == CHOOSE v \in C : DupOf(n, C, v) = x
  IN [n EXCEPT
       !.max   = @ + Cardinality(C), !.node = @ \cup new,
       !.fanin = [v \in DOMAIN @ \cup new |-> IF v \in new THEN ReadsDups(n, C, @[of(v)]) ELSE @[v]],
       !.truth = [v \in DOMAIN @ \cup new |-> IF v \in new THEN @[of(v)] ELSE @[v]],
       !.part  = [v \in DOMAIN @ \cup new |-> IF v \in new THEN p ELSE @[v]]]

Built(n, C, u, p) == Patched(Duplicated(n, C, p), ReadersIn(n, u, p), u, DupOf(n, C, u))

(* The transaction of it *)
Txn(n, C, u, p) ==
  [patches |-> ReadersIn(n, u, p), old |-> u, new |-> DupOf(n, C, u), dups |-> NewIds(n, C)]

(* RollbackCluster *)
ReadersUndone(n, t) ==   \* slip: the duplicates stay
  Patched(n, t.patches, t.new, t.old)
ClusterUndone(n, t) == Without(Patched(n, t.patches, t.new, t.old), t.dups)

(* The clusters one fanin larger, outside the part p, slot by slot *)
BySlot(S) == {e \in S \X S : Before(e[1], e[2])}
Expansions(n, C, p) ==
  LET near == {s \in Slots(n) : s[1] \in C /\ Driver(n, s) \in n.node \ C /\ n.part[Driver(n, s)] # p}
      l == Listed(near, BySlot(near))
  IN [i \in DOMAIN l |-> C \cup {Driver(n, l[i])}]

(* Those of t that are not there already *)
AppendNew(s, t) ==
  LET new == {i \in DOMAIN t : t[i] \notin ToSet(s) /\ \A j \in 1 .. i - 1 : t[j] # t[i]}
      l == Listed(new, ById(new))
  IN s \o [k \in DOMAIN l |-> t[l[k]]]

(* ClusterLess *)
ClusterKey(c) == <<c.edges, Cardinality(c.nodes), c.nets>> \o Listed(c.nodes, ById(c.nodes))
NoCluster == [nodes |-> {}, edges |-> 0, nets |-> 0]

(* BetterResult *)
ResultKey(r) ==
  <<CutEdges(r.net), CutNets(r.net), HopNum(r.net), Cardinality(r.net.node), r.tid>>
=============================================================================
