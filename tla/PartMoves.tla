------------------------------- MODULE PartMoves -------------------------------
(****************************************************************************)
(* The changes csr and csr2 try on a partitioned network, and the balance   *)
(* repair of cpr: csr2.cpp started as a copy of csr.cpp and has the same    *)
(* helpers.  n is a network of PartNet, sz the sizes of its parts.          *)
(****************************************************************************)
EXTENDS PartNet

MaxAllowed(sz, pct) ==
  LET total == MapThenSumSet(LAMBDA p : sz[p], DOMAIN sz)
      avg   == total \div Cardinality(DOMAIN sz)
  IN IF total = 0 THEN 0 ELSE avg + Max({(avg * pct + 99) \div 100, 1})

(* compute_balance_overflow *)
Excess(sz, most) == MapThenSumSet(LAMBDA p : Max({0, sz[p] - most}), DOMAIN sz)

(* The number of parts and the balance, in csr2 and cpr: parts and pct of a *)
(* configuration are what the partition database holds, -1 if it does not   *)
(* know, balance is the option -B.                                          *)
Parts(n, c) == IF c.parts > 0 THEN c.parts
               ELSE 1 + Max({0} \cup ({n.part[v] : v \in Vertices(n)} \ {NoPart}))
BalancePct(c) == IF c.balance >= 0 THEN c.balance ELSE IF c.pct >= 0 THEN c.pct ELSE 2

Moved(n, v, p) == [n EXCEPT !.part[v] = p]

(* node_incident_cross *)
FaninCross(n, v, p) ==   \* slip: the fanouts are not looked at
  Cardinality({i \in DOMAIN n.fanin[v] : Foreign(n.part[n.fanin[v][i]], p)})
IncidentCross(n, v, p) ==
  Cardinality({i \in DOMAIN n.fanin[v] : Foreign(n.part[n.fanin[v][i]], p)})
  + Cardinality({s \in Slots(n) : Driver(n, s) = v /\ Foreign(n.part[s[1]], p)})

(* best_relocate_target *)
NeighbourParts(n, v) == {n.part[u] : u \in Fanins(n, v) \cup Fanouts(n, v)} \ {NoPart, n.part[v]}
BestTargets(n, v) ==
  {p \in NeighbourParts(n, v) :
     /\ IncidentCross(n, v, p) < IncidentCross(n, v, n.part[v])
     /\ \A q \in NeighbourParts(n, v) : IncidentCross(n, v, p) <= IncidentCross(n, v, q)}

Moves(n) ==
  UNION { {[key |-> IncidentCross(n, v, p) - IncidentCross(n, v, n.part[v]), node |-> v] :
             p \in BestTargets(n, v)} : v \in {v \in n.node : n.part[v] # NoPart} }

(* collect_swap_candidates *)
Pairs(n) ==
  {[key |-> p[1] * n.max + p[2], a |-> p[1], b |-> p[2]] :
     p \in {p \in n.node \X n.node :
              /\ p[1] < p[2] /\ Crosses(n, p[1], p[2])
              /\ p[1] \in Fanins(n, p[2]) \/ p[2] \in Fanins(n, p[1])}}

Swapped(n, a, b) == Moved(Moved(n, a, n.part[b]), b, n.part[a])

(* collect_cut_candidates: crossing fanins, those of the drivers with most  *)
(* crossing fanouts first                                                   *)
CutCandidates(n) ==
  {[key |-> - Cardinality({t \in CutSlots(n) : Driver(n, t) = Driver(n, s)}),
    node |-> s[1], slot |-> s[2]] : s \in CutSlots(n)}

----------------------------------------------------------------------------
(* Logic levels, and the longest path: a divisor below the required level   *)
(* does not lengthen it.                                                    *)
Depth(n) ==
  LET level[v \in Vertices(n)] == 1 + Max({-1} \cup {level[u] : u \in Fanins(n, v)})
  IN Max({0} \cup {level[v] : v \in Vertices(n)})

(* Abc_MfsComputeDivisors: what v depends on, and the nodes all of whose     *)
(* fanins are divisors; not the fanins of v.                                *)
Divisors(n, v) ==
  LET divisor[d \in Vertices(n)] ==
        /\ d \notin Fanins(n, v) \cup {v}
        /\ \/ d \in Cone(n, v)
           \/ Fanins(n, d) # {} /\ \A u \in Fanins(n, d) : divisor[u]
  IN {d \in Vertices(n) : divisor[d] /\ n.part[d] = n.part[v]}

(* The assignments at which some output depends on the value of v *)
CareOfFirst(n, v) ==   \* slip: the first output only
  {a \in SUBSET n.pi : LET f == (SUBSET DOMAIN n.fanin[v]) \ n.truth[v]
                       IN (a \in Outputs(n)[1]) # (a \in Outputs([n EXCEPT !.truth[v] = f])[1])}
Care(n, v) ==
  LET now == Outputs(n)
      not == Outputs([n EXCEPT !.truth[v] = (SUBSET DOMAIN n.fanin[v]) \ @])
  IN {a \in SUBSET n.pi : \E o \in DOMAIN n.po : (a \in now[o]) # (a \in not[o])}

(* The local functions over the fanins f that may replace v: interpolants,  *)
(* of which the least and the greatest are taken.                           *)
Interpolants(n, v, f) ==
  LET seen(at) == {i \in DOMAIN f : f[i] \in at}
      matter == {TrueAt(n, a) : a \in Care(n, v)}
      on  == {seen(at) : at \in {at \in matter : v \in at}}
      off == {seen(at) : at \in {at \in matter : v \notin at}}
  IN IF on \cap off = {} THEN {on, (SUBSET DOMAIN f) \ off} ELSE {}

(* Abc_NtkMfsUpdateNetwork: a new node takes the fanouts and the part of v. *)
Resubbed(n, v, f, t) ==
  LET m == Patched(Extended(n, f, t, n.part[v]), n.node, v, n.max)
      k == [m EXCEPT !.po = [o \in DOMAIN @ |-> IF @[o] = v THEN n.max ELSE @[o]]]
  IN Deleted(k, v)

(* csr_predicted_arrival, over the arrivals a of the beginning of the round: *)
(* a node made since has none yet and counts as 0.                          *)
Predicted(n, a, v, f) ==
  HopsOver(n, [u \in ToSet(f) |-> IF u \in DOMAIN a THEN a[u] ELSE 0], f, n.part[v])

(* try_partition_resub: a slot goes, with up to two divisors in its place *)
DivisorSets(n, v) == UNION {kSubset(k, Divisors(n, v)) : k \in 0 .. (IF Len(n.fanin[v]) <= 5 THEN 2 ELSE 1)}

----------------------------------------------------------------------------
(* duplicate_node_csr: the readers of u in the part p read a duplicate there. *)
ReadersIn(n, u, p) == {w \in Fanouts(n, u) : n.part[w] = p}

(* enforce_balance, with no arrivals to prefer a node by *)
AtLimit(size, most) == size >= most   \* slip: a full part counts as over the limit
IsOver(size, most) == size > most
Over(sz, most) == {p \in DOMAIN sz : IsOver(sz[p], most)}
Under(sz) == Min({p \in DOMAIN sz : \A q \in DOMAIN sz : sz[p] <= sz[q]})
NodesOf(n, p) == {v \in n.node : n.part[v] = p}
Touches(n, v, p) == \E u \in Fanins(n, v) \cup Fanouts(n, v) : n.part[u] = p

Movable(n, sz, most) ==
  IF Over(sz, most) = {} \/ sz[Under(sz)] >= most THEN {}
  ELSE LET full == NodesOf(n, Min(Over(sz, most)))
           near == {v \in full : Touches(n, v, Under(sz))}
       IN IF near # {} THEN near ELSE full

SizesMoved(sz, p, q) == [sz EXCEPT ![p] = @ - 1, ![q] = @ + 1]
================================================================================
