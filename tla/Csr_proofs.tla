------------------------------- MODULE Csr_proofs -------------------------------
(****************************************************************************)
(* What holds of Csr for all networks without cycles and all options: the   *)
(* limits hold, relocation, swap and replication raise no hops, and an      *)
(* accepted candidate lowers the cut-edges.  (That every output keeps its   *)
(* function is left to TLC.)                                                *)
(*                                                                          *)
(* The sweep between rounds rewrites nodes one at a time: what a rewritten  *)
(* node reads is read by the node, or by the fanin it takes the place of.   *)
(****************************************************************************)
EXTENDS Csr, NetTheorems

----------------------------------------------------------------------------
(* A body over the vertices V: it reads only those. *)
IsBody(g, V) == g.fanin \in Seq(V) /\ g.truth \in SUBSET SUBSET DOMAIN g.fanin

LEMMA CompactIs ==
  ASSUME NEW V, NEW g, IsBody(g, V)
  PROVE  IsBody(Compact(g), V)
<1> DEFINE used == Support(g)
           rep(i) == Min({j \in used : g.fanin[j] = g.fanin[i]})
           kept == {rep(i) : i \in used}
           rank(i) == Cardinality({j \in kept : j <= rep(i)})
           order == Listed(kept, ById(kept))
           f == [k \in DOMAIN order |-> g.fanin[order[k]]]
           t == {T \in SUBSET DOMAIN order : {i \in used : rank(i) \in T} \in g.truth}
<1>1. g.fanin \in Seq(V) /\ g.truth \in SUBSET SUBSET DOMAIN g.fanin
  BY DEF IsBody
<1>2. DOMAIN g.fanin = 1 .. Len(g.fanin) /\ Len(g.fanin) \in Nat /\ IsFiniteSet(DOMAIN g.fanin)
  BY <1>1, SlotsAre
<1>3. used \subseteq DOMAIN g.fanin
  BY DEF Support
<1>4. Compact(g) = IF used = DOMAIN g.fanin THEN g ELSE [fanin |-> f, truth |-> t]
  BY DEF Compact
<1> HIDE DEF used
<1>5. kept \subseteq used
  <2> SUFFICES ASSUME NEW i \in used
               PROVE  rep(i) \in used
    OBVIOUS
  <2> DEFINE S == {j \in used : g.fanin[j] = g.fanin[i]}
  <2>1. S \in SUBSET Nat /\ S # {} /\ S \subseteq used
    BY <1>2, <1>3
  <2> HIDE DEF S
  <2>2. Min(S) \in S
    BY <2>1, LeastIn
  <2> QED
    BY <2>1, <2>2 DEF S
<1> HIDE DEF kept
<1>6. IsFiniteSet(kept) /\ kept \in SUBSET Nat
  <2>1. kept \subseteq DOMAIN g.fanin
    BY <1>3, <1>5
  <2>2. IsFiniteSet(kept)
    BY <1>2, <2>1, FS_Subset
  <2> QED
    BY <1>2, <2>1, <2>2
<1>7. order \in Seq(kept)
  BY <1>6, ByIdOrders, ListedIs
<1> HIDE DEF order
<1>8. DOMAIN order = 1 .. Len(order) /\ Len(order) \in Nat /\ \A k \in DOMAIN order : order[k] \in DOMAIN g.fanin
  BY <1>3, <1>5, <1>7
<1>9. f \in Seq(V)
  <2>1. \A k \in DOMAIN order : g.fanin[order[k]] \in V
    BY <1>1, <1>8
  <2>2. f \in [1 .. Len(order) -> V]
    BY <1>8, <2>1
  <2> HIDE DEF f
  <2> QED
    BY <1>8, <2>2
<1>10. DOMAIN f = DOMAIN order /\ t \in SUBSET SUBSET DOMAIN order
  OBVIOUS
<1> HIDE DEF f, t
<1>11. CASE used = DOMAIN g.fanin
  BY <1>4, <1>11
<1>12. CASE used # DOMAIN g.fanin
  <2>1. Compact(g).fanin = f /\ Compact(g).truth = t
    BY <1>4, <1>12
  <2> QED
    BY <1>9, <1>10, <2>1 DEF IsBody
<1> QED
  BY <1>11, <1>12

LEMMA MinimumBaseIs ==
  ASSUME NEW V, NEW g, IsBody(g, V)
  PROVE  IsBody(MinimumBase(g), V)
<1>1. IsBody(Compact(g), V)
  BY CompactIs
<1> QED
  BY <1>1, CompactIs DEF MinimumBase

LEMMA BodyIs ==
  ASSUME NEW n, IsNetwork(n), NEW v \in n.node
  PROVE  IsBody(Body(n, v), Fanins(n, v))
<1>1. n.fanin[v] \in Seq(Vertices(n)) /\ n.truth[v] \in SUBSET SUBSET DOMAIN n.fanin[v]
  BY NetworkIs
<1>2. \A i \in DOMAIN n.fanin[v] : n.fanin[v][i] \in Fanins(n, v)
  BY DEF Fanins, ToSet
<1>3. n.fanin[v] \in Seq(Fanins(n, v))
  BY <1>1, <1>2, SeqIn
<1> QED
  BY <1>1, <1>3 DEF IsBody, Body

----------------------------------------------------------------------------
(* m is n with other bodies: every node reads what is below it in n. *)
IsRebuilt(m, n) ==
  /\ Shaped(m) /\ m.max = n.max /\ m.pi = n.pi /\ m.node = n.node /\ m.part = n.part
  /\ \A v \in n.node : /\ m.fanin[v] \in Seq({u \in Vertices(n) : Ranks(n)[u] < Ranks(n)[v]})
                       /\ m.truth[v] \in SUBSET SUBSET DOMAIN m.fanin[v]
  /\ m.po \in Seq(Vertices(n))

LEMMA RebuiltWellFormed ==
  ASSUME NEW n, WellFormed(n), NEW m, IsRebuilt(m, n)
  PROVE  WellFormed(m) /\ m.node = n.node /\ Vertices(m) = Vertices(n)
<1>1. /\ n.max \in Nat /\ n.pi \cap n.node = {}
      /\ \A v \in Vertices(n) : v \in 0 .. n.max - 1
      /\ \A v \in Vertices(n) : n.part[v] \in Nat \cup {NoPart}
  BY NetworkIs DEF WellFormed
<1>2. /\ Shaped(m) /\ m.max = n.max /\ m.pi = n.pi /\ m.node = n.node /\ m.part = n.part
      /\ m.po \in Seq(Vertices(n))
  BY DEF IsRebuilt
<1>3. Vertices(m) = Vertices(n)
  BY <1>2 DEF Vertices
<1>4. ASSUME NEW v \in n.node
      PROVE  /\ m.fanin[v] \in Seq(Vertices(n)) /\ m.truth[v] \in SUBSET SUBSET DOMAIN m.fanin[v]
             /\ \A i \in DOMAIN m.fanin[v] : Ranks(n)[m.fanin[v][i]] < Ranks(n)[v]
  <2> DEFINE L == {u \in Vertices(n) : Ranks(n)[u] < Ranks(n)[v]}
  <2>1. m.fanin[v] \in Seq(L) /\ m.truth[v] \in SUBSET SUBSET DOMAIN m.fanin[v]
    BY DEF IsRebuilt
  <2>2. L \subseteq Vertices(n) /\ \A u \in L : Ranks(n)[u] < Ranks(n)[v]
    OBVIOUS
  <2> HIDE DEF L
  <2>3. \A i \in DOMAIN m.fanin[v] : m.fanin[v][i] \in L
    BY <2>1
  <2>4. m.fanin[v] \in Seq(Vertices(n))
    BY <2>1, <2>2, SeqGrows
  <2> QED
    BY <2>1, <2>2, <2>3, <2>4
<1>5. IsNetwork(m)
  BY <1>1, <1>2, <1>3, <1>4, NetworkFrom
<1>6. Acyclic(m)
  <2>1. \A v \in m.node : Ranks(n)[v] \in Nat
    BY <1>2, RanksAre DEF Vertices
  <2>2. \A v \in m.node : \A u \in Fanins(m, v) : Ranks(n)[u] < Ranks(n)[v]
    BY <1>2, <1>4 DEF Fanins, ToSet
  <2> QED
    BY <2>1, <2>2, AcyclicRanked
<1> QED
  BY <1>2, <1>3, <1>5, <1>6 DEF WellFormed

LEMMA BelowIs ==
  ASSUME NEW n, WellFormed(n), NEW v \in n.node, NEW g, IsBody(g, Fanins(n, v))
  PROVE  /\ g.fanin \in Seq({u \in Vertices(n) : Ranks(n)[u] < Ranks(n)[v]})
         /\ g.truth \in SUBSET SUBSET DOMAIN g.fanin
<1> DEFINE L == {u \in Vertices(n) : Ranks(n)[u] < Ranks(n)[v]}
<1>1. Fanins(n, v) \subseteq L
  <2>1. Fanins(n, v) \subseteq Vertices(n) /\ v \in Vertices(n)
    BY FaninsTyped DEF WellFormed, Vertices
  <2> QED
    BY <2>1, RanksAre
<1> HIDE DEF L
<1>2. g.fanin \in Seq(L) /\ g.truth \in SUBSET SUBSET DOMAIN g.fanin
  BY <1>1, SeqGrows DEF IsBody
<1> QED
  BY <1>2 DEF L

LEMMA BodyBelow ==
  ASSUME NEW n, WellFormed(n), NEW v \in n.node
  PROVE  /\ n.fanin[v] \in Seq({u \in Vertices(n) : Ranks(n)[u] < Ranks(n)[v]})
         /\ n.truth[v] \in SUBSET SUBSET DOMAIN n.fanin[v]
<1> DEFINE g == Body(n, v)
<1>1. IsBody(g, Fanins(n, v))
  BY BodyIs DEF WellFormed
<1>2. g.fanin = n.fanin[v] /\ g.truth = n.truth[v]
  BY DEF Body
<1> HIDE DEF g
<1>3. /\ g.fanin \in Seq({u \in Vertices(n) : Ranks(n)[u] < Ranks(n)[v]})
      /\ g.truth \in SUBSET SUBSET DOMAIN g.fanin
  BY <1>1, BelowIs
<1> QED
  BY <1>2, <1>3

LEMMA AllMinimumBaseWellFormed ==
  ASSUME NEW n, WellFormed(n), NEW m, m = AllMinimumBase(n)
  PROVE  WellFormed(m) /\ m.node = n.node
<1>0. IsNetwork(n)
  BY DEF WellFormed
<1> DEFINE F == [v \in n.node |-> MinimumBase(Body(n, v)).fanin]
           T == [v \in n.node |-> MinimumBase(Body(n, v)).truth]
<1>1. m = [n EXCEPT !.fanin = F, !.truth = T]
  BY DEF AllMinimumBase
<1>2. DOMAIN n = Fields /\ n.part = [v \in Vertices(n) |-> n.part[v]]
  BY <1>0, NetworkFields, NetworkShaped DEF Shaped
<1>3. /\ DOMAIN F = n.node /\ DOMAIN T = n.node
      /\ \A v \in n.node : F[v] = MinimumBase(Body(n, v)).fanin /\ T[v] = MinimumBase(Body(n, v)).truth
      /\ F = [v \in n.node |-> F[v]] /\ T = [v \in n.node |-> T[v]]
  OBVIOUS
<1> HIDE DEF F, T
<1>4. m = [x \in Fields |-> m[x]]
  BY <1>1, <1>2
<1>5. /\ m.max = n.max /\ m.pi = n.pi /\ m.node = n.node /\ m.po = n.po /\ m.part = n.part
      /\ m.fanin = F /\ m.truth = T
  BY <1>1, <1>2 DEF Fields
<1>6. Vertices(m) = Vertices(n)
  BY <1>5 DEF Vertices
<1>7. Shaped(m)
  BY <1>2, <1>3, <1>4, <1>5, <1>6 DEF Shaped
<1>8. ASSUME NEW v \in n.node
      PROVE  /\ m.fanin[v] \in Seq({u \in Vertices(n) : Ranks(n)[u] < Ranks(n)[v]})
             /\ m.truth[v] \in SUBSET SUBSET DOMAIN m.fanin[v]
  <2>1. IsBody(MinimumBase(Body(n, v)), Fanins(n, v))
    BY <1>0, BodyIs, MinimumBaseIs
  <2>2. m.fanin[v] = MinimumBase(Body(n, v)).fanin /\ m.truth[v] = MinimumBase(Body(n, v)).truth
    BY <1>3, <1>5
  <2> QED
    BY <2>1, <2>2, BelowIs
<1>9. n.po \in Seq(Vertices(n))
  BY <1>0, NetworkIs
<1>10. IsRebuilt(m, n)
  BY <1>5, <1>7, <1>8, <1>9 DEF IsRebuilt
<1> QED
  BY <1>10, RebuiltWellFormed

----------------------------------------------------------------------------
(* A constant or a single-input node goes into a fanout w, which may then   *)
(* read the fanin of the node.                                              *)
LEMMA SetBodyWellFormed ==
  ASSUME NEW n, WellFormed(n), NEW w \in n.node, NEW g,
         IsBody(g, {u \in Vertices(n) : Ranks(n)[u] < Ranks(n)[w]}), NEW m, m = SetBody(n, w, g)
  PROVE  WellFormed(m) /\ m.node = n.node
<1> DEFINE L(v) == {u \in Vertices(n) : Ranks(n)[u] < Ranks(n)[v]}
<1>0. IsNetwork(n)
  BY DEF WellFormed
<1>1. DOMAIN n = Fields /\ DOMAIN n.fanin = n.node /\ DOMAIN n.truth = n.node
  BY <1>0, NetworkFields
<1>2. m = [n EXCEPT !.fanin[w] = g.fanin, !.truth[w] = g.truth]
  BY DEF SetBody
<1>3. m = [x \in Fields |-> m[x]]
  BY <1>1, <1>2
<1>4. /\ m.max = n.max /\ m.pi = n.pi /\ m.node = n.node /\ m.po = n.po /\ m.part = n.part
      /\ m.fanin = [n.fanin EXCEPT ![w] = g.fanin] /\ m.truth = [n.truth EXCEPT ![w] = g.truth]
  BY <1>1, <1>2 DEF Fields
<1>5. Vertices(m) = Vertices(n)
  BY <1>4 DEF Vertices
<1>6. m.part = [v \in Vertices(m) |-> m.part[v]]
  <2>1. n.part = [v \in Vertices(n) |-> n.part[v]]
    BY <1>0, NetworkShaped DEF Shaped
  <2>2. m.part = n.part
    BY <1>4
  <2> QED
    BY <1>5, <2>1, <2>2
<1>7. m.fanin = [v \in m.node |-> m.fanin[v]] /\ m.truth = [v \in m.node |-> m.truth[v]]
  BY <1>1, <1>4
<1>8. Shaped(m)
  BY <1>3, <1>6, <1>7 DEF Shaped
<1>9. ASSUME NEW v \in n.node
      PROVE  m.fanin[v] \in Seq(L(v)) /\ m.truth[v] \in SUBSET SUBSET DOMAIN m.fanin[v]
  <2>1. CASE v = w
    <3>1. m.fanin[v] = g.fanin /\ m.truth[v] = g.truth
      BY <1>1, <1>4, <2>1
    <3>2. g.fanin \in Seq(L(v)) /\ g.truth \in SUBSET SUBSET DOMAIN g.fanin
      BY <2>1 DEF IsBody
    <3> QED
      BY <3>1, <3>2
  <2>2. CASE v # w
    <3>1. m.fanin[v] = n.fanin[v] /\ m.truth[v] = n.truth[v]
      BY <1>1, <1>4, <2>2
    <3>2. n.fanin[v] \in Seq(L(v)) /\ n.truth[v] \in SUBSET SUBSET DOMAIN n.fanin[v]
      BY BodyBelow
    <3> QED
      BY <3>1, <3>2
  <2> QED
    BY <2>1, <2>2
<1>10. n.po \in Seq(Vertices(n))
  BY <1>0, NetworkIs
<1>11. IsRebuilt(m, n)
  BY <1>4, <1>8, <1>9, <1>10 DEF IsRebuilt
<1> QED
  BY <1>11, RebuiltWellFormed

LEMMA FixedIs ==
  ASSUME NEW V, NEW f \in Seq(V), NEW t, NEW i, NEW zero
  PROVE  IsBody(Fixed([fanin |-> f, truth |-> t], i, zero), V)
<1> DEFINE T == {S \in SUBSET DOMAIN f : (IF zero THEN S \ {i} ELSE S \cup {i}) \in t}
           h == Fixed([fanin |-> f, truth |-> t], i, zero)
<1>1. h.fanin = f /\ h.truth = T
  BY DEF Fixed
<1>2. T \in SUBSET SUBSET DOMAIN f
  OBVIOUS
<1> HIDE DEF T, h
<1> QED
  BY <1>1, <1>2 DEF IsBody, h

LEMMA BypassedIs ==
  ASSUME NEW V, NEW f \in Seq(V), NEW t \in SUBSET SUBSET DOMAIN f, NEW i \in DOMAIN f, NEW u \in V, NEW inv
  PROVE  IsBody(Bypassed([fanin |-> f, truth |-> t], i, u, inv), V)
<1> DEFINE h == Bypassed([fanin |-> f, truth |-> t], i, u, inv)
           F == [f EXCEPT ![i] = u]
           T == IF inv THEN {Flip(S, i) : S \in t} ELSE t
<1>1. h.fanin = F /\ h.truth = T
  BY DEF Bypassed, ReplaceAt
<1>2. F \in Seq(V) /\ DOMAIN F = DOMAIN f
  OBVIOUS
<1>3. T \in SUBSET SUBSET DOMAIN f
  BY DEF Flip
<1> HIDE DEF h, F, T
<1> QED
  BY <1>1, <1>2, <1>3 DEF IsBody, h

LEMMA SweptIs ==
  ASSUME NEW n, WellFormed(n), NEW v \in Sweepable(n), NEW w \in Fanouts(n, v), NEW m, m = SweptInto(n, v, w)
  PROVE  WellFormed(m) /\ m.node \subseteq n.node
<1> DEFINE L == {u \in Vertices(n) : Ranks(n)[u] < Ranks(n)[w]}
           i == Min({j \in DOMAIN n.fanin[w] : n.fanin[w][j] = v})
           h == IF n.fanin[v] = <<>> THEN Fixed(Body(n, w), i, IsConst0(n, v))
                ELSE Bypassed(Body(n, w), i, n.fanin[v][1], IsInv(n, v))
           k == SetBody(n, w, MinimumBase(h))
<1>0. IsNetwork(n)
  BY DEF WellFormed
<1>1. v \in n.node /\ w \in n.node /\ v \in Fanins(n, w) /\ Len(n.fanin[v]) < 2
  BY DEF Sweepable, Fanouts
<1>2. m = IF Fanouts(k, v) = {} /\ ~Drives(k, v) THEN Deleted(k, v) ELSE k
  BY DEF SweptInto, Body
<1>3. /\ n.fanin[w] \in Seq(Vertices(n)) /\ n.truth[w] \in SUBSET SUBSET DOMAIN n.fanin[w]
      /\ n.fanin[v] \in Seq(Vertices(n))
  BY <1>0, <1>1, NetworkIs
<1>4. Fanins(n, w) \subseteq L /\ Fanins(n, v) \subseteq L
  <2>1. Fanins(n, w) \subseteq Vertices(n) /\ Fanins(n, v) \subseteq Vertices(n)
        /\ v \in Vertices(n) /\ w \in Vertices(n)
    BY <1>0, <1>1, FaninsTyped DEF Vertices
  <2>2. \A x \in Vertices(n) : Ranks(n)[x] \in Nat /\ \A u \in Fanins(n, x) : Ranks(n)[u] < Ranks(n)[x]
    BY RanksAre
  <2>3. \A u \in Fanins(n, v) : Ranks(n)[u] < Ranks(n)[w]
    <3> SUFFICES ASSUME NEW u \in Fanins(n, v)
                 PROVE  Ranks(n)[u] < Ranks(n)[w]
      OBVIOUS
    <3>1. Ranks(n)[u] < Ranks(n)[v] /\ Ranks(n)[v] < Ranks(n)[w]
      BY <1>1, <2>1, <2>2
    <3>2. Ranks(n)[u] \in Nat /\ Ranks(n)[v] \in Nat /\ Ranks(n)[w] \in Nat
      BY <2>1, <2>2
    <3> QED
      BY <3>1, <3>2
  <2> QED
    BY <2>1, <2>2, <2>3
<1>5. i \in DOMAIN n.fanin[w]
  <2> DEFINE S == {j \in DOMAIN n.fanin[w] : n.fanin[w][j] = v}
  <2>1. S # {}
    BY <1>1 DEF Fanins, ToSet
  <2>2. S \in SUBSET Nat
    BY <1>3
  <2>3. S \subseteq DOMAIN n.fanin[w]
    OBVIOUS
  <2> HIDE DEF S
  <2>4. Min(S) \in S
    BY <2>1, <2>2, LeastIn
  <2> QED
    BY <2>3, <2>4 DEF S
<1> HIDE DEF i, L
<1>6. n.fanin[w] \in Seq(L)
  <2>1. \A j \in DOMAIN n.fanin[w] : n.fanin[w][j] \in L
    BY <1>1, <1>4 DEF Fanins, ToSet
  <2> QED
    BY <1>3, <2>1, SeqIn
<1>7. IsBody(h, L)
  <2>1. CASE n.fanin[v] = <<>>
    BY <1>6, <2>1, FixedIs DEF Body
  <2>2. CASE n.fanin[v] # <<>>
    <3>1. 1 \in DOMAIN n.fanin[v]
      BY <1>3, <2>2
    <3>2. n.fanin[v][1] \in L
      BY <1>1, <1>4, <3>1 DEF Fanins, ToSet
    <3>3. IsBody(Bypassed(Body(n, w), i, n.fanin[v][1], IsInv(n, v)), L)
      BY <1>3, <1>5, <1>6, <3>2, BypassedIs DEF Body
    <3> QED
      BY <2>2, <3>3
  <2> QED
    BY <2>1, <2>2
<1> HIDE DEF h
<1>8. IsBody(MinimumBase(h), L)
  BY <1>7, MinimumBaseIs
<1>9. WellFormed(k) /\ k.node = n.node
  BY <1>1, <1>8, SetBodyWellFormed DEF L
<1> HIDE DEF k
<1>10. CASE Fanouts(k, v) = {} /\ ~Drives(k, v)
  <2>1. v \in k.node
    BY <1>1, <1>9
  <2>2. WellFormed(Deleted(k, v)) /\ \E D \in SUBSET k.node : v \in D /\ Deleted(k, v) = Without(k, D)
    BY <1>9, <1>10, <2>1, DeletedWellFormed
  <2>3. PICK D : Deleted(k, v) = Without(k, D)
    BY <2>2
  <2>4. Deleted(k, v).node = k.node \ D
    BY <1>9, <2>3, WithoutIs DEF WellFormed, IsWithout
  <2> QED
    BY <1>2, <1>9, <1>10, <2>2, <2>4
<1>11. CASE ~(Fanouts(k, v) = {} /\ ~Drives(k, v))
  BY <1>2, <1>9, <1>11
<1> QED
  BY <1>10, <1>11

(* An output takes the driver of its node. *)
LEMMA OutputSweptIs ==
  ASSUME NEW n, WellFormed(n), NEW o \in DOMAIN n.po, NEW m, m = OutputSwept(n, o)
  PROVE  WellFormed(m) /\ m.node = n.node /\ DOMAIN m.po = DOMAIN n.po
<1> DEFINE v == n.po[o]
           u == n.fanin[v][1]
           t == IF IsInv(n, v) THEN (SUBSET DOMAIN n.fanin[u]) \ n.truth[u] ELSE n.truth[u]
<1>0. IsNetwork(n)
  BY DEF WellFormed
<1> SUFFICES ASSUME v \in n.node, Len(n.fanin[v]) = 1, u \in n.node, m = [n EXCEPT !.truth[u] = t, !.po[o] = u]
             PROVE  WellFormed(m) /\ m.node = n.node /\ DOMAIN m.po = DOMAIN n.po
  BY DEF OutputSwept
<1>1. DOMAIN n = Fields /\ DOMAIN n.fanin = n.node /\ DOMAIN n.truth = n.node
  BY <1>0, NetworkFields
<1>2. /\ n.po \in Seq(Vertices(n)) /\ u \in Vertices(n) /\ t \in SUBSET SUBSET DOMAIN n.fanin[u]
      /\ \A x \in n.node : n.truth[x] \in SUBSET SUBSET DOMAIN n.fanin[x]
  <2>1. n.truth[u] \in SUBSET SUBSET DOMAIN n.fanin[u]
    BY <1>0, NetworkIs
  <2> QED
    BY <1>0, <2>1, NetworkIs DEF Vertices
<1> HIDE DEF u, t
<1>3. m = [x \in Fields |-> m[x]]
  BY <1>1
<1>4. /\ m.max = n.max /\ m.pi = n.pi /\ m.node = n.node /\ m.part = n.part /\ m.fanin = n.fanin
      /\ m.po = [n.po EXCEPT ![o] = u] /\ m.truth = [n.truth EXCEPT ![u] = t]
  BY <1>1 DEF Fields
<1>5. Vertices(m) = Vertices(n)
  BY <1>4 DEF Vertices
<1>6. m.part = [x \in Vertices(m) |-> m.part[x]] /\ m.fanin = [x \in m.node |-> m.fanin[x]]
  <2>1. n.part = [x \in Vertices(n) |-> n.part[x]] /\ n.fanin = [x \in n.node |-> n.fanin[x]]
    BY <1>0, NetworkShaped DEF Shaped
  <2>2. m.part = n.part /\ m.fanin = n.fanin /\ m.node = n.node
    BY <1>4
  <2> QED
    BY <1>5, <2>1, <2>2
<1>7. m.truth = [x \in m.node |-> m.truth[x]]
  BY <1>1, <1>4
<1>8. Shaped(m)
  BY <1>3, <1>6, <1>7 DEF Shaped
<1>9. ASSUME NEW x \in n.node
      PROVE  /\ m.fanin[x] \in Seq({y \in Vertices(n) : Ranks(n)[y] < Ranks(n)[x]})
             /\ m.truth[x] \in SUBSET SUBSET DOMAIN m.fanin[x]
  <2>3. n.fanin[x] \in Seq({y \in Vertices(n) : Ranks(n)[y] < Ranks(n)[x]})
    BY ZenonT(30), BodyBelow
  <2>4. m.truth[x] \in SUBSET SUBSET DOMAIN n.fanin[x]
    <3>1. m.truth[x] = (IF x = u THEN t ELSE n.truth[x])
      BY <1>1, <1>4
    <3>2. t \in SUBSET SUBSET DOMAIN n.fanin[u] /\ n.truth[x] \in SUBSET SUBSET DOMAIN n.fanin[x]
      BY <1>2
    <3> QED
      BY <3>1, <3>2
  <2> QED
    BY <1>4, <2>3, <2>4
<1>10. m.po \in Seq(Vertices(n)) /\ DOMAIN m.po = DOMAIN n.po
  BY <1>2, <1>4
<1>11. IsRebuilt(m, n)
  BY <1>4, <1>8, <1>9, <1>10 DEF IsRebuilt
<1> QED
  BY <1>10, <1>11, RebuiltWellFormed

OutputsBody(n, s, o) == IF o = 0 THEN n ELSE OutputSwept(s[o - 1], o)
IsOutputs(n, k, s) == s = [o \in 0 .. k |-> OutputsBody(n, s, o)]

LEMMA OutputsExist ==
  ASSUME NEW n
  PROVE  \A k \in Nat : \E s : IsOutputs(n, k, s)
<1> DEFINE I == {k \in Nat : \E s : IsOutputs(n, k, s)}
<1>1. 0 \in I
  <2> DEFINE s == [o \in 0 .. 0 |-> n]
  <2>1. s = [o \in 0 .. 0 |-> OutputsBody(n, s, o)]
    BY DEF OutputsBody
  <2> QED
    BY <2>1 DEF IsOutputs
<1>2. ASSUME NEW k \in Nat, k \in I
      PROVE  k + 1 \in I
  <2>1. PICK s : s = [o \in 0 .. k |-> OutputsBody(n, s, o)]
    BY <1>2 DEF IsOutputs
  <2> DEFINE r == [o \in 0 .. k + 1 |-> IF o <= k THEN s[o] ELSE OutputSwept(s[k], o)]
  <2>2. ASSUME NEW o \in 0 .. k + 1
        PROVE  r[o] = OutputsBody(n, r, o)
    <3>1. CASE o = 0
      BY <2>1, <3>1 DEF OutputsBody
    <3>2. CASE o # 0 /\ o <= k
      <4>1. o - 1 \in 0 .. k + 1 /\ o - 1 <= k /\ o \in 0 .. k
        BY <3>2
      <4>2. r[o] = s[o] /\ r[o - 1] = s[o - 1]
        BY <3>2, <4>1
      <4>3. s[o] = OutputsBody(n, s, o)
        BY <2>1, <4>1
      <4> QED
        BY <3>2, <4>2, <4>3 DEF OutputsBody
    <3>3. CASE o = k + 1
      <4>1. k \in 0 .. k + 1 /\ o - 1 = k /\ o # 0 /\ ~(o <= k) /\ k <= k
        BY <3>3
      <4>2. r[o] = OutputSwept(s[k], o) /\ r[k] = s[k]
        BY <4>1
      <4> HIDE DEF r
      <4> QED
        BY <4>1, <4>2 DEF OutputsBody
    <3> QED
      BY <3>1, <3>2, <3>3
  <2>3. r = [o \in 0 .. k + 1 |-> r[o]]
    OBVIOUS
  <2> HIDE DEF r
  <2>4. r = [o \in 0 .. k + 1 |-> OutputsBody(n, r, o)]
    BY <2>2, <2>3
  <2> QED
    BY <2>4 DEF IsOutputs
<1> HIDE DEF I
<1>3. \A k \in Nat : k \in I
  BY <1>1, <1>2, AllNaturals
<1> QED
  BY <1>3 DEF I

OutputStages(n) == CHOOSE s : s = [o \in 0 .. Len(n.po) |-> OutputsBody(n, s, o)]

LEMMA OutputsSweptIs ==
  ASSUME NEW n, WellFormed(n), NEW m, m = OutputsSwept(n)
  PROVE  WellFormed(m) /\ m.node = n.node
<1> DEFINE s == OutputStages(n)
           len == Len(n.po)
           I == {k \in Nat : k <= len => WellFormed(s[k]) /\ s[k].node = n.node /\ DOMAIN s[k].po = DOMAIN n.po}
<1>1. m = s[len]
  BY DEF OutputsSwept, OutputStages, OutputsBody
<1>2. len \in Nat /\ DOMAIN n.po = 1 .. len
  BY NetworkIs DEF WellFormed
<1>3. s = [o \in 0 .. len |-> OutputsBody(n, s, o)]
  BY <1>2, OutputsExist DEF IsOutputs, OutputStages
<1> HIDE DEF s, len
<1>4. 0 \in I
  BY <1>2, <1>3 DEF OutputsBody
<1>5. ASSUME NEW k \in Nat, k \in I
      PROVE  k + 1 \in I
  <2> SUFFICES ASSUME k + 1 <= len
               PROVE  WellFormed(s[k + 1]) /\ s[k + 1].node = n.node /\ DOMAIN s[k + 1].po = DOMAIN n.po
    OBVIOUS
  <2>1. WellFormed(s[k]) /\ s[k].node = n.node /\ DOMAIN s[k].po = DOMAIN n.po
    BY <1>2, <1>5
  <2>2. s[k + 1] = OutputSwept(s[k], k + 1)
    <3>1. k + 1 \in 0 .. len /\ k + 1 # 0 /\ (k + 1) - 1 = k
      BY <1>2
    <3> QED
      BY <1>3, <3>1 DEF OutputsBody
  <2>3. k + 1 \in DOMAIN s[k].po
    BY <1>2, <2>1
  <2> QED
    BY <2>1, <2>2, <2>3, OutputSweptIs
<1> HIDE DEF I
<1>6. len \in I
  BY <1>2, <1>4, <1>5, AllNaturals
<1> QED
  BY <1>1, <1>2, <1>6 DEF I

LEMMA CleanedNodes ==
  ASSUME NEW n, WellFormed(n)
  PROVE  Cleaned(n).node \subseteq n.node
BY WithoutIs DEF Cleaned, WellFormed, IsWithout

----------------------------------------------------------------------------
(* Arrivals: a vertex arrives after each of its fanins, and no later than   *)
(* they make it.                                                            *)
Step(n, u, v) == IF n.part[u] # n.part[v] THEN 1 ELSE 0
Partitioned(n, v) == {u \in Fanins(n, v) : n.part[u] # NoPart}

LEMMA ArrivalLatest ==
  ASSUME NEW n, WellFormed(n), NEW v \in n.node, n.part[v] # NoPart
  PROVE  /\ \A u \in Partitioned(n, v) : Arrival(n)[u] + Step(n, u, v) <= Arrival(n)[v]
         /\ Arrival(n)[v] = 0 \/ \E u \in Partitioned(n, v) : Arrival(n)[v] = Arrival(n)[u] + Step(n, u, v)
<1> DEFINE a == Arrival(n)
           F == Partitioned(n, v)
           f == [u \in F |-> a[u] + Step(n, u, v)]
<1>1. /\ v \in Vertices(n) /\ v \notin n.pi /\ F \subseteq Vertices(n) /\ IsFiniteSet(F) /\ IsNetwork(n)
  <2>1. F \subseteq Vertices(n)
    BY FaninsTyped DEF WellFormed, Partitioned
  <2>2. IsFiniteSet(F)
    BY <2>1, VerticesFinite, FS_Subset DEF WellFormed
  <2>3. v \in Vertices(n) /\ v \notin n.pi
    BY NetworkIs DEF WellFormed, Vertices
  <2> QED
    BY <2>1, <2>2, <2>3 DEF WellFormed
<1>2. \A u \in Vertices(n) : a[u] \in Nat /\ a[u] = ArrivalBody(n, a, u)
  BY ArrivalIs
<1>3. ArrivalBody(n, a, v) = Max({0} \cup HopsTo(n, a, v))
  BY <1>1, ArrivalBodyIs
<1> HIDE DEF a
<1>4. HopsTo(n, a, v) = {f[u] : u \in F}
  BY DEF HopsTo, Partitioned, Step
<1>5. a[v] = LatestIn(F, f)
  BY <1>1, <1>2, <1>3, <1>4 DEF LatestIn
<1>6. \A u \in F : f[u] \in Nat /\ f[u] = a[u] + Step(n, u, v)
  BY <1>1, <1>2 DEF Step
<1> HIDE DEF f, F
<1>7. (\A u \in F : f[u] <= a[v]) /\ (a[v] = 0 \/ \E u \in F : a[v] = f[u])
  BY <1>1, <1>5, <1>6, LatestOf
<1> QED
  BY <1>6, <1>7 DEF a, F

LEMMA HopNumIs ==
  ASSUME NEW n, WellFormed(n)
  PROVE  /\ HopNum(n) \in Nat /\ \A v \in n.node : Arrival(n)[v] <= HopNum(n)
         /\ HopNum(n) = 0 \/ \E v \in n.node : HopNum(n) = Arrival(n)[v]
<1> DEFINE a == Arrival(n)
           M == HopNum(n)
<1>1. IsFiniteSet(n.node) /\ \A v \in n.node : a[v] \in Nat
  BY ArrivalIs, VerticesFinite DEF WellFormed, Vertices
<1>2. M = LatestIn(n.node, a)
  BY DEF HopNum, LatestIn
<1> HIDE DEF M, a
<1>3. M \in Nat /\ (\A v \in n.node : a[v] <= M) /\ (M = 0 \/ \E v \in n.node : M = a[v])
  BY <1>1, <1>2, LatestOf
<1> QED
  BY <1>3 DEF M, a

(* The snapshot that replication takes *)
LEMMA SnapshotIs ==
  ASSUME NEW n, WellFormed(n), NEW a, a = Arrival(n)
  PROVE  /\ IsFiniteSet(DOMAIN a) /\ \A v \in DOMAIN a : a[v] \in Nat
         /\ LatestIn(DOMAIN a, a) \in Nat /\ HopNum(n) <= LatestIn(DOMAIN a, a)
<1>1. DOMAIN a = Vertices(n) /\ \A v \in Vertices(n) : a[v] \in Nat
  BY ArrivalIs
<1>2. IsFiniteSet(Vertices(n)) /\ n.node \subseteq Vertices(n)
  BY VerticesFinite DEF WellFormed, Vertices
<1> DEFINE M == LatestIn(DOMAIN a, a)
           V == DOMAIN a
<1>v. V = Vertices(n) /\ M = LatestIn(V, a)
  BY <1>1
<1> HIDE DEF M, V
<1>3. M \in Nat /\ \A v \in V : a[v] <= M
  BY <1>1, <1>2, <1>v, LatestOf
<1>4. HopNum(n) = 0 \/ \E v \in n.node : HopNum(n) = a[v]
  BY HopNumIs
<1>5. HopNum(n) <= M
  BY <1>2, <1>3, <1>4, <1>v
<1> QED
  BY <1>1, <1>2, <1>3, <1>5 DEF M, V

(* A duplicate arrives at most one crossing later than its node: no later   *)
(* than the readers that take it instead.                                   *)
LEMMA CopyHops ==
  ASSUME NEW n, WellFormed(n), NEW u \in n.node, n.part[u] # NoPart,
         NEW p, p # NoPart, p # n.part[u], NEW r \in n.node, u \in Fanins(n, r), n.part[r] = p,
         NEW m, IsCopy(m, n, u, p), WellFormed(m)
  PROVE  HopNum(m) <= HopNum(n)
<1> DEFINE R == ReadersIn(n, u, p)
           d == n.max
           a == Arrival(n)
           b == Arrival(m)
<1>0. IsNetwork(n) /\ IsNetwork(m) /\ Acyclic(m)
  BY DEF WellFormed
<1>1. /\ m.node = n.node \cup {d} /\ Vertices(m) = Vertices(n) \cup {d} /\ d \notin Vertices(n)
      /\ m.pi = n.pi /\ n.pi \cap n.node = {} /\ n.node \subseteq Vertices(n)
      /\ m.part[d] = p /\ \A v \in Vertices(n) : m.part[v] = n.part[v]
  BY <1>0, NetworkIs DEF IsCopy, Vertices
<1>2. /\ Fanins(m, d) = Fanins(n, u)
      /\ \A v \in n.node \ R : Fanins(m, v) = Fanins(n, v)
      /\ \A v \in R : Fanins(m, v) = (Fanins(n, v) \ {u}) \cup {d}
  <2>1. Fanins(m, d) = Fanins(n, u)
    BY <1>0, CopyFanins
  <2>2. \A v \in n.node \ R : Fanins(m, v) = Fanins(n, v)
    BY <1>0, CopyFanins
  <2>3. \A v \in R : Fanins(m, v) = (Fanins(n, v) \ {u}) \cup {d}
    BY <1>0, CopyFanins
  <2> QED
    BY <2>1, <2>2, <2>3
<1>3. \A v \in R : v \in n.node /\ u \in Fanins(n, v) /\ n.part[v] = p
  BY DEF ReadersIn, Fanouts
<1>4. \A v : Fanins(n, v) \subseteq Vertices(n)
  BY <1>0, FaninsTyped
<1>5. \A v \in Vertices(n) : a[v] \in Nat
  BY ArrivalIs
<1>6. \A v \in Vertices(m) : b[v] \in Nat
  BY ArrivalIs
<1>z. ASSUME NEW v \in Vertices(m), v \in m.pi \/ m.part[v] = NoPart
      PROVE  b[v] = 0
  <2>1. b[v] = ArrivalBody(m, b, v)
    BY ArrivalIs
  <2> HIDE DEF b
  <2> QED
    BY <1>z, <2>1 DEF ArrivalBody
<1>7. ASSUME NEW v \in n.node, n.part[v] # NoPart, NEW w \in Fanins(n, v), n.part[w] # NoPart
      PROVE  a[w] + Step(n, w, v) <= a[v]
  <2>1. w \in Partitioned(n, v)
    BY <1>7 DEF Partitioned
  <2> QED
    BY <1>7, <2>1, ArrivalLatest
<1>8. ASSUME NEW v \in m.node, m.part[v] # NoPart
      PROVE  b[v] = 0 \/ \E w \in Fanins(m, v) : m.part[w] # NoPart /\ b[v] = b[w] + Step(m, w, v)
  <2>1. b[v] = 0 \/ \E w \in Partitioned(m, v) : b[v] = b[w] + Step(m, w, v)
    BY <1>8, ArrivalLatest
  <2> QED
    BY <2>1 DEF Partitioned
<1> DEFINE late(v) == IF v = d THEN a[u] + 1 ELSE a[v]
           S == {v \in Vertices(m) : b[v] <= late(v)}
<1> HIDE DEF a, b, d, R
<1>9. ASSUME NEW v \in Vertices(m), Fanins(m, v) \subseteq S
      PROVE  v \in S
  <2> SUFFICES b[v] <= late(v)
    OBVIOUS
  <2>0. a[u] \in Nat /\ late(v) \in Nat
    BY <1>1, <1>5
  <2>1. CASE v \in m.pi \/ m.part[v] = NoPart
    BY <1>z, <2>0, <2>1
  <2>2. CASE v \in m.node /\ m.part[v] # NoPart
    <3>1. CASE b[v] = 0
      BY <2>0, <3>1
    <3>2. CASE b[v] # 0
      <4>1. PICK w \in Fanins(m, v) : m.part[w] # NoPart /\ b[v] = b[w] + Step(m, w, v)
        BY <1>8, <2>2, <3>2
      <4>2. b[w] <= late(w) /\ w \in Vertices(m) /\ b[w] \in Nat
        BY <1>6, <1>9
      <4>3. CASE v = d
        <5>1. w \in Fanins(n, u) /\ w \in Vertices(n) /\ w # d /\ n.part[w] # NoPart
          BY <1>1, <1>2, <1>4, <4>1, <4>3
        <5>2. a[w] + Step(n, w, u) <= a[u] /\ a[w] \in Nat
          BY <1>5, <1>7, <5>1
        <5>3. Step(n, w, u) \in 0 .. 1 /\ Step(m, w, v) \in 0 .. 1
          BY DEF Step
        <5>4. late(w) = a[w] /\ late(v) = a[u] + 1
          BY <4>3, <5>1
        <5> HIDE DEF late
        <5> QED
          BY <2>0, <4>1, <4>2, <5>2, <5>3, <5>4
      <4>4. CASE v # d /\ w # d
        <5>1. v \in n.node /\ v \in Vertices(n) /\ w \in Vertices(n)
          BY <1>1, <2>2, <4>2, <4>4
        <5>2. w \in Fanins(n, v)
          BY <1>2, <4>1, <4>4, <5>1
        <5>3. n.part[v] # NoPart /\ n.part[w] # NoPart /\ Step(m, w, v) = Step(n, w, v)
          BY <1>1, <2>2, <4>1, <5>1 DEF Step
        <5>4. a[w] + Step(n, w, v) <= a[v] /\ a[w] \in Nat /\ a[v] \in Nat
          BY <1>5, <1>7, <5>1, <5>2, <5>3
        <5>5. late(w) = a[w] /\ late(v) = a[v]
          BY <4>4
        <5>6. Step(n, w, v) \in 0 .. 1
          BY DEF Step
        <5> HIDE DEF late
        <5> QED
          BY <4>1, <4>2, <5>3, <5>4, <5>5, <5>6
      <4>5. CASE v # d /\ w = d
        <5>1. v \in n.node /\ v \in Vertices(n)
          BY <1>1, <2>2, <4>5
        <5>2. v \in R
          BY <1>1, <1>2, <1>4, <4>1, <4>5, <5>1
        <5>3. u \in Fanins(n, v) /\ n.part[v] = p
          BY <1>3, <5>2
        <5>4. Step(m, w, v) = 0 /\ Step(n, u, v) = 1
          BY <1>1, <4>5, <5>1, <5>3 DEF Step
        <5>5. a[u] + 1 <= a[v] /\ a[v] \in Nat
          BY <1>5, <1>7, <5>1, <5>3, <5>4
        <5>6. late(w) = a[u] + 1 /\ late(v) = a[v]
          BY <4>5
        <5> HIDE DEF late
        <5> QED
          BY <2>0, <4>1, <4>2, <5>4, <5>5, <5>6
      <4> QED
        BY <4>3, <4>4, <4>5
    <3> QED
      BY <3>1, <3>2
  <2> QED
    BY <2>1, <2>2 DEF Vertices
<1>10. \A v \in Vertices(m) : b[v] <= late(v)
  <2> HIDE DEF S
  <2>1. \A v \in Vertices(m) : v \in S
    BY <1>0, <1>9, FromFanins
  <2> QED
    BY <2>1 DEF S
<1>11. HopNum(n) \in Nat /\ \A v \in n.node : a[v] <= HopNum(n)
  BY HopNumIs DEF a
<1>12. HopNum(m) \in Nat /\ (HopNum(m) = 0 \/ \E v \in m.node : HopNum(m) = b[v])
  BY HopNumIs DEF b
<1>13. a[u] + 1 <= a[r]
  <2>1. Step(n, u, r) = 1
    BY DEF Step
  <2> QED
    BY <1>7, <2>1
<1>14. ASSUME NEW v \in m.node
       PROVE  b[v] <= HopNum(n)
  <2>1. b[v] <= late(v) /\ b[v] \in Nat
    BY <1>1, <1>6, <1>10 DEF Vertices
  <2>2. CASE v = d
    <3>1. a[u] \in Nat /\ a[r] \in Nat /\ a[r] <= HopNum(n) /\ late(v) = a[u] + 1
      BY <1>1, <1>5, <1>11, <2>2
    <3> HIDE DEF late
    <3> QED
      BY <1>11, <1>13, <2>1, <3>1
  <2>3. CASE v # d
    <3>1. v \in n.node /\ late(v) = a[v] /\ a[v] \in Nat /\ a[v] <= HopNum(n)
      BY <1>1, <1>5, <1>11, <2>3
    <3> HIDE DEF late
    <3> QED
      BY <1>11, <2>1, <3>1
  <2> QED
    BY <2>2, <2>3
<1> QED
  BY <1>11, <1>12, <1>14

LEMMA ReplicatedIs ==
  ASSUME NEW n, WellFormed(n), NEW r \in n.node, NEW u \in Fanins(n, r), u \in n.node, Crosses(n, u, r),
         NEW m, m = Replicated(n, u, n.part[r])
  PROVE  /\ WellFormed(m) /\ m.max = n.max + 1 /\ m.node = n.node \cup {n.max} /\ n.max \notin n.node
         /\ HopNum(m) <= HopNum(n)
<1> DEFINE p == n.part[r]
<1>1. p \in Nat /\ p # NoPart /\ n.part[u] # NoPart /\ p # n.part[u]
  <2>1. p \in Nat \cup {NoPart}
    BY NetworkIs DEF WellFormed, Vertices
  <2> QED
    BY <2>1 DEF Crosses, Foreign
<1> HIDE DEF p
<1>2. IsCopy(m, n, u, p) /\ IsNetwork(m)
  BY <1>1, CopyIs DEF Replicated, WellFormed, p
<1>3. WellFormed(m)
  BY <1>2, CopyAcyclic DEF WellFormed
<1>4. HopNum(m) <= HopNum(n)
  BY <1>1, <1>2, <1>3, CopyHops DEF p
<1> QED
  BY <1>2, <1>3, <1>4 DEF IsCopy, Vertices
----------------------------------------------------------------------------
(* The sizes of the parts, and the limit *)
LEMMA SwapSizes ==
  ASSUME NEW n, WellFormed(n), NEW a \in Vertices(n), NEW b \in Vertices(n), NEW parts \in Nat,
         n.part[a] \in Nat, n.part[b] \in Nat, n.part[a] # n.part[b]
  PROVE  Sizes(Swapped(n, a, b), parts) = Sizes(n, parts)
<1> DEFINE p == n.part[a]
           q == n.part[b]
           m == Moved(n, a, q)
           k == Moved(m, b, p)
           sz == Sizes(n, parts)
           s1 == SizesMoved(sz, p, q)
           s2 == SizesMoved(s1, q, p)
<1>1. p \in Nat /\ q \in Nat /\ p # q /\ a # b /\ p = n.part[a] /\ q = n.part[b]
  OBVIOUS
<1>2. Swapped(n, a, b) = k
  BY DEF Swapped
<1>3. m = Moved(n, a, q)
  OBVIOUS
<1> HIDE DEF p, q
<1>4. WellFormed(m) /\ Vertices(m) = Vertices(n) /\ m.part[b] = n.part[b]
  BY <1>1, <1>3, MovedFrom
<1>5. Sizes(m, parts) = s1
  BY <1>1, SizesFollow
<1> HIDE DEF m
<1>6. Sizes(k, parts) = SizesMoved(Sizes(m, parts), m.part[b], p)
  BY <1>1, <1>4, SizesFollow
<1>7. Sizes(k, parts) = s2
  BY <1>1, <1>4, <1>5, <1>6
<1>8. sz = [r \in 0 .. parts - 1 |-> sz[r]] /\ \A r \in 0 .. parts - 1 : sz[r] \in Nat
  BY SizesAre DEF WellFormed, Sizes
<1> HIDE DEF sz, k
<1>9. s2 = sz
  <2>1. s1 = [r \in 0 .. parts - 1 |-> s1[r]] /\ s2 = [r \in 0 .. parts - 1 |-> s2[r]]
    BY <1>8 DEF SizesMoved
  <2>2. \A r \in 0 .. parts - 1 : s1[r] = (IF r = q THEN sz[r] + 1 ELSE IF r = p THEN sz[r] - 1 ELSE sz[r])
    BY <1>1, <1>8 DEF SizesMoved
  <2>3. \A r \in 0 .. parts - 1 : s2[r] = (IF r = p THEN s1[r] + 1 ELSE IF r = q THEN s1[r] - 1 ELSE s1[r])
    BY <1>1, <2>1 DEF SizesMoved
  <2> HIDE DEF s1, s2
  <2>4. \A r \in 0 .. parts - 1 : s2[r] = sz[r]
    BY <1>1, <1>8, <2>2, <2>3
  <2> QED
    BY <1>8, <2>1, <2>4
<1> QED
  BY <1>2, <1>7, <1>9 DEF sz

LEMMA TotalIs ==
  ASSUME NEW sz, NEW D, D = DOMAIN sz
  PROVE  MapThenSumSet(LAMBDA p : sz[p], DOMAIN sz) = SumFunctionOnSet(sz, D)
<1> DEFINE total == SumFunctionOnSet(sz, D)
<1>1. MapThenSumSet(LAMBDA p : sz[p], DOMAIN sz) = total
  BY DEF MapThenSumSet, SumFunctionOnSet, FoldFunctionOnSet
<1> QED
  BY <1>1

LEMMA LimitFixed ==
  ASSUME NEW a, NEW b, DOMAIN a = DOMAIN b, SumFunctionOnSet(a, DOMAIN a) = SumFunctionOnSet(b, DOMAIN b),
         NEW pct
  PROVE  MaxAllowed(a, pct) = MaxAllowed(b, pct)
<1>1. MapThenSumSet(LAMBDA p : a[p], DOMAIN a) = MapThenSumSet(LAMBDA p : b[p], DOMAIN b)
  BY TotalIs
<1> QED
  BY <1>1 DEF MaxAllowed

(* Moving one vertex from a part to another leaves the limit what it was. *)
LEMMA LimitMoved ==
  ASSUME NEW D, IsFiniteSet(D), NEW sz, D = DOMAIN sz, \A r \in D : sz[r] \in Nat,
         NEW q \in D, NEW p \in D, p # q, NEW pct
  PROVE  MaxAllowed(SizesMoved(sz, q, p), pct) = MaxAllowed(sz, pct)
<1> DEFINE s == SizesMoved(sz, q, p)
           E == (D \ {p}) \ {q}
<1>1. DOMAIN s = D
  BY DEF SizesMoved
<1>2. s[q] = sz[q] - 1 /\ s[p] = sz[p] + 1 /\ \A r \in E : s[r] = sz[r]
  BY DEF SizesMoved
<1>3. \A r \in D : s[r] \in Int /\ sz[r] \in Int
  BY DEF SizesMoved
<1> HIDE DEF s
<1>4. IsFiniteSet(D \ {p}) /\ IsFiniteSet(E) /\ q \in D \ {p}
  BY FS_RemoveElement
<1>5. SumFunctionOnSet(sz, D) = sz[p] + SumFunctionOnSet(sz, D \ {p})
  BY <1>3, SumRemove
<1>6. SumFunctionOnSet(s, D) = s[p] + SumFunctionOnSet(s, D \ {p})
  BY <1>3, SumRemove
<1>7. SumFunctionOnSet(sz, D \ {p}) = sz[q] + SumFunctionOnSet(sz, E)
  BY <1>3, <1>4, SumRemove
<1>8. SumFunctionOnSet(s, D \ {p}) = s[q] + SumFunctionOnSet(s, E)
  BY <1>3, <1>4, SumRemove
<1>9. SumFunctionOnSet(s, E) = SumFunctionOnSet(sz, E)
  BY <1>2, <1>4, SumSame
<1>10. SumFunctionOnSet(sz, E) \in Int
  BY <1>3, <1>4, SumInt
<1>11. SumFunctionOnSet(s, D) = SumFunctionOnSet(sz, D)
  BY <1>2, <1>3, <1>5, <1>6, <1>7, <1>8, <1>9, <1>10
<1>12. MaxAllowed(s, pct) = MaxAllowed(sz, pct)
  BY <1>1, <1>11, LimitFixed
<1> QED
  BY <1>12 DEF s

----------------------------------------------------------------------------
(* The candidates of a round *)
LEMMA CandidatesAre ==
  ASSUME NEW n, WellFormed(n)
  PROVE  /\ \A c \in Moves(n) : c.node \in n.node /\ n.part[c.node] # NoPart
         /\ \A c \in Pairs(n) : \A v \in {c.a, c.b} : v \in n.node /\ n.part[v] # NoPart
         /\ \A c \in CutCandidates(n) :
              /\ c.node \in Nat /\ c.node < n.max /\ c.node \in n.node
              /\ <<c.node, c.slot>> \in CutSlots(n) /\ c.slot \in Nat \ {0}
<1>1. \A c \in Moves(n) : c.node \in n.node /\ n.part[c.node] # NoPart
  BY DEF Moves
<1>2. \A c \in Pairs(n) : \A v \in {c.a, c.b} : v \in n.node /\ n.part[v] # NoPart
  BY DEF Pairs, Crosses, Foreign
<1>3. ASSUME NEW c \in CutCandidates(n)
      PROVE  c.node \in Nat /\ c.node < n.max /\ c.node \in n.node /\ <<c.node, c.slot>> \in CutSlots(n)
  BY <1>3, CutCandidatesAre
<1>4. ASSUME NEW v, NEW i, <<v, i>> \in CutSlots(n)
      PROVE  i \in Nat \ {0}
  <2>1. <<v, i>> \in Slots(n)
    BY <1>4 DEF CutSlots
  <2>2. v \in n.node /\ i \in DOMAIN n.fanin[v]
    BY <2>1, SlotsFinite DEF WellFormed
  <2>3. n.fanin[v] \in Seq(Vertices(n))
    BY <2>2, Typed DEF WellFormed
  <2> QED
    BY <2>2, <2>3, SlotsAre
<1> QED
  BY <1>1, <1>2, <1>3, <1>4
----------------------------------------------------------------------------
(* A replication that is undone leaves only the next number. *)
LEMMA LaterHops ==
  ASSUME NEW n, WellFormed(n), NEW k \in Nat, k >= n.max, NEW m, m = [n EXCEPT !.max = k]
  PROVE  WellFormed(m) /\ m.node = n.node /\ HopNum(m) = HopNum(n) /\ Circuit(m) = Circuit(n)
<1> DEFINE a == Arrival(m)
           b == Arrival(n)
           S == {v \in Vertices(n) : a[v] = b[v]}
<1>1. /\ IsNetwork(m) /\ m.pi = n.pi /\ m.node = n.node /\ m.fanin = n.fanin /\ m.part = n.part
  BY LaterNetwork DEF WellFormed
<1>2. Circuit(m) = Circuit(n)
  <2>1. Same(m, n)
    BY LaterSame DEF WellFormed
  <2> QED
    BY <2>1, SameCircuit
<1>3. WellFormed(m) /\ IsNetwork(n) /\ Acyclic(n)
  BY <1>1, AcyclicSame DEF WellFormed
<1>4. Vertices(m) = Vertices(n) /\ \A v : Fanins(m, v) = Fanins(n, v)
  BY <1>1 DEF Vertices, Fanins
<1>5. \A v \in Vertices(n) : a[v] = ArrivalBody(m, a, v) /\ b[v] = ArrivalBody(n, b, v)
  BY <1>3, <1>4, ArrivalIs
<1> HIDE DEF a, b
<1>6. ASSUME NEW v \in Vertices(n), Fanins(n, v) \subseteq S
      PROVE  v \in S
  <2>1. CASE v \in n.pi \/ n.part[v] = NoPart
    BY <1>1, <1>5, <2>1 DEF ArrivalBody
  <2>2. CASE ~(v \in n.pi \/ n.part[v] = NoPart)
    <3>1. HopsTo(m, a, v) = HopsTo(n, b, v)
      BY <1>1, <1>4, <1>6 DEF HopsTo
    <3>2. ArrivalBody(m, a, v) = Max({0} \cup HopsTo(m, a, v))
      BY <1>1, <1>4, <2>2, ArrivalBodyIs
    <3>3. ArrivalBody(n, b, v) = Max({0} \cup HopsTo(n, b, v))
      BY <1>3, <2>2, ArrivalBodyIs
    <3> QED
      BY <1>5, <3>1, <3>2, <3>3
  <2> QED
    BY <2>1, <2>2
<1>7. \A v \in Vertices(n) : v \in S
  <2> HIDE DEF S
  <2> QED
    BY <1>3, <1>6, FromFanins
<1>8. {a[v] : v \in m.node} = {b[v] : v \in n.node}
  BY <1>1, <1>7 DEF Vertices
<1>9. HopNum(m) = HopNum(n)
  BY <1>8 DEF HopNum, a, b
<1> QED
  BY <1>1, <1>2, <1>3, <1>9

(* Counts of nodes *)
LEMMA CountIs ==
  ASSUME NEW n, WellFormed(n)
  PROVE  IsFiniteSet(n.node) /\ Cardinality(n.node) \in Nat /\ CutEdges(n) \in Nat /\ HopNum(n) \in Nat
BY VerticesFinite, FS_CardinalityType, SlotsFinite, HopNumIs DEF WellFormed

LEMMA FewerNodes ==
  ASSUME NEW n, WellFormed(n), NEW M, M \subseteq n.node
  PROVE  Cardinality(M) <= Cardinality(n.node)
BY CountIs, FS_Subset

LEMMA OneForOne ==
  ASSUME NEW n, WellFormed(n), NEW v \in n.node, NEW x, NEW M, M \subseteq (n.node \ {v}) \cup {x}
  PROVE  Cardinality(M) <= Cardinality(n.node)
<1> DEFINE R == n.node \ {v}
<1>1. IsFiniteSet(n.node) /\ Cardinality(n.node) \in Nat
  BY CountIs
<1>2. IsFiniteSet(R) /\ Cardinality(R) = Cardinality(n.node) - 1
  BY <1>1, FS_RemoveElement
<1> HIDE DEF R
<1>3. IsFiniteSet(R \cup {x}) /\ (Cardinality(R \cup {x}) = Cardinality(R) \/ Cardinality(R \cup {x}) = Cardinality(R) + 1)
  BY <1>2, FS_AddElement
<1>4. Cardinality(M) <= Cardinality(R \cup {x}) /\ Cardinality(M) \in Nat
  BY <1>3, FS_Subset, FS_CardinalityType DEF R
<1>5. Cardinality(M) <= Cardinality(n.node)
  BY <1>1, <1>2, <1>3, <1>4
<1> QED
  BY <1>5

LEMMA OneMore ==
  ASSUME NEW n, WellFormed(n), NEW x, x \notin n.node
  PROVE  Cardinality(n.node \cup {x}) = Cardinality(n.node) + 1
BY CountIs, FS_AddElement

(* A share of fewer nodes is no more. *)
LEMMA ShareGrows ==
  ASSUME NEW a \in Nat, NEW b \in Nat, a <= b, NEW g \in Nat
  PROVE  (a * g) \div 100 \in Nat /\ (b * g) \div 100 \in Nat /\ (a * g) \div 100 <= (b * g) \div 100
<1>1. PICK d \in Nat : b = a + d
  <2>1. b - a \in Nat /\ b = a + (b - a)
    OBVIOUS
  <2> QED
    BY <2>1
<1>2. d * g \in Nat /\ a * g \in Nat /\ b * g = a * g + d * g
  BY <1>1
<1> DEFINE x == a * g
           y == b * g
<1>3. x \in Nat /\ y \in Nat /\ x <= y
  BY <1>2
<1> HIDE DEF x, y
<1>4. x \div 100 \in Nat /\ y \div 100 \in Nat /\ x \div 100 <= y \div 100
  BY <1>3
<1> QED
  BY <1>4 DEF x, y

----------------------------------------------------------------------------
(* The inductive invariant: what the code keeps in its local variables from *)
(* round to round agrees with the network, and was within the limits.       *)
(* Where the call stands *)
Staging == {"relocate", "swap", "resub", "replicate"}

Staged ==
  /\ cfg \in Configs /\ phase \in Staging \cup {"repair", "done"}
  /\ step \in {"enter", "round", "try", "sweep", "swept"}
  /\ step \in {"sweep", "swept"} => phase = "resub"
  /\ phase = "repair" => step \in {"enter", "round"} /\ cfg.repair
  /\ phase = "done" => step = "enter"
  /\ round \in 0 .. cfg.rounds /\ (step \notin {"enter", "round"} => round < cfg.rounds)
  /\ stall \in 0 .. cfg.stall /\ (step # "enter" => stall < cfg.stall)
  /\ best \in Nat /\ progress \in BOOLEAN
  /\ pdb.parts \in Nat \cup {-1} /\ pdb.pct \in Nat \cup {-1}
  /\ phase = "relocate" /\ step = "enter" => net = first /\ sizes = <<>>

(* The networks, and the nodes that replication has added *)
Early == phase \in {"relocate", "swap", "resub"} \/ <<phase, step>> = <<"replicate", "enter">>

Grown ==
  /\ WellFormed(net) /\ WellFormed(first)
  /\ budget \in Nat /\ extra \in 0 .. budget
  /\ budget <= (Cardinality(first.node) * cfg.growth) \div 100
  /\ Cardinality(net.node) <= Cardinality(first.node) + (IF Early THEN 0 ELSE extra)

(* The hops *)
Arrived ==
  /\ hop \in Nat
  /\ phase \in {"relocate", "swap"} =>
       HopNum(net) <= HopNum(first) /\ (step # "enter" => hop <= HopNum(first))
  /\ phase = "replicate" /\ step # "enter" =>
       /\ IsFiniteSet(DOMAIN snap.arrival) /\ \A v \in DOMAIN snap.arrival : snap.arrival[v] \in Nat
       /\ HopNum(net) <= LatestIn(DOMAIN snap.arrival, snap.arrival)

(* The sizes of the parts and their limit *)
Capped(k) ==
  sizes = Sizes(net, k) /\ \A p \in 0 .. k - 1 : sizes[p] <= Max({limit, Sizes(first, k)[p]})

Sized ==
  /\ limit \in Nat /\ \A p \in DOMAIN sizes : sizes[p] \in Nat
  /\ phase = "swap" \/ (phase = "relocate" /\ step # "enter") => \E k \in Nat : Capped(k)
  /\ phase = "repair" /\ step = "round" =>
       \E k \in Nat \ {0}, pct \in Nat : DOMAIN sizes = 0 .. k - 1 /\ limit = MaxAllowed(sizes, pct)
  /\ phase = "done" /\ cfg.repair => Balanced(net, sizes, limit)

(* The candidates left *)
IsMovable(c) == c.node \in net.node /\ net.part[c.node] # NoPart
IsPair(c) == \A v \in {c.a, c.b} : v \in net.node /\ net.part[v] # NoPart
IsCut(c) == c.node \in Nat /\ c.node < net.max /\ (c.node \in net.node => <<c.node, c.slot>> \in CutSlots(net))

Listing ==
  /\ phase = "relocate" /\ step = "try" => \A c \in todo : IsMovable(c)
  /\ phase = "swap" /\ step = "try" => \A c \in todo : IsPair(c)
  /\ phase = "resub" /\ step = "try" => \A c \in todo : IsCut(c)
  /\ phase = "replicate" /\ step = "try" => \A c \in todo : c.slot \in Nat \ {0}

IInv == Staged /\ Grown /\ Arrived /\ Sized /\ Listing

(* Init *)
LEMMA ConfigIs ==
  ASSUME NEW c \in Configs
  PROVE  /\ c.rounds \in Nat /\ c.stall \in Nat /\ c.stall > 0 /\ c.growth \in Nat /\ c.balance \in Int
         /\ c.relocate \in BOOLEAN /\ c.repair \in BOOLEAN
         /\ c.parts \in Nat \cup {-1} /\ c.pct \in Nat \cup {-1}
<1> DEFINE T == [rounds : Nat, stall : Nat \ {0}, relocate : BOOLEAN, repair : BOOLEAN, growth : Nat,
                 balance : Int, parts : Nat \cup {-1}, pct : Nat \cup {-1}]
<1>1. c \in T
  BY ConfigsAssumption
<1> QED
  BY <1>1

LEMMA ShareOf ==
  ASSUME NEW n, WellFormed(n), NEW g \in Nat
  PROVE  (Cardinality(n.node) * g) \div 100 \in Nat
BY CountIs, ShareGrows

LEMMA InitInv == Init => IInv
<1> SUFFICES ASSUME Init
             PROVE  IInv
  OBVIOUS
<1>1. PICK c \in Configs : cfg = c /\ pdb = [parts |-> c.parts, pct |-> c.pct]
  BY DEF Init
<1>2. /\ phase = (IF cfg.relocate THEN "relocate" ELSE "resub") /\ step = "enter" /\ net = first
      /\ round = 0 /\ stall = 0 /\ best = 0 /\ progress = FALSE /\ hop = 0
      /\ sizes = <<>> /\ limit = 0 /\ extra = 0 /\ budget = 0 /\ net \in Networks
  BY DEF Init
<1>3. /\ cfg.rounds \in Nat /\ cfg.stall \in Nat /\ cfg.growth \in Nat
      /\ c.parts \in Nat \cup {-1} /\ c.pct \in Nat \cup {-1} /\ cfg \in Configs
  BY <1>1, ConfigIs
<1>4. WellFormed(net) /\ WellFormed(first)
  BY <1>2, NetworksAssumption DEF WellFormed
<1>5. Cardinality(net.node) \in Nat /\ HopNum(net) \in Nat
  BY <1>4, CountIs
<1>6. Staged
  <2>1. pdb.parts \in Nat \cup {-1} /\ pdb.pct \in Nat \cup {-1}
    BY <1>1, <1>3
  <2>2. round \in 0 .. cfg.rounds /\ stall \in 0 .. cfg.stall
    BY <1>2, <1>3
  <2>3. phase \in {"relocate", "resub"}
    BY <1>2
  <2> QED
    BY <1>2, <1>3, <2>1, <2>2, <2>3 DEF Staged, Staging
<1>7. Grown
  <2>1. (Cardinality(first.node) * cfg.growth) \div 100 \in Nat
    BY <1>3, <1>4, ShareOf
  <2>2. Early
    BY <1>2 DEF Early
  <2> HIDE DEF Early
  <2>3. Cardinality(net.node) <= Cardinality(first.node) + 0
    BY <1>2, <1>5
  <2> QED
    BY <1>2, <1>4, <2>1, <2>2, <2>3 DEF Grown
<1>8. Arrived
  BY <1>2, <1>5 DEF Arrived
<1>9. Sized
  BY <1>2 DEF Sized
<1>10. Listing
  BY <1>2 DEF Listing
<1> QED
  BY <1>6, <1>7, <1>8, <1>9, <1>10 DEF IInv

----------------------------------------------------------------------------
(* A candidate taken from the list *)
Database(d) == d.parts \in Nat \cup {-1} /\ d.pct \in Nat \cup {-1}

LEMMA InvalidTyped == Database(Invalid)
BY DEF Database, Invalid

LEMMA TriedFrame ==
  ASSUME IInv, NEW p, NEW c, Try(p, c), progress' \in BOOLEAN, Database(pdb')
  PROVE  /\ Staged' /\ step = "try" /\ step' = "try" /\ phase = p /\ phase' = p /\ p \in Staging
         /\ todo' \subseteq todo /\ cfg' = cfg /\ hop' = hop /\ snap' = snap /\ limit' = limit
         /\ budget' = budget /\ first' = first
         /\ WellFormed(net) /\ WellFormed(first)
<1>1. /\ step = "try" /\ step' = "try" /\ phase = p /\ phase' = p /\ todo' \subseteq todo
      /\ cfg' = cfg /\ round' = round /\ stall' = stall /\ best' = best
      /\ hop' = hop /\ snap' = snap /\ limit' = limit /\ budget' = budget /\ first' = first
  BY DEF Try, Take
<1>2. Staged'
  BY <1>1 DEF IInv, Staged, Database
<1>3. p \in Staging
  BY <1>1 DEF IInv, Staged
<1> QED
  BY <1>1, <1>2, <1>3 DEF IInv, Grown

(* A candidate that is given up *)
LEMMA KeptFrame ==
  ASSUME IInv, NEW p, NEW c, Try(p, c), Keep \/ Undo
  PROVE  IInv' /\ net' = net
<1>1. net' = net /\ progress' = progress /\ sizes' = sizes /\ extra' = extra /\ (pdb' = pdb \/ pdb' = Invalid)
  BY DEF Keep, Undo
<1>2. progress' \in BOOLEAN /\ Database(pdb')
  BY <1>1, InvalidTyped DEF IInv, Staged, Database
<1>3. /\ Staged' /\ step = "try" /\ step' = "try" /\ phase' = phase
      /\ todo' \subseteq todo /\ cfg' = cfg /\ hop' = hop /\ snap' = snap /\ limit' = limit
      /\ budget' = budget /\ first' = first
  BY <1>2, TriedFrame
<1>4. Grown'
  BY <1>1, <1>3 DEF IInv, Grown, Early
<1>5. Arrived'
  BY <1>1, <1>3 DEF IInv, Arrived
<1>6. Sized'
  BY <1>1, <1>3 DEF IInv, Sized, Capped
<1>7. Listing'
  BY <1>1, <1>3 DEF IInv, Listing, IsMovable, IsPair, IsCut
<1> QED
  BY <1>1, <1>3, <1>4, <1>5, <1>6, <1>7 DEF IInv

(* A change of relocation or swap that passes the hop gate *)
LEMMA GatedKeeps ==
  ASSUME IInv, NEW p \in {"relocate", "swap"}, NEW c, Try(p, c), NEW n, Commit(n), WellFormed(n),
         n.node = net.node, ~HopExceeded(n), extra' = extra
  PROVE  Staged' /\ Grown' /\ Arrived'
<1>1. net' = n /\ pdb' = Invalid /\ progress' = TRUE
  BY DEF Commit
<1>2. /\ Staged' /\ step = "try" /\ step' = "try" /\ phase = p /\ phase' = p
      /\ cfg' = cfg /\ hop' = hop /\ snap' = snap /\ limit' = limit
      /\ budget' = budget /\ first' = first /\ WellFormed(first)
  BY <1>1, InvalidTyped, TriedFrame
<1>3. Grown'
  BY <1>1, <1>2 DEF IInv, Grown, Early
<1>4. Arrived'
  <2>1. HopNum(n) \in Nat /\ HopNum(first) \in Nat
    BY <1>2, CountIs
  <2>2. hop \in Nat /\ hop <= HopNum(first) /\ ~(HopNum(n) > hop)
    BY <1>2 DEF IInv, Arrived, HopExceeded
  <2>3. HopNum(n) <= HopNum(first)
    BY <2>1, <2>2
  <2> QED
    BY <1>1, <1>2, <2>2, <2>3 DEF Arrived
<1> QED
  BY <1>2, <1>3, <1>4

LEMMA MoveNodeKeeps ==
  ASSUME IInv, NEW c \in todo, MoveNode(c)
  PROVE  IInv' /\ CutEdges(net') < CutEdges(net)
<1> DEFINE v == c.node
           q == net.part[v]
<1>1. PICK p \in BestTargets(net, v) :
        /\ MayMove(v, p) /\ ~HopExceeded(Moved(net, v, p)) /\ Commit(Moved(net, v, p))
        /\ sizes' = SizesMoved(sizes, q, p)
  BY DEF MoveNode
<1>t. Try("relocate", c) /\ extra' = extra
  BY DEF MoveNode
<1>2. /\ phase = "relocate" /\ step = "try" /\ phase' = "relocate" /\ step' = "try"
      /\ limit' = limit /\ first' = first /\ todo' \subseteq todo /\ net' = Moved(net, v, p)
  BY <1>1, <1>t DEF Try, Take, Commit
<1>3. WellFormed(net) /\ v \in net.node /\ v \in Vertices(net) /\ q # NoPart
  BY <1>2 DEF IInv, Grown, Listing, IsMovable, Vertices
<1> HIDE DEF v
<1>4. p \in Nat /\ p # NoPart /\ p # q /\ IncidentCross(net, v, p) < IncidentCross(net, v, q)
  BY <1>3, TargetsAre
<1>5. CutEdges(net') < CutEdges(net)
  BY <1>2, <1>3, <1>4, MoveLowers
<1>6. /\ WellFormed(net') /\ IsReparted(net', net) /\ Vertices(net') = Vertices(net)
      /\ net'.part[v] = p /\ \A w \in Vertices(net) : w # v => net'.part[w] = net.part[w]
  BY <1>2, <1>3, <1>4, MovedFrom
<1>7. Staged' /\ Grown' /\ Arrived'
  <2>1. Commit(net') /\ ~HopExceeded(net') /\ net'.node = net.node
    BY <1>1, <1>2, <1>6 DEF IsReparted
  <2> QED
    BY <1>6, <1>t, <2>1, GatedKeeps
<1>8. Sized'
  <2>1. PICK k \in Nat : Capped(k)
    BY <1>2 DEF IInv, Sized
  <2> DEFINE s == sizes
             m == [r \in 0 .. k - 1 |-> Max({limit, Sizes(first, k)[r]})]
  <2>2. s = Sizes(net, k) /\ limit \in Nat /\ WellFormed(first)
    BY <2>1 DEF Capped, IInv, Sized, Grown
  <2>3. DOMAIN s = 0 .. k - 1 /\ \A r \in 0 .. k - 1 : s[r] \in Nat
    BY <1>3, <2>2, SizesAre DEF WellFormed
  <2>4. sizes' = Sizes(net', k)
    BY <1>1, <1>2, <1>3, <1>4, <2>2, SizesFollow
  <2>6. \A r \in 0 .. k - 1 : m[r] \in Int /\ m[r] >= limit /\ s[r] <= m[r]
    <3> TAKE r \in 0 .. k - 1
    <3> DEFINE b == Sizes(first, k)[r]
               x == Max({limit, b})
    <3>1. b \in Int /\ limit \in Int
      BY <2>2, SizesAre DEF WellFormed
    <3>2. m[r] = x
      OBVIOUS
    <3>3. s[r] <= x
      BY <2>1 DEF Capped
    <3>4. x = Max({limit, b})
      OBVIOUS
    <3> HIDE DEF m, s, b, x
    <3>5. x \in Int /\ x >= limit
      BY <3>1, <3>4, MaxOfTwo
    <3> QED
      BY <3>2, <3>3, <3>5
  <2>7. s[p] + 1 <= limit
    BY <1>1 DEF MayMove
  <2>8. sizes' = SizesMoved(s, q, p)
    BY <1>1
  <2>9. \A r \in 0 .. k - 1 : sizes'[r] = (IF r = p THEN s[r] + 1 ELSE IF r = q THEN s[r] - 1 ELSE s[r])
    <3> HIDE DEF s, q
    <3> QED
      BY <1>4, <2>3, <2>8 DEF SizesMoved
  <2>10. \A r \in 0 .. k - 1 : sizes'[r] <= m[r]
    <3> HIDE DEF s, m
    <3> QED
      BY <2>2, <2>3, <2>6, <2>7, <2>9
  <2>11. \A r \in 0 .. k - 1 : sizes'[r] <= Max({limit, Sizes(first, k)[r]})
    BY <2>10
  <2> HIDE DEF s, m
  <2>12. Capped(k)'
    BY <1>2, <2>4, <2>11 DEF Capped
  <2>13. limit' \in Nat /\ \A r \in DOMAIN sizes' : sizes'[r] \in Nat
    BY <1>2, <1>6, <2>2, <2>4, SizesAre DEF WellFormed
  <2> QED
    BY <1>2, <2>12, <2>13 DEF Sized
<1>9. Listing'
  <2>1. \A d \in todo : d.node \in net.node /\ net.part[d.node] # NoPart
    BY <1>2 DEF IInv, Listing, IsMovable
  <2>2. \A d \in todo : d.node \in net'.node /\ net'.part[d.node] # NoPart
    BY <1>4, <1>6, <2>1 DEF IsReparted, Vertices
  <2> QED
    BY <1>2, <2>2 DEF Listing, IsMovable
<1> QED
  BY <1>5, <1>7, <1>8, <1>9 DEF IInv

LEMMA SwapPairKeeps ==
  ASSUME IInv, NEW c \in todo, SwapPair(c)
  PROVE  IInv' /\ CutEdges(net') < CutEdges(net)
<1> DEFINE a == c.a
           b == c.b
           m == Moved(net, a, net.part[b])
<1>1. /\ Try("swap", c) /\ net.part[a] # net.part[b] /\ Improves(Swapped(net, a, b))
      /\ ~HopExceeded(Swapped(net, a, b)) /\ Commit(Swapped(net, a, b)) /\ sizes' = sizes /\ extra' = extra
  BY DEF SwapPair
<1>2. /\ phase = "swap" /\ step = "try" /\ phase' = "swap" /\ step' = "try" /\ first' = first
      /\ limit' = limit /\ todo' \subseteq todo /\ net' = Swapped(net, a, b) /\ sizes' = sizes
  BY <1>1 DEF Try, Take, Commit
<1>3. /\ WellFormed(net) /\ a \in net.node /\ b \in net.node /\ a \in Vertices(net) /\ b \in Vertices(net)
      /\ net.part[a] # NoPart /\ net.part[b] # NoPart
  BY <1>2 DEF IInv, Grown, Listing, IsPair, Vertices
<1>4. CutEdges(net') < CutEdges(net) /\ ~HopExceeded(net') /\ Commit(net')
  BY <1>1, <1>2 DEF Improves
<1>5. net' = Moved(m, b, net.part[a]) /\ m = Moved(net, a, net.part[b]) /\ net.part[a] # net.part[b] /\ a # b
  BY <1>1, <1>2 DEF Swapped
<1>t. Try("swap", c) /\ extra' = extra
  BY <1>1
<1> HIDE DEF a, b, m
<1>6. net.part[a] \in Nat /\ net.part[b] \in Nat
  BY <1>3, Typed DEF WellFormed
<1>7. /\ WellFormed(m) /\ IsReparted(m, net) /\ Vertices(m) = Vertices(net)
      /\ m.part[a] = net.part[b] /\ \A w \in Vertices(net) : w # a => m.part[w] = net.part[w]
  BY <1>3, <1>5, <1>6, MovedFrom
<1>8. /\ WellFormed(net') /\ IsReparted(net', m)
      /\ net'.part[b] = net.part[a] /\ \A w \in Vertices(net) : w # b => net'.part[w] = m.part[w]
  BY <1>3, <1>5, <1>6, <1>7, MovedFrom
<1>9. net'.node = net.node /\ \A w \in net.node : net.part[w] # NoPart => net'.part[w] # NoPart
  <2>1. net'.node = net.node
    BY <1>7, <1>8 DEF IsReparted
  <2>2. ASSUME NEW w \in net.node, net.part[w] # NoPart
        PROVE  net'.part[w] # NoPart
    <3>1. w \in Vertices(net)
      BY DEF Vertices
    <3> QED
      BY <1>3, <1>7, <1>8, <2>2, <3>1
  <2> QED
    BY <2>1, <2>2
<1>10. Staged' /\ Grown' /\ Arrived'
  BY <1>4, <1>8, <1>9, <1>t, GatedKeeps
<1>11. Sized'
  <2>1. PICK k \in Nat : Capped(k)
    BY <1>2 DEF IInv, Sized
  <2>2. Sizes(net', k) = Sizes(net, k)
    <3>1. WellFormed(net) /\ a \in Vertices(net) /\ b \in Vertices(net) /\ k \in Nat
          /\ net.part[a] \in Nat /\ net.part[b] \in Nat /\ net.part[a] # net.part[b]
      BY <1>3, <1>5, <1>6
    <3>2. Sizes(Swapped(net, a, b), k) = Sizes(net, k)
      BY <3>1, SwapSizes
    <3>3. net' = Swapped(net, a, b)
      BY <1>2
    <3> QED
      BY <3>2, <3>3
  <2>3. limit \in Nat /\ \A r \in DOMAIN sizes : sizes[r] \in Nat
    BY DEF IInv, Sized
  <2> QED
    BY <1>2, <2>1, <2>2, <2>3 DEF Sized, Capped
<1>12. Listing'
  <2>1. \A d \in todo : \A v \in {d.a, d.b} : v \in net.node /\ net.part[v] # NoPart
    BY <1>2 DEF IInv, Listing, IsPair
  <2>2. \A d \in todo : \A v \in {d.a, d.b} : v \in net'.node /\ net'.part[v] # NoPart
    BY <1>9, <2>1
  <2> QED
    BY <1>2, <2>2 DEF Listing, IsPair
<1> QED
  BY <1>4, <1>10, <1>11, <1>12 DEF IInv

----------------------------------------------------------------------------
(* Resubstitution *)
LEMMA ResubNodeKeeps ==
  ASSUME IInv, NEW c \in todo, ResubNode(c)
  PROVE  IInv' /\ CutEdges(net') < CutEdges(net)
<1> DEFINE v == c.node
           s == c.slot
<1>t. /\ Try("resub", c) /\ v \in net.node /\ s <= Len(net.fanin[v]) /\ sizes' = sizes /\ extra' = extra
  BY DEF ResubNode, Alive
<1>r. PICK D \in DivisorSets(net, v) : \E t \in Interpolants(net, v, Reads(net, v, s, D)) :
                                            Commit(Resubbed(net, v, Reads(net, v, s, D), t))
  BY DEF ResubNode, Reads
<1> DEFINE f == Reads(net, v, s, D)
<1>1. PICK t \in Interpolants(net, v, f) : Commit(Resubbed(net, v, f, t))
  BY <1>r
<1>2. net' = Resubbed(net, v, f, t) /\ pdb' = Invalid /\ progress' = TRUE
  BY <1>1 DEF Commit
<1>3. /\ Staged' /\ step = "try" /\ step' = "try" /\ phase = "resub" /\ phase' = "resub" /\ cfg' = cfg
      /\ todo' \subseteq todo /\ hop' = hop /\ limit' = limit /\ budget' = budget /\ first' = first
      /\ WellFormed(net) /\ WellFormed(first)
  BY <1>2, <1>t, InvalidTyped, TriedFrame
<1>a. \A d \in todo : IsCut(d)
  BY <1>3 DEF IInv, Listing
<1>b. <<v, s>> \in CutSlots(net)
  BY <1>a, <1>t DEF IsCut
<1> HIDE DEF v, s, f
<1>4. s \in 1 .. Len(net.fanin[v])
  <2>1. <<v, s>> \in Slots(net)
    BY <1>b DEF CutSlots
  <2>2. s \in DOMAIN net.fanin[v]
    BY <1>3, <2>1, SlotsFinite DEF WellFormed
  <2>3. net.fanin[v] \in Seq(Vertices(net))
    BY <1>3, <1>t, Typed DEF WellFormed
  <2> QED
    BY <2>2, <2>3
<1>5. /\ WellFormed(net') /\ net'.max = net.max + 1 /\ net'.node \subseteq (net.node \ {v}) \cup {net.max}
      /\ \A e \in CutSlots(net) : e[1] \in net'.node => e \in CutSlots(net')
      /\ CutEdges(net') < CutEdges(net)
  BY <1>1, <1>2, <1>3, <1>4, <1>b, <1>t, ResubIs DEF f
<1>6. Grown'
  <2>1. Cardinality(net'.node) <= Cardinality(net.node)
    BY <1>3, <1>5, <1>t, OneForOne
  <2>2. Early /\ Early'
    BY <1>3 DEF Early
  <2>3. Cardinality(net.node) \in Nat /\ Cardinality(net'.node) \in Nat /\ Cardinality(first.node) \in Nat
    BY <1>3, <1>5, CountIs
  <2>4. Cardinality(net.node) <= Cardinality(first.node) + 0
    BY <2>2 DEF IInv, Grown
  <2>5. Cardinality(net'.node) <= Cardinality(first.node) + 0
    BY <2>1, <2>3, <2>4
  <2> QED
    BY <1>3, <1>5, <1>t, <2>2, <2>5 DEF IInv, Grown
<1>7. Arrived'
  BY <1>3 DEF IInv, Arrived
<1>8. Sized'
  BY <1>3, <1>t DEF IInv, Sized
<1>9. Listing'
  <2>1. ASSUME NEW d \in todo
        PROVE  /\ d.node \in Nat /\ d.node < net'.max
               /\ d.node \in net'.node => <<d.node, d.slot>> \in CutSlots(net')
    <3>1. /\ d.node \in Nat /\ d.node < net.max /\ net.max \in Nat
          /\ d.node \in net.node => <<d.node, d.slot>> \in CutSlots(net)
      BY <1>3, <1>a, Typed DEF IsCut, WellFormed
    <3>2. d.node \in net'.node => d.node \in net.node
      BY <1>5, <3>1
    <3> QED
      BY <1>5, <3>1, <3>2
  <2> QED
    BY <1>3, <2>1 DEF Listing, IsCut
<1> QED
  BY <1>3, <1>5, <1>6, <1>7, <1>8, <1>9 DEF IInv

----------------------------------------------------------------------------
(* Replication *)
LEMMA ReplicateKeeps ==
  ASSUME IInv, NEW c \in todo, Replicate(c)
  PROVE  IInv' /\ (Circuit(net') # Circuit(net) => CutEdges(net') < CutEdges(net))
<1> DEFINE r == c.node
           u == net.fanin[r][c.slot]
           n == Replicated(net, u, net.part[r])
<1>t. /\ Try("replicate", c) /\ sizes' = sizes
      /\ r \in net.node /\ c.slot <= Len(net.fanin[r]) /\ u \in net.node /\ Crosses(net, u, r)
  BY DEF Replicate, Replicable, Alive
<1>1. /\ pdb' = Invalid
      /\ \/ Improves(n) /\ net' = n /\ progress' = TRUE /\ extra' = extra + 1
         \/ net' = [net EXCEPT !.max = n.max] /\ progress' = progress /\ extra' = extra
  BY DEF Replicate, Commit
<1>p. progress' \in BOOLEAN
  BY <1>1 DEF IInv, Staged
<1>2. /\ Staged' /\ step = "try" /\ step' = "try" /\ phase = "replicate" /\ phase' = "replicate"
      /\ todo' \subseteq todo /\ hop' = hop /\ snap' = snap /\ limit' = limit /\ cfg' = cfg
      /\ budget' = budget /\ first' = first /\ WellFormed(net) /\ WellFormed(first)
  BY <1>1, <1>p, <1>t, InvalidTyped, TriedFrame
<1>3. u \in Fanins(net, r)
  <2>1. c.slot \in Nat \ {0}
    BY <1>2 DEF IInv, Listing
  <2>2. net.fanin[r] \in Seq(Vertices(net))
    BY <1>2, <1>t, Typed DEF WellFormed
  <2>3. c.slot \in DOMAIN net.fanin[r]
    BY <1>t, <2>1, <2>2
  <2> QED
    BY <1>t, <2>3 DEF Fanins, ToSet
<1>4. n = Replicated(net, u, net.part[r])
  OBVIOUS
<1> HIDE DEF n, u, r
<1>5. /\ WellFormed(n) /\ n.max = net.max + 1 /\ n.node = net.node \cup {net.max} /\ net.max \notin net.node
      /\ HopNum(n) <= HopNum(net)
  BY <1>2, <1>3, <1>4, <1>t, ReplicatedIs
<1>6. /\ Cardinality(net.node) \in Nat /\ Cardinality(first.node) \in Nat
      /\ HopNum(net) \in Nat /\ HopNum(n) \in Nat /\ CutEdges(net) \in Nat
  BY <1>2, <1>5, CountIs
<1>7. /\ extra \in Nat /\ budget \in Nat /\ extra <= budget
      /\ Cardinality(net.node) <= Cardinality(first.node) + extra
      /\ budget <= (Cardinality(first.node) * cfg.growth) \div 100
  BY <1>2 DEF IInv, Grown, Early
<1>8. extra < budget
  <2>1. ~(extra >= budget)
    BY <1>2, <1>t DEF Try, OutOfBudget
  <2> QED
    BY <1>7, <2>1
<1>9. /\ IsFiniteSet(DOMAIN snap.arrival) /\ \A v \in DOMAIN snap.arrival : snap.arrival[v] \in Nat
      /\ HopNum(net) <= LatestIn(DOMAIN snap.arrival, snap.arrival)
  BY <1>2 DEF IInv, Arrived
<1>10. /\ WellFormed(net') /\ HopNum(net') <= HopNum(net) /\ HopNum(net') \in Nat
       /\ extra' \in 0 .. budget /\ Cardinality(net'.node) <= Cardinality(first.node) + extra'
       /\ Circuit(net') # Circuit(net) => CutEdges(net') < CutEdges(net)
  <2>1. CASE Improves(n) /\ net' = n /\ progress' = TRUE /\ extra' = extra + 1
    <3>1. Cardinality(n.node) = Cardinality(net.node) + 1
      BY <1>2, <1>5, OneMore
    <3>2. CutEdges(n) < CutEdges(net)
      BY <2>1 DEF Improves
    <3>3. extra + 1 \in 0 .. budget /\ Cardinality(n.node) <= Cardinality(first.node) + (extra + 1)
      BY <1>6, <1>7, <1>8, <3>1
    <3> QED
      BY <1>5, <1>6, <2>1, <3>2, <3>3
  <2>2. CASE net' = [net EXCEPT !.max = n.max] /\ progress' = progress /\ extra' = extra
    <3>1. n.max \in Nat /\ n.max >= net.max
      BY <1>2, <1>5, Typed DEF WellFormed
    <3>2. WellFormed(net') /\ net'.node = net.node /\ HopNum(net') = HopNum(net) /\ Circuit(net') = Circuit(net)
      BY <1>2, <2>2, <3>1, LaterHops
    <3>3. extra \in 0 .. budget
      BY <1>7
    <3> QED
      BY <1>6, <1>7, <2>2, <3>2, <3>3
  <2> QED
    BY <1>1, <2>1, <2>2
<1>11. Grown'
  <2>1. ~Early'
    BY <1>2 DEF Early
  <2> QED
    BY <1>2, <1>7, <1>10, <2>1 DEF Grown
<1>12. Arrived'
  <2> DEFINE x == LatestIn(DOMAIN snap.arrival, snap.arrival)
  <2>1. x \in Nat
    <3>1. x = LatestIn(DOMAIN snap.arrival, snap.arrival)
      OBVIOUS
    <3> HIDE DEF x
    <3> QED
      BY <1>9, <3>1, LatestOf
  <2>2. HopNum(net) <= x
    BY <1>9
  <2> HIDE DEF x
  <2>3. HopNum(net') <= x
    BY <1>6, <1>10, <2>1, <2>2
  <2>4. hop \in Nat
    BY DEF IInv, Arrived
  <2> QED
    BY <1>2, <1>9, <2>3, <2>4 DEF Arrived, x
<1>13. Sized'
  BY <1>2, <1>t DEF IInv, Sized
<1>14. Listing'
  BY <1>2 DEF IInv, Listing
<1> QED
  BY <1>2, <1>10, <1>11, <1>12, <1>13, <1>14 DEF IInv

(* The candidates that change nothing *)
LEMMA PassedKeeps ==
  ASSUME IInv, NEW c \in todo, KeepNode(c) \/ KeepPair(c) \/ SkipNode(c) \/ SkipDriver(c)
  PROVE  IInv' /\ net' = net
<1>1. CASE KeepNode(c)
  BY <1>1, KeptFrame DEF KeepNode
<1>2. CASE KeepPair(c)
  BY <1>2, KeptFrame DEF KeepPair
<1>3. CASE SkipNode(c) \/ SkipDriver(c)
  BY <1>3, KeptFrame DEF SkipNode, SkipDriver
<1> QED
  BY <1>1, <1>2, <1>3

----------------------------------------------------------------------------
(* The steps that begin and end a phase *)
LEMMA EnteredFrame ==
  ASSUME IInv, NEW p \in Staging \cup {"repair"}, Enter(p)
  PROVE  /\ Staged' /\ step = "enter" /\ step' = "round" /\ phase = p /\ phase' = p
         /\ net' = net /\ cfg' = cfg /\ first' = first
         /\ WellFormed(net) /\ WellFormed(first) /\ cfg \in Configs
<1>1. /\ step = "enter" /\ step' = "round" /\ phase = p /\ phase' = phase /\ net' = net /\ pdb' = pdb
      /\ cfg' = cfg /\ first' = first
      /\ round' = 0 /\ stall' = 0 /\ progress' = FALSE /\ best' = CutEdges(net)
  BY DEF Enter
<1>2. cfg \in Configs /\ WellFormed(net) /\ WellFormed(first)
  BY DEF IInv, Staged, Grown
<1>3. cfg.rounds \in Nat /\ cfg.stall \in Nat /\ cfg.stall > 0 /\ CutEdges(net) \in Nat
  BY <1>2, ConfigIs, CountIs
<1>4. Staged'
  <2>1. round' \in 0 .. cfg.rounds /\ stall' \in 0 .. cfg.stall /\ stall' < cfg.stall
    BY <1>1, <1>3
  <2>2. best' \in Nat /\ progress' \in BOOLEAN /\ phase' # "done"
    BY <1>1, <1>3 DEF Staging
  <2>3. /\ phase \in Staging \cup {"repair", "done"} /\ (phase = "repair" => cfg.repair)
        /\ pdb.parts \in Nat \cup {-1} /\ pdb.pct \in Nat \cup {-1}
    BY DEF IInv, Staged
  <2> QED
    BY <1>1, <1>2, <2>1, <2>2, <2>3 DEF Staged
<1> QED
  BY <1>1, <1>2, <1>4

LEMMA BoundsTyped ==
  ASSUME IInv
  PROVE  NumParts \in Nat \ {0} /\ Pct \in Nat
<1>1. IsNetwork(net) /\ cfg \in Configs /\ pdb.parts \in Int /\ pdb.pct \in Int
  BY DEF IInv, Staged, Grown, WellFormed
<1>2. NumParts \in Nat /\ NumParts >= 1
  BY <1>1, PartsAre DEF NumParts
<1>3. cfg.balance \in Int
  BY <1>1, ConfigIs
<1>4. Pct \in Nat
  BY <1>1, <1>3 DEF Pct, BalancePct
<1> QED
  BY <1>2, <1>4

LEMMA LimitTyped ==
  ASSUME NEW n, WellFormed(n), NEW k \in Nat \ {0}, NEW pct \in Nat, NEW sz, sz = Sizes(n, k)
  PROVE  /\ DOMAIN sz = 0 .. k - 1 /\ (\A r \in DOMAIN sz : sz[r] \in Nat) /\ MaxAllowed(sz, pct) \in Nat
<1>1. DOMAIN sz = 0 .. k - 1 /\ \A r \in DOMAIN sz : sz[r] \in Nat
  BY SizesAre DEF WellFormed
<1>2. k - 1 \in Int /\ 0 \in Int /\ 0 \in 0 .. k - 1
  OBVIOUS
<1>3. IsFiniteSet(0 .. k - 1)
  BY <1>2, FS_Interval
<1> QED
  BY <1>1, <1>2, <1>3, LimitNat

LEMMA EnterRelocateKeeps ==
  ASSUME IInv, EnterRelocate
  PROVE  IInv'
<1>k. PICK k \in Nat \ {0} : k = NumParts
  BY BoundsTyped
<1>p. Pct \in Nat
  BY BoundsTyped
<1>1. /\ Enter("relocate") /\ sizes' = Sizes(net, k) /\ limit' = MaxAllowed(sizes', Pct) /\ hop' = HopNum(net)
      /\ extra' = extra /\ budget' = budget
  BY <1>k DEF EnterRelocate
<1>2. /\ Staged' /\ step = "enter" /\ step' = "round" /\ phase = "relocate" /\ phase' = "relocate"
      /\ net' = net /\ cfg' = cfg /\ first' = first /\ WellFormed(net) /\ WellFormed(first)
  BY <1>1, EnteredFrame DEF Staging
<1>4. net = first /\ HopNum(net) \in Nat
  BY <1>2, CountIs DEF IInv, Staged
<1>5. DOMAIN sizes' = 0 .. k - 1 /\ (\A r \in DOMAIN sizes' : sizes'[r] \in Nat) /\ limit' \in Nat
  BY <1>1, <1>2, <1>p, LimitTyped
<1>6. Grown'
  BY <1>1, <1>2 DEF IInv, Grown, Early
<1>7. Arrived'
  BY <1>1, <1>2, <1>4 DEF Arrived
<1>8. Capped(k)'
  <2>1. ASSUME NEW r \in 0 .. k - 1
        PROVE  sizes'[r] <= Max({limit', Sizes(first, k)[r]})
    <3> DEFINE b == Sizes(first, k)[r]
               l == limit'
               x == Max({l, b})
    <3>1. b = sizes'[r] /\ b \in Int /\ l \in Int /\ x = Max({l, b})
      BY <1>1, <1>4, <1>5
    <3> HIDE DEF b, l, x
    <3>2. b <= x
      BY <3>1, MaxOfTwo
    <3> QED
      BY <3>1, <3>2 DEF b, l, x
  <2> QED
    BY <1>1, <1>2, <2>1 DEF Capped
<1>9. Sized'
  BY <1>2, <1>5, <1>8 DEF Sized
<1>10. Listing'
  BY <1>2 DEF Listing
<1> QED
  BY <1>2, <1>6, <1>7, <1>9, <1>10 DEF IInv

LEMMA EnterSwapKeeps ==
  ASSUME IInv, EnterSwap
  PROVE  IInv'
<1>1. /\ Enter("swap") /\ hop' = HopNum(net)
      /\ sizes' = sizes /\ limit' = limit /\ extra' = extra /\ budget' = budget
  BY DEF EnterSwap
<1>2. /\ Staged' /\ step = "enter" /\ step' = "round" /\ phase = "swap" /\ phase' = "swap"
      /\ net' = net /\ cfg' = cfg /\ first' = first /\ WellFormed(net) /\ WellFormed(first)
  BY <1>1, EnteredFrame DEF Staging
<1>3. HopNum(net) \in Nat
  BY <1>2, CountIs
<1>4. Grown'
  BY <1>1, <1>2 DEF IInv, Grown, Early
<1>5. Arrived'
  BY <1>1, <1>2, <1>3 DEF IInv, Arrived
<1>6. Sized'
  BY <1>1, <1>2 DEF IInv, Sized, Capped
<1>7. Listing'
  BY <1>2 DEF Listing
<1> QED
  BY <1>2, <1>4, <1>5, <1>6, <1>7 DEF IInv

LEMMA EnterResubKeeps ==
  ASSUME IInv, EnterResub
  PROVE  IInv'
<1>1. /\ Enter("resub") /\ hop' = hop
      /\ sizes' = sizes /\ limit' = limit /\ extra' = extra /\ budget' = budget
  BY DEF EnterResub
<1>2. /\ Staged' /\ step = "enter" /\ step' = "round" /\ phase = "resub" /\ phase' = "resub"
      /\ net' = net /\ cfg' = cfg /\ first' = first
  BY <1>1, EnteredFrame DEF Staging
<1>3. Grown'
  BY <1>1, <1>2 DEF IInv, Grown, Early
<1>4. Arrived' /\ Sized' /\ Listing'
  BY <1>1, <1>2 DEF IInv, Arrived, Sized, Listing
<1> QED
  BY <1>2, <1>3, <1>4 DEF IInv

LEMMA EnterReplicateKeeps ==
  ASSUME IInv, EnterReplicate
  PROVE  IInv'
<1> DEFINE a == Arrival(net)
<1>1. /\ Enter("replicate") /\ extra' = 0 /\ budget' = (Cardinality(net.node) * cfg.growth) \div 100
      /\ snap'.arrival = a /\ hop' = hop /\ sizes' = sizes /\ limit' = limit
  BY DEF EnterReplicate, NoSnap
<1>2. /\ Staged' /\ step = "enter" /\ step' = "round" /\ phase = "replicate" /\ phase' = "replicate"
      /\ net' = net /\ cfg' = cfg /\ first' = first /\ WellFormed(net) /\ WellFormed(first) /\ cfg \in Configs
  BY <1>1, EnteredFrame DEF Staging
<1>3. /\ IsFiniteSet(DOMAIN a) /\ (\A v \in DOMAIN a : a[v] \in Nat) /\ HopNum(net) <= LatestIn(DOMAIN a, a)
  BY <1>2, SnapshotIs
<1> HIDE DEF a
<1>4. Grown'
  <2> DEFINE N == Cardinality(net.node)
             F == Cardinality(first.node)
             g == cfg.growth
  <2>1. N \in Nat /\ F \in Nat /\ g \in Nat
    BY <1>2, CountIs, ConfigIs
  <2>2. N <= F + 0
    BY <1>2 DEF IInv, Grown, Early
  <2>3. budget' = (N * g) \div 100
    BY <1>1
  <2> HIDE DEF N, F, g
  <2>4. N <= F
    BY <2>1, <2>2
  <2>5. budget' \in Nat /\ budget' <= (F * g) \div 100
    BY <2>1, <2>3, <2>4, ShareGrows
  <2>6. extra' \in 0 .. budget' /\ N <= F + extra'
    BY <1>1, <2>1, <2>4, <2>5
  <2> QED
    BY <1>1, <1>2, <2>2, <2>5, <2>6 DEF Grown, N, F, g
<1>5. Arrived'
  BY <1>1, <1>2, <1>3 DEF IInv, Arrived
<1>6. Sized' /\ Listing'
  BY <1>1, <1>2 DEF IInv, Sized, Listing
<1> QED
  BY <1>2, <1>4, <1>5, <1>6 DEF IInv

LEMMA EnterRepairKeeps ==
  ASSUME IInv, EnterRepair
  PROVE  IInv'
<1> DEFINE k == NumParts
<1>1. /\ Enter("repair") /\ sizes' = Sizes(net, k) /\ limit' = MaxAllowed(sizes', Pct)
      /\ hop' = hop /\ extra' = extra /\ budget' = budget
  BY DEF EnterRepair
<1>2. /\ Staged' /\ step = "enter" /\ step' = "round" /\ phase = "repair" /\ phase' = "repair"
      /\ net' = net /\ cfg' = cfg /\ first' = first /\ WellFormed(net)
  BY <1>1, EnteredFrame
<1>3. k \in Nat \ {0} /\ Pct \in Nat
  BY BoundsTyped
<1> HIDE DEF k
<1>4. DOMAIN sizes' = 0 .. k - 1 /\ (\A r \in DOMAIN sizes' : sizes'[r] \in Nat) /\ limit' \in Nat
  BY <1>1, <1>2, <1>3, LimitTyped
<1>5. Grown'
  BY <1>1, <1>2 DEF IInv, Grown, Early
<1>6. Arrived' /\ Listing'
  BY <1>1, <1>2 DEF IInv, Arrived, Listing
<1>7. Sized'
  <2>1. \E x \in Nat \ {0}, pct \in Nat : DOMAIN sizes' = 0 .. x - 1 /\ limit' = MaxAllowed(sizes', pct)
    BY <1>1, <1>3, <1>4
  <2> QED
    BY <1>2, <1>4, <2>1 DEF Sized
<1> QED
  BY <1>2, <1>5, <1>6, <1>7 DEF IInv

LEMMA NextPhaseIs ==
  ASSUME phase \in Staging, cfg \in Configs
  PROVE  /\ NextPhase \in {"swap", "resub", "replicate", "repair", "done"}
         /\ NextPhase = "swap" => phase = "relocate"
         /\ NextPhase \in {"swap", "resub", "replicate"} <=> phase \in {"relocate", "swap", "resub"}
         /\ NextPhase = "repair" => cfg.repair
         /\ NextPhase = "done" => ~cfg.repair
BY ConfigIs DEF Staging, NextPhase

LEMMA LeavingKeeps ==
  ASSUME IInv, phase \in Staging, step # "enter", phase' = NextPhase, step' = "enter",
         UNCHANGED <<net, cfg, hop, sizes, limit, extra, budget, first>>
  PROVE  Grown' /\ Arrived' /\ Sized' /\ Listing'
<1>1. /\ phase' \in {"swap", "resub", "replicate", "repair", "done"}
      /\ phase' = "swap" => phase = "relocate"
      /\ phase' \in {"swap", "resub", "replicate"} <=> phase \in {"relocate", "swap", "resub"}
      /\ phase' = "done" => ~cfg.repair
  BY NextPhaseIs DEF IInv, Staged
<1>2. Early' <=> Early
  BY <1>1 DEF Early
<1> HIDE DEF Early
<1>3. Grown'
  BY <1>2 DEF IInv, Grown
<1>4. Arrived'
  BY <1>1 DEF IInv, Arrived
<1>5. Sized'
  BY <1>1 DEF IInv, Sized, Capped
<1>6. Listing'
  BY DEF Listing
<1> QED
  BY <1>3, <1>4, <1>5, <1>6

LEMMA LeavePhaseKeeps ==
  ASSUME IInv, LeavePhase
  PROVE  IInv'
<1>1. /\ step = "round" /\ phase # "repair" /\ phase' = NextPhase /\ step' = "enter"
      /\ UNCHANGED <<net, cfg, hop, sizes, limit, extra, budget, first>>
      /\ UNCHANGED <<pdb, round, stall, best, progress>>
  BY DEF LeavePhase, NoRound, Leave, loop
<1>2. phase \in Staging /\ cfg \in Configs
  BY <1>1 DEF IInv, Staged
<1>3. Staged'
  BY <1>1, <1>2, NextPhaseIs DEF IInv, Staged, Staging
<1> QED
  BY <1>1, <1>2, <1>3, LeavingKeeps DEF IInv

----------------------------------------------------------------------------
(* Rounds *)
LEMMA StartRoundKeeps ==
  ASSUME IInv, StartRound
  PROVE  IInv'
<1>1. /\ step = "round" /\ phase # "repair" /\ round # cfg.rounds /\ step' = "try" /\ todo' = Candidates
      /\ progress' = FALSE /\ (phase # "resub" => snap' = snap)
      /\ UNCHANGED <<net, pdb, cfg, phase, round, stall, best, hop, sizes, limit, extra, budget, first>>
  BY DEF StartRound, NoRound
<1>2. phase \in Staging /\ WellFormed(net)
  BY <1>1 DEF IInv, Staged, Grown
<1>3. Staged'
  <2>1. cfg.rounds \in Nat /\ round \in 0 .. cfg.rounds
    BY ConfigIs DEF IInv, Staged
  <2>2. round < cfg.rounds
    BY <1>1, <2>1
  <2> QED
    BY <1>1, <1>2, <2>2 DEF IInv, Staged, Staging
<1>4. Grown'
  BY <1>1 DEF IInv, Grown, Early
<1>5. Arrived'
  BY <1>1 DEF IInv, Arrived
<1>6. Sized'
  BY <1>1 DEF IInv, Sized, Capped
<1>7. Listing'
  <2>1. CASE phase = "relocate"
    BY <1>1, <1>2, <2>1, CandidatesAre DEF Listing, Candidates, IsMovable
  <2>2. CASE phase = "swap"
    BY <1>1, <1>2, <2>2, CandidatesAre DEF Listing, Candidates, IsPair
  <2>3. CASE phase \in {"resub", "replicate"}
    <3>1. todo' = CutCandidates(net)
      BY <1>1, <2>3 DEF Candidates
    <3>2. \A c \in CutCandidates(net) :
            /\ c.node \in Nat /\ c.node < net.max /\ c.node \in net.node
            /\ <<c.node, c.slot>> \in CutSlots(net) /\ c.slot \in Nat \ {0}
      BY <1>2, CandidatesAre
    <3> QED
      BY <1>1, <2>3, <3>1, <3>2 DEF Listing, IsCut
  <2> QED
    BY <1>2, <2>1, <2>2, <2>3 DEF Staging
<1> QED
  BY <1>3, <1>4, <1>5, <1>6, <1>7 DEF IInv

LEMMA EndRoundKeeps ==
  ASSUME IInv, EndRound
  PROVE  IInv'
<1> DEFINE better == IF phase = "replicate" THEN progress ELSE CutEdges(net) < best
           stuck  == (~better /\ stall + 1 >= cfg.stall) \/ (phase # "replicate" /\ ~progress)
<1>1. /\ \/ step = "try" /\ phase # "resub"
         \/ step = "swept"
      /\ round' = round + 1 /\ todo' = {}
      /\ UNCHANGED <<net, pdb, cfg, progress, hop, sizes, limit, extra, budget, first>>
  BY DEF EndRound
<1>2. /\ best' = (IF phase # "replicate" /\ better THEN CutEdges(net) ELSE best)
      /\ stall' = (IF better THEN 0 ELSE stall + 1)
      /\ step' = (IF stuck THEN "enter" ELSE "round")
      /\ phase' = (IF stuck THEN NextPhase ELSE phase)
      /\ snap' = (IF stuck THEN NoSnap ELSE snap)
  BY DEF EndRound
<1>3. phase \in Staging /\ cfg \in Configs /\ WellFormed(net) /\ step # "enter"
  BY <1>1 DEF IInv, Staged, Grown
<1>4. /\ cfg.rounds \in Nat /\ cfg.stall \in Nat /\ cfg.stall > 0 /\ CutEdges(net) \in Nat
      /\ round \in 0 .. cfg.rounds /\ round < cfg.rounds /\ stall \in 0 .. cfg.stall /\ stall < cfg.stall
      /\ best \in Nat
  BY <1>1, <1>3, ConfigIs, CountIs DEF IInv, Staged
<1>5. /\ best' \in Nat /\ round' \in 0 .. cfg.rounds /\ stall' \in 0 .. cfg.stall
      /\ (~stuck => stall' < cfg.stall)
  <2>1. best' \in Nat
    <3> HIDE DEF better
    <3> QED
      BY <1>2, <1>4
  <2>2. round' \in 0 .. cfg.rounds
    BY <1>1, <1>4
  <2>3. ~stuck => better \/ ~(stall + 1 >= cfg.stall)
    OBVIOUS
  <2>4. stall' \in 0 .. cfg.stall /\ (~stuck => stall' < cfg.stall)
    <3> HIDE DEF stuck, better
    <3> QED
      BY <1>2, <1>4, <2>3
  <2> QED
    BY <2>1, <2>2, <2>4
<1>6. CASE stuck
  <2>1. step' = "enter" /\ phase' = NextPhase
    BY <1>2, <1>6
  <2> HIDE DEF stuck, better
  <2>2. phase' \in {"swap", "resub", "replicate", "repair", "done"} /\ (phase' = "repair" => cfg.repair)
    BY <1>3, <2>1, NextPhaseIs
  <2>3. Staged'
    BY <1>1, <1>3, <1>5, <2>1, <2>2 DEF IInv, Staged, Staging
  <2>4. Grown' /\ Arrived' /\ Sized' /\ Listing'
    BY <1>1, <1>3, <2>1, LeavingKeeps
  <2> QED
    BY <2>3, <2>4 DEF IInv
<1>7. CASE ~stuck
  <2>1. step' = "round" /\ phase' = phase /\ snap' = snap /\ stall' < cfg.stall
    BY <1>2, <1>5, <1>7
  <2> HIDE DEF stuck, better
  <2>2. Staged'
    BY <1>1, <1>3, <1>5, <2>1 DEF IInv, Staged, Staging
  <2>3. Grown'
    BY <1>1, <1>3, <2>1 DEF IInv, Grown, Early
  <2>4. Arrived'
    BY <1>1, <1>3, <2>1 DEF IInv, Arrived
  <2>5. Sized'
    BY <1>1, <1>3, <2>1 DEF IInv, Sized, Capped, Staging
  <2>6. Listing'
    BY <2>1 DEF Listing
  <2> QED
    BY <2>2, <2>3, <2>4, <2>5, <2>6 DEF IInv
<1> QED
  BY <1>6, <1>7

(* The sweep after a round of resubstitutions *)
LEMMA SweptKeeps ==
  ASSUME IInv, phase = "resub", step \in {"try", "sweep"}, NEW n, SweepStep(n), step' \in {"sweep", "swept"},
         WellFormed(n), n.node \subseteq net.node
  PROVE  IInv'
<1>1. /\ net' = n /\ (pdb' = pdb \/ pdb' = Invalid) /\ phase' = "resub"
      /\ UNCHANGED <<cfg, phase, todo, hop, snap, sizes, limit, extra, budget, first>>
      /\ UNCHANGED <<round, stall, best, progress>>
  BY DEF SweepStep, loop
<1>2. WellFormed(net) /\ WellFormed(first)
  BY DEF IInv, Grown
<1>3. Staged'
  <2>1. pdb'.parts \in Nat \cup {-1} /\ pdb'.pct \in Nat \cup {-1}
    BY <1>1, InvalidTyped DEF IInv, Staged, Database
  <2> QED
    BY <1>1, <2>1 DEF IInv, Staged
<1>4. Grown'
  <2>1. Cardinality(n.node) <= Cardinality(net.node)
    BY <1>2, FewerNodes
  <2>2. Early /\ Early'
    BY <1>1 DEF Early
  <2>3. Cardinality(net.node) \in Nat /\ Cardinality(n.node) \in Nat /\ Cardinality(first.node) \in Nat
    BY <1>2, CountIs
  <2>4. Cardinality(net.node) <= Cardinality(first.node) + 0
    BY <2>2 DEF IInv, Grown
  <2>5. Cardinality(net'.node) <= Cardinality(first.node) + 0
    BY <1>1, <2>1, <2>3, <2>4
  <2> QED
    BY <1>1, <2>2, <2>5 DEF IInv, Grown
<1>5. Arrived'
  BY <1>1 DEF IInv, Arrived
<1>6. Sized'
  BY <1>1 DEF IInv, Sized
<1>7. Listing'
  BY <1>1 DEF Listing
<1> QED
  BY <1>3, <1>4, <1>5, <1>6, <1>7 DEF IInv

LEMMA StartSweepKeeps ==
  ASSUME IInv, StartSweep
  PROVE  IInv'
<1> DEFINE k == Cleaned(net)
           n == AllMinimumBase(k)
<1>1. phase = "resub" /\ step = "try" /\ step' = "sweep" /\ SweepStep(n)
  BY DEF StartSweep
<1>2. WellFormed(net)
  BY DEF IInv, Grown
<1>3. WellFormed(k) /\ k.node \subseteq net.node
  BY <1>2, CleanedWellFormed, CleanedNodes
<1>4. n = AllMinimumBase(k)
  OBVIOUS
<1> HIDE DEF k, n
<1>5. WellFormed(n) /\ n.node = k.node
  BY <1>3, <1>4, AllMinimumBaseWellFormed
<1> QED
  BY <1>1, <1>3, <1>5, SweptKeeps

LEMMA SweepNodeKeeps ==
  ASSUME IInv, NEW v, SweepNode(v)
  PROVE  IInv'
<1>1. PICK w \in Fanouts(net, v) : SweepStep(SweptInto(net, v, w))
  BY DEF SweepNode
<1>2. step = "sweep" /\ step' = "sweep" /\ v \in Sweepable(net)
  BY DEF SweepNode
<1>3. phase = "resub" /\ WellFormed(net)
  BY <1>2 DEF IInv, Staged, Grown
<1> DEFINE n == SweptInto(net, v, w)
<1>4. n = SweptInto(net, v, w) /\ SweepStep(n)
  BY <1>1
<1> HIDE DEF n
<1>5. WellFormed(n) /\ n.node \subseteq net.node
  BY <1>2, <1>3, <1>4, SweptIs
<1> QED
  BY <1>2, <1>3, <1>4, <1>5, SweptKeeps

LEMMA SweepOutputsKeeps ==
  ASSUME IInv, SweepOutputs
  PROVE  IInv'
<1> DEFINE k == OutputsSwept(net)
           n == Cleaned(k)
<1>1. step = "sweep" /\ step' = "swept" /\ SweepStep(n)
  BY DEF SweepOutputs
<1>2. phase = "resub" /\ WellFormed(net)
  BY <1>1 DEF IInv, Staged, Grown
<1>3. k = OutputsSwept(net)
  OBVIOUS
<1>4. n = Cleaned(k)
  OBVIOUS
<1> HIDE DEF k, n
<1>5. WellFormed(k) /\ k.node = net.node
  BY <1>2, <1>3, OutputsSweptIs
<1>6. WellFormed(n) /\ n.node \subseteq net.node
  BY <1>4, <1>5, CleanedWellFormed, CleanedNodes
<1> QED
  BY <1>1, <1>2, <1>6, SweptKeeps

----------------------------------------------------------------------------
(* The repair of the balance *)
LEMMA RepairKeeps ==
  ASSUME IInv, NEW v \in net.node, Repair(v)
  PROVE  IInv'
<1> DEFINE p == Under(sizes)
           q == net.part[v]
           D == DOMAIN sizes
<1>1. /\ phase = "repair" /\ step = "round" /\ v \in Movable(net, sizes, limit)
      /\ net' = Moved(net, v, p) /\ pdb' = Invalid /\ sizes' = SizesMoved(sizes, q, p)
      /\ UNCHANGED <<cfg, phase, step, todo, hop, snap, limit, extra, budget, first>>
      /\ UNCHANGED <<round, stall, best, progress>>
  BY DEF Repair, loop
<1>2. WellFormed(net) /\ limit \in Nat /\ \A r \in D : sizes[r] \in Nat
  BY DEF IInv, Grown, Sized
<1>3. PICK k \in Nat \ {0}, pct \in Nat : D = 0 .. k - 1 /\ limit = MaxAllowed(sizes, pct)
  BY <1>1 DEF IInv, Sized
<1>4. Over(sizes, limit) # {} /\ ~(sizes[p] >= limit) /\ q = Min(Over(sizes, limit))
  BY <1>1 DEF Movable, NodesOf
<1>5. D \in SUBSET Nat /\ D # {} /\ IsFiniteSet(D)
  <2>1. k - 1 \in Int /\ 0 \in 0 .. k - 1 /\ 0 .. k - 1 \in SUBSET Nat
    OBVIOUS
  <2>2. IsFiniteSet(0 .. k - 1)
    BY <2>1, FS_Interval
  <2> QED
    BY <1>3, <2>1, <2>2
<1>s. D = DOMAIN sizes
  OBVIOUS
<1> HIDE DEF D
<1>6. q \in D /\ sizes[q] >= 1
  BY <1>2, <1>4, <1>5, <1>s, OverIs
<1>7. p \in D /\ p \in Nat
  BY <1>2, <1>5, <1>s, UnderIs
<1>8. q \in Over(sizes, limit)
  <2>1. Over(sizes, limit) \in SUBSET Nat
    BY <1>5, <1>s DEF Over
  <2> QED
    BY <1>4, <2>1, LeastIn
<1>9. p # q
  <2>1. IsOver(sizes[q], limit)
    BY <1>8 DEF Over
  <2>2. sizes[q] > limit /\ sizes[q] \in Nat /\ sizes[p] \in Nat
    BY <1>2, <1>6, <1>7, <2>1 DEF IsOver
  <2> QED
    BY <1>2, <1>4, <2>2
<1> HIDE DEF p, q
<1>10. DOMAIN sizes' = D /\ \A r \in D : sizes'[r] \in Nat
  BY <1>1, <1>2, <1>6, <1>s, SizesMovedTyped
<1>11. limit = MaxAllowed(sizes', pct)
  <2>1. /\ IsFiniteSet(D) /\ D = DOMAIN sizes /\ (\A r \in D : sizes[r] \in Nat)
        /\ q \in D /\ p \in D /\ p # q
    BY <1>2, <1>5, <1>6, <1>7, <1>9, <1>s
  <2>2. MaxAllowed(SizesMoved(sizes, q, p), pct) = MaxAllowed(sizes, pct)
    BY <2>1, LimitMoved
  <2> QED
    BY <1>1, <1>3, <2>2
<1>12. WellFormed(net') /\ net'.node = net.node
  <2>1. v \in Vertices(net)
    BY DEF Vertices
  <2> QED
    BY <1>1, <1>2, <1>7, <2>1, MovedFrom DEF IsReparted
<1>13. Staged'
  BY <1>1, InvalidTyped DEF IInv, Staged, Database
<1>14. Grown'
  BY <1>1, <1>12 DEF IInv, Grown, Early
<1>15. Arrived' /\ Listing'
  BY <1>1 DEF IInv, Arrived, Listing
<1>16. Sized'
  <2>1. \E x \in Nat \ {0}, y \in Nat : DOMAIN sizes' = 0 .. x - 1 /\ limit' = MaxAllowed(sizes', y)
    BY <1>1, <1>3, <1>10, <1>11
  <2> QED
    BY <1>1, <1>2, <1>10, <2>1 DEF Sized
<1> QED
  BY <1>13, <1>14, <1>15, <1>16 DEF IInv

LEMMA RepairedKeeps ==
  ASSUME IInv, Repaired
  PROVE  IInv'
<1>1. /\ phase = "repair" /\ step = "round" /\ Movable(net, sizes, limit) = {} /\ phase' = "done" /\ step' = "enter"
      /\ UNCHANGED <<net, pdb, cfg, hop, sizes, limit, extra, budget, first>>
      /\ UNCHANGED <<round, stall, best, progress>>
  BY DEF Repaired, Leave, NextPhase, loop
<1>2. PICK k \in Nat \ {0}, pct \in Nat : DOMAIN sizes = 0 .. k - 1 /\ limit = MaxAllowed(sizes, pct)
  BY <1>1 DEF IInv, Sized
<1>3. Balanced(net, sizes, limit)
  BY <1>1, <1>2, RepairEnds DEF IInv, Sized
<1>4. Staged'
  BY <1>1 DEF IInv, Staged
<1>5. Grown'
  BY <1>1 DEF IInv, Grown, Early
<1>6. Arrived' /\ Listing'
  BY <1>1 DEF IInv, Arrived, Listing
<1>7. Sized'
  BY <1>1, <1>3 DEF IInv, Sized
<1> QED
  BY <1>4, <1>5, <1>6, <1>7 DEF IInv

----------------------------------------------------------------------------
(* The invariant holds, and what it says *)
LEMMA StutterKeeps ==
  ASSUME IInv, UNCHANGED vars
  PROVE  IInv'
<1>1. /\ UNCHANGED <<net, pdb, cfg, phase, step, todo, hop, snap, sizes, limit, extra, budget, first>>
      /\ UNCHANGED <<round, stall, best, progress>>
  BY DEF vars, loop
<1>2. Staged' /\ Grown' /\ Arrived'
  BY <1>1 DEF IInv, Staged, Grown, Early, Arrived
<1>3. Sized' /\ Listing'
  BY <1>1 DEF IInv, Sized, Capped, Listing, IsMovable, IsPair, IsCut
<1> QED
  BY <1>2, <1>3 DEF IInv

Drops == step = "try" /\ step' = "try" /\ Circuit(net') # Circuit(net) => CutEdges(net') < CutEdges(net)

LEMMA Steps == IInv /\ [Next]_vars => IInv' /\ Drops
<1> SUFFICES ASSUME IInv, [Next]_vars
             PROVE  IInv' /\ Drops
  OBVIOUS
<1>1. CASE EnterRelocate \/ EnterSwap \/ EnterResub \/ EnterReplicate \/ EnterRepair
  <2>1. step = "enter"
    BY <1>1 DEF EnterRelocate, EnterSwap, EnterResub, EnterReplicate, EnterRepair, Enter
  <2> QED
    BY <1>1, <2>1, EnterRelocateKeeps, EnterSwapKeeps, EnterResubKeeps, EnterReplicateKeeps, EnterRepairKeeps
       DEF Drops
<1>2. CASE StartRound \/ LeavePhase
  BY <1>2, StartRoundKeeps, LeavePhaseKeeps DEF Drops, StartRound, LeavePhase
<1>3. CASE EndRound
  BY <1>3, EndRoundKeeps DEF Drops, EndRound
<1>4. CASE \E c \in todo : MoveNode(c) \/ SwapPair(c) \/ ResubNode(c) \/ Replicate(c)
  BY <1>4, MoveNodeKeeps, SwapPairKeeps, ResubNodeKeeps, ReplicateKeeps DEF Drops
<1>5. CASE \E c \in todo : KeepNode(c) \/ KeepPair(c) \/ SkipNode(c) \/ SkipDriver(c)
  BY <1>5, PassedKeeps DEF Drops
<1>6. CASE StartSweep \/ SweepOutputs
  BY <1>6, StartSweepKeeps, SweepOutputsKeeps DEF Drops, StartSweep, SweepOutputs
<1>7. CASE \E v \in net.node : SweepNode(v)
  BY <1>7, SweepNodeKeeps DEF Drops, SweepNode
<1>8. CASE \E v \in net.node : Repair(v)
  BY <1>8, RepairKeeps DEF Drops, Repair
<1>9. CASE Repaired
  BY <1>9, RepairedKeeps DEF Drops, Repaired
<1>10. CASE Done \/ UNCHANGED vars
  <2>1. UNCHANGED vars
    BY <1>10 DEF Done
  <2>2. net' = net
    BY <2>1 DEF vars
  <2> QED
    BY <2>1, <2>2, StutterKeeps DEF Drops
<1> QED
  BY <1>1, <1>2, <1>3, <1>4, <1>5, <1>6, <1>7, <1>8, <1>9, <1>10 DEF Next

LEMMA Invariant == Spec => []IInv
<1>1. Init => IInv
  BY InitInv
<1>2. IInv /\ [Next]_vars => IInv'
  BY Steps
<1> QED
  BY <1>1, <1>2, PTL DEF Spec

LEMMA PhasesAre == ToSet(Phases) = Staging \cup {"repair", "done"}
<1>1. DOMAIN Phases = 1 .. 6
  BY DEF Phases
<1>2. ToSet(Phases) = {Phases[i] : i \in 1 .. 6}
  BY <1>1 DEF ToSet
<1> QED
  BY <1>2 DEF Phases, Staging

LEMMA TypesHold ==
  ASSUME IInv
  PROVE  TypeOK
<1>1. WellFormed(net) /\ IsNetwork(net)
  BY DEF IInv, Grown, WellFormed
<1>2. \A v \in net.node : \A u \in Fanins(net, v) : v \notin Cone(net, u)
  <2> TAKE v \in net.node
  <2>1. v \in Vertices(net)
    BY DEF Vertices
  <2> QED
    BY <1>1, <2>1, ConeOf
<1>3. phase \in ToSet(Phases)
  BY PhasesAre DEF IInv, Staged
<1>4. hop \in Nat /\ limit \in Nat /\ extra \in 0 .. budget /\ \A p \in DOMAIN sizes : sizes[p] \in Nat
  BY DEF IInv, Arrived, Sized, Grown
<1> QED
  BY <1>1, <1>2, <1>3, <1>4 DEF TypeOK, IInv, Staged

LEMMA LimitsHold == IInv => LimitsKept
<1> SUFFICES ASSUME IInv
             PROVE  LimitsKept
  OBVIOUS
<1>1. ASSUME phase \in {"relocate", "swap"}, sizes # <<>>
      PROVE  /\ sizes = Sizes(net, Cardinality(DOMAIN sizes))
             /\ \A p \in DOMAIN sizes : sizes[p] <= Max({limit, Sizes(first, Cardinality(DOMAIN sizes))[p]})
  <2>1. ~(phase = "relocate" /\ step = "enter")
    BY <1>1 DEF IInv, Staged
  <2>2. PICK k \in Nat : Capped(k)
    BY <1>1, <2>1 DEF IInv, Sized
  <2>3. DOMAIN sizes = 0 .. k - 1
    BY <2>2, SizesAre DEF Capped, IInv, Grown, WellFormed
  <2>4. Cardinality(0 .. k - 1) = k
    <3>1. 0 \in Int /\ k - 1 \in Int
      OBVIOUS
    <3>2. Cardinality(0 .. k - 1) = IF 0 > k - 1 THEN 0 ELSE (k - 1) - 0 + 1
      BY <3>1, FS_Interval
    <3> QED
      BY <3>2
  <2> QED
    BY <2>2, <2>3, <2>4 DEF Capped
<1>2. Cardinality(net.node) <= Cardinality(first.node) + (Cardinality(first.node) * cfg.growth) \div 100
  <2> DEFINE N == Cardinality(net.node)
             F == Cardinality(first.node)
             G == (F * cfg.growth) \div 100
             x == IF Early THEN 0 ELSE extra
  <2>1. N \in Nat /\ F \in Nat /\ G \in Nat
    BY CountIs, ShareOf, ConfigIs DEF IInv, Grown, Staged
  <2>2. budget \in Nat /\ extra \in 0 .. budget /\ budget <= G /\ N <= F + x
    BY DEF IInv, Grown
  <2>3. x = 0 \/ x = extra
    OBVIOUS
  <2> HIDE DEF N, F, G, x
  <2>4. N <= F + G
    BY <2>1, <2>2, <2>3
  <2> QED
    BY <2>4 DEF N, F, G
<1>3. phase = "done" /\ cfg.repair /\ Over(sizes, limit) # {} => NodesOf(net, Min(Over(sizes, limit))) = {}
  BY DEF IInv, Sized, Balanced
<1> QED
  BY <1>1, <1>2, <1>3, TypesHold DEF LimitsKept

(* For every network without cycles and every setting: every variable has   *)
(* its type and the network stays without cycles, through the sweep too;    *)
(* the sizes that relocation counts move by move are those of the network,  *)
(* the swaps leave them so, and no part grows past the limit of the entry;  *)
(* the nodes grow within the budget; and after a repair a part over the     *)
(* limit means that the first such part has no node to give.                *)
THEOREM CsrLimits == Spec => []LimitsKept
BY LimitsHold, Invariant, PTL

LEMMA HopsHold == IInv => HopsKept
BY DEF IInv, Arrived, HopsKept, LatestIn

(* For every network without cycles: relocation and swap never raise the    *)
(* hops above those of the start, and replication never above those it      *)
(* began with, whatever its stale snapshot lets through.                    *)
THEOREM CsrHops == Spec => []HopsKept
BY HopsHold, Invariant, PTL

(* For every network without cycles: a candidate of any phase that changes  *)
(* the network lowers the cut-edges of the whole of it strictly.            *)
THEOREM CsrDrops == Spec => CutDrops
<1>1. IInv /\ [Next]_vars => [Drops]_vars
  BY Steps
<1>2. [][Drops]_vars <=> CutDrops
  BY DEF Drops, CutDrops
<1> QED
  BY <1>1, <1>2, Invariant, PTL DEF Spec
=============================================================================
