------------------------------ MODULE Csr2_proofs ------------------------------
(****************************************************************************)
(* What holds of Csr2 for all networks without cycles and all options: the  *)
(* limits hold at every settled point of a trajectory, a search leaves no   *)
(* trace, the predicted changes are exact, what a search returns brings the *)
(* change that it measured, an accepted change lowers the cut-edges, and    *)
(* the network that the frame takes is no worse.  (That its outputs are the *)
(* same does not hold of every input: MCCsr2Order.)                         *)
(*                                                                          *)
(* The numbers of nodes that a rollback uses up are not given back.  So a   *)
(* cluster is built again under other numbers than those it was judged      *)
(* under; Same and Alike say what does not depend on them.                  *)
(****************************************************************************)
EXTENDS Csr2, NetTheorems

----------------------------------------------------------------------------
(* A node with the same fanins as another becomes a buffer of it. *)
LEMMA SameFaninsSet ==
  ASSUME NEW n, IsNetwork(n), NEW v \in n.node, NEW d \in n.node, SameFanins(n, v, d)
  PROVE  Fanins(n, v) = Fanins(n, d)
<1>1. ASSUME NEW w \in n.node, NEW u \in Vertices(n)
      PROVE  /\ IsFiniteSet(SlotsReading(n, w, u))
             /\ u \in Fanins(n, w) <=> SlotsReading(n, w, u) # {}
  <2>1. n.fanin[w] \in Seq(Vertices(n))
    BY NetworkIs
  <2>2. SlotsReading(n, w, u) \subseteq 1 .. Len(n.fanin[w]) /\ Len(n.fanin[w]) \in Nat
    BY <2>1 DEF SlotsReading
  <2>3. IsFiniteSet(SlotsReading(n, w, u))
    <3>1. IsFiniteSet(1 .. Len(n.fanin[w]))
      BY <2>2, FS_Interval
    <3> QED
      BY <2>2, <3>1, FS_Subset
  <2> QED
    BY <2>3 DEF Fanins, ToSet, SlotsReading
<1>2. ASSUME NEW u \in Vertices(n)
      PROVE  u \in Fanins(n, v) <=> u \in Fanins(n, d)
  <2>1. Cardinality(SlotsReading(n, v, u)) = Cardinality(SlotsReading(n, d, u))
    BY DEF SameFanins
  <2> QED
    BY <1>1, <2>1, FS_EmptySet
<1>3. Fanins(n, v) \subseteq Vertices(n) /\ Fanins(n, d) \subseteq Vertices(n)
  BY FaninsTyped
<1> QED
  BY <1>2, <1>3

LEMMA JoinedFields ==
  ASSUME NEW n, IsNetwork(n), NEW v \in n.node, NEW d, NEW m, m = Joined(n, <<v, d>>)
  PROVE  /\ Shaped(m) /\ m.max = n.max /\ m.pi = n.pi /\ m.node = n.node /\ m.po = n.po
         /\ m.part = n.part /\ Vertices(m) = Vertices(n)
         /\ \A w \in n.node : /\ m.fanin[w] = IF w = v THEN <<d>> ELSE n.fanin[w]
                              /\ m.truth[w] = IF w = v THEN {{1}} ELSE n.truth[w]
<1>1. DOMAIN n = Fields /\ DOMAIN n.fanin = n.node /\ DOMAIN n.truth = n.node
  BY NetworkFields
<1>2. m = [n EXCEPT !.fanin[v] = <<d>>, !.truth[v] = {{1}}]
  BY DEF Joined
<1>3. m = [x \in Fields |-> m[x]]
  BY <1>1, <1>2
<1>4. /\ m.max = n.max /\ m.pi = n.pi /\ m.node = n.node /\ m.po = n.po /\ m.part = n.part
      /\ m.fanin = [n.fanin EXCEPT ![v] = <<d>>] /\ m.truth = [n.truth EXCEPT ![v] = {{1}}]
  BY <1>1, <1>2 DEF Fields
<1>5. Vertices(m) = Vertices(n)
  BY <1>4 DEF Vertices
<1>6. m.part = [w \in Vertices(m) |-> m.part[w]]
  BY ZenonT(30), <1>4, <1>5, NetworkShaped DEF Shaped
<1>7. /\ m.fanin = [w \in m.node |-> m.fanin[w]]
      /\ m.truth = [w \in m.node |-> m.truth[w]]
  BY <1>1, <1>4
<1>8. \A w \in n.node : /\ m.fanin[w] = IF w = v THEN <<d>> ELSE n.fanin[w]
                        /\ m.truth[w] = IF w = v THEN {{1}} ELSE n.truth[w]
  BY <1>1, <1>4
<1> QED
  BY <1>3, <1>4, <1>5, <1>6, <1>7, <1>8 DEF Shaped

LEMMA JoinedWellFormed ==
  ASSUME NEW n, WellFormed(n), NEW v \in n.node, NEW d \in n.node, v # d,
         Fanins(n, v) = Fanins(n, d), NEW m, m = Joined(n, <<v, d>>)
  PROVE  WellFormed(m)
<1>0. IsNetwork(n) /\ Acyclic(n)
  BY DEF WellFormed
<1>1. /\ Shaped(m) /\ m.max = n.max /\ m.pi = n.pi /\ m.node = n.node /\ m.po = n.po
      /\ m.part = n.part /\ Vertices(m) = Vertices(n)
      /\ \A w \in n.node : /\ m.fanin[w] = IF w = v THEN <<d>> ELSE n.fanin[w]
                           /\ m.truth[w] = IF w = v THEN {{1}} ELSE n.truth[w]
  BY <1>0, JoinedFields
<1>2. /\ n.max \in Nat /\ n.pi \cap n.node = {} /\ Vertices(n) = n.pi \cup n.node
      /\ \A w \in Vertices(n) : w \in 0 .. n.max - 1
      /\ \A w \in n.node : n.fanin[w] \in Seq(Vertices(n))
      /\ \A w \in n.node : n.truth[w] \in SUBSET SUBSET DOMAIN n.fanin[w]
      /\ \A w \in Vertices(n) : n.part[w] \in Nat \cup {NoPart}
      /\ n.po \in Seq(Vertices(n))
  BY <1>0, NetworkIs
<1>3. \A w \in m.node : m.fanin[w] \in Seq(Vertices(m))
  <2>1. <<d>> \in Seq(Vertices(n))
    BY <1>2
  <2> QED
    BY <1>1, <1>2, <2>1
<1>4. \A w \in m.node : m.truth[w] \in SUBSET SUBSET DOMAIN m.fanin[w]
  <2>1. {{1}} \in SUBSET SUBSET DOMAIN <<d>>
    OBVIOUS
  <2> QED
    BY <1>1, <1>2, <2>1
<1>5. IsNetwork(m)
  BY <1>1, <1>2, <1>3, <1>4, NetworkFrom
<1> DEFINE r == Ranks(n)
<1>6. \A w \in Vertices(n) : /\ r[w] \in Nat /\ r[w] = RankBody(n, r, w)
                              /\ \A u \in Fanins(n, w) : r[u] < r[w]
  BY RanksAre
<1> HIDE DEF r
<1> DEFINE q == [w \in m.node |-> 2 * r[w] + (IF w = v THEN 1 ELSE 0)]
<1>7. \A w \in m.node : w \in Vertices(n) /\ q[w] \in Nat
  BY <1>1, <1>2, <1>6
<1>8. ASSUME NEW w \in m.node, NEW u \in Fanins(m, w), u \in m.node
      PROVE  q[u] < q[w]
  <2>1. CASE w = v
    <3>1. u = d
      BY <1>1, <1>8, <2>1 DEF Fanins, ToSet
    <3>2. r[d] = r[v]
      <4>1. RankBody(n, r, d) = RankBody(n, r, v)
        BY DEF RankBody
      <4> QED
        BY <1>2, <1>6, <4>1
    <3> QED
      BY <1>1, <1>2, <1>6, <2>1, <3>1, <3>2
  <2>2. CASE w # v
    <3>1. Fanins(m, w) = Fanins(n, w)
      BY <1>1, <2>2 DEF Fanins
    <3>2. r[u] < r[w] /\ r[u] \in Nat /\ r[w] \in Nat
      BY <1>1, <1>2, <1>6, <1>8, <3>1
    <3> QED
      BY <1>8, <2>2, <3>2
  <2> QED
    BY <2>1, <2>2
<1>9. Acyclic(m)
  BY <1>7, <1>8, AcyclicRanked
<1> QED
  BY <1>5, <1>9 DEF WellFormed

----------------------------------------------------------------------------
(* The duplicates of the nodes of C have the next numbers, one each. *)
LEMMA FaninsFirstOrders ==
  ASSUME NEW n, WellFormed(n), NEW C \in SUBSET n.node
  PROVE  Orders(FaninsFirst(n, C), C)
<1> DEFINE r == Ranks(n)
<1>1. FaninsFirst(n, C) = {e \in C \X C : r[e[1]] < r[e[2]] \/ (r[e[1]] = r[e[2]] /\ e[1] < e[2])}
  BY DEF FaninsFirst, Ranks, RankBody
<1>2. \A v \in C : v \in Nat /\ r[v] \in Nat
  <2>1. \A v \in C : v \in Vertices(n)
    BY DEF Vertices
  <2> QED
    BY <2>1, RanksAre, VerticesFinite DEF WellFormed
<1> HIDE DEF r
<1>3. \A x, y \in C : <<x, y>> \in FaninsFirst(n, C) <=> r[x] < r[y] \/ (r[x] = r[y] /\ x < y)
  BY <1>1
<1> QED
  BY <1>2, <1>3 DEF Orders

LEMMA DupsAre ==
  ASSUME NEW n, WellFormed(n), NEW C \in SUBSET n.node
  PROVE  /\ IsFiniteSet(C) /\ Cardinality(C) \in Nat
         /\ \A v \in C : DupOf(n, C, v) \in NewIds(n, C) /\ DupOf(n, C, v) \in Nat
         /\ \A v, w \in C : DupOf(n, C, v) = DupOf(n, C, w) => v = w
         /\ \A x \in NewIds(n, C) : \E v \in C : x = DupOf(n, C, v)
         /\ NewIds(n, C) \cap Vertices(n) = {}
         /\ \A x \in NewIds(n, C) : x \in Nat /\ x < n.max + Cardinality(C)
<1> DEFINE R == FaninsFirst(n, C)
<1>0. IsNetwork(n) /\ n.max \in Nat /\ \A v \in Vertices(n) : v \in Nat /\ v < n.max
  BY Typed DEF WellFormed
<1>1. IsFiniteSet(C) /\ Cardinality(C) \in Nat
  BY <1>0, VerticesFinite, FS_Subset, FS_CardinalityType
<1>2. Orders(R, C)
  BY FaninsFirstOrders
<1> HIDE DEF R
<1>3. ASSUME NEW v \in C
      PROVE  DupOf(n, C, v) \in NewIds(n, C) /\ DupOf(n, C, v) \in Nat
  <2>1. Earlier(v, C, R) \in 0 .. Cardinality(C) - 1
    BY <1>1, <1>2, EarlierCounts
  <2>2. DupOf(n, C, v) = n.max + Earlier(v, C, R)
    BY DEF DupOf, R
  <2> QED
    BY <1>0, <1>1, <2>1, <2>2 DEF NewIds
<1>4. ASSUME NEW v \in C, NEW w \in C, DupOf(n, C, v) = DupOf(n, C, w)
      PROVE  v = w
  <2>1. Earlier(v, C, R) \in 0 .. Cardinality(C) - 1 /\ Earlier(w, C, R) \in 0 .. Cardinality(C) - 1
    BY <1>1, <1>2, EarlierCounts
  <2>2. Earlier(v, C, R) = Earlier(w, C, R)
    BY <1>0, <1>1, <1>4, <2>1 DEF DupOf, R
  <2> QED
    BY <1>1, <1>2, <2>2, EarlierInjective
<1>5. ASSUME NEW x \in NewIds(n, C)
      PROVE  (\E v \in C : x = DupOf(n, C, v)) /\ x \in Nat /\ x < n.max + Cardinality(C) /\ x \notin Vertices(n)
  <2> DEFINE i == x - n.max + 1
  <2>1. x \in n.max .. n.max + Cardinality(C) - 1
    BY DEF NewIds
  <2>2. i \in 1 .. Cardinality(C) /\ x = n.max + (i - 1) /\ x \in Nat /\ x < n.max + Cardinality(C) /\ x >= n.max
    BY <1>0, <1>1, <2>1
  <2> HIDE DEF i
  <2>3. PICK v \in C : Earlier(v, C, R) = i - 1
    BY <1>1, <1>2, <2>2, EarlierOnto
  <2>4. x = DupOf(n, C, v)
    BY <2>2, <2>3 DEF DupOf, R
  <2>5. x \notin Vertices(n)
    <3> SUFFICES ASSUME x \in Vertices(n) PROVE FALSE
      OBVIOUS
    <3>1. x < n.max
      BY <1>0
    <3> QED
      BY <1>0, <2>2, <3>1
  <2> QED
    BY <2>2, <2>4, <2>5
<1> QED
  BY <1>1, <1>3, <1>4, <1>5

IsDuplicated(m, n, C, p) ==
  /\ Shaped(m) /\ m.max = n.max + Cardinality(C) /\ m.pi = n.pi /\ m.po = n.po
  /\ m.node = n.node \cup NewIds(n, C) /\ Vertices(m) = Vertices(n) \cup NewIds(n, C)
  /\ \A v \in n.node : m.fanin[v] = n.fanin[v] /\ m.truth[v] = n.truth[v]
  /\ \A v \in Vertices(n) : m.part[v] = n.part[v]
  /\ \A v \in C : /\ m.fanin[DupOf(n, C, v)] = ReadsDups(n, C, n.fanin[v])
                  /\ m.truth[DupOf(n, C, v)] = n.truth[v] /\ m.part[DupOf(n, C, v)] = p

LEMMA DuplicatedFields ==
  ASSUME NEW n, WellFormed(n), NEW C \in SUBSET n.node, NEW p
  PROVE  IsDuplicated(Duplicated(n, C, p), n, C, p)
<1> DEFINE m == Duplicated(n, C, p)
           new == NewIds(n, C)
           of(x) == CHOOSE v \in C : DupOf(n, C, v) = x
<1>0. IsNetwork(n)
  BY DEF WellFormed
<1>1. /\ DOMAIN n = Fields
      /\ DOMAIN n.fanin = n.node /\ DOMAIN n.truth = n.node /\ DOMAIN n.part = Vertices(n)
  BY <1>0, NetworkFields
<1>2. m = [n EXCEPT
             !.max   = @ + Cardinality(C), !.node = @ \cup new,
             !.fanin = [v \in DOMAIN @ \cup new |-> IF v \in new THEN ReadsDups(n, C, @[of(v)]) ELSE @[v]],
             !.truth = [v \in DOMAIN @ \cup new |-> IF v \in new THEN @[of(v)] ELSE @[v]],
             !.part  = [v \in DOMAIN @ \cup new |-> IF v \in new THEN p ELSE @[v]]]
  BY DEF Duplicated
<1>3. \A v \in C : DupOf(n, C, v) \in new /\ \A w \in C : DupOf(n, C, v) = DupOf(n, C, w) => v = w
  BY DupsAre
<1>4. new \cap Vertices(n) = {} /\ n.node \subseteq Vertices(n)
  BY DupsAre DEF Vertices
<1>5. \A v \in C : of(DupOf(n, C, v)) = v
  <2> TAKE v \in C
  <2>1. \E w \in C : DupOf(n, C, w) = DupOf(n, C, v)
    OBVIOUS
  <2>2. of(DupOf(n, C, v)) \in C /\ DupOf(n, C, of(DupOf(n, C, v))) = DupOf(n, C, v)
    BY <2>1
  <2> HIDE DEF of
  <2> QED
    BY <1>3, <2>2
<1> HIDE DEF of, new
<1>6. m = [x \in Fields |-> m[x]]
  BY <1>1, <1>2
<1>7. m.max = n.max + Cardinality(C) /\ m.pi = n.pi /\ m.po = n.po /\ m.node = n.node \cup new
  BY <1>1, <1>2 DEF Fields
<1>8. m.fanin = [v \in n.node \cup new |-> IF v \in new THEN ReadsDups(n, C, n.fanin[of(v)]) ELSE n.fanin[v]]
  BY <1>1, <1>2 DEF Fields
<1>9. m.truth = [v \in n.node \cup new |-> IF v \in new THEN n.truth[of(v)] ELSE n.truth[v]]
  BY <1>1, <1>2 DEF Fields
<1>10. m.part = [v \in Vertices(n) \cup new |-> IF v \in new THEN p ELSE n.part[v]]
  BY <1>1, <1>2 DEF Fields
<1> HIDE DEF m
<1>11. Vertices(m) = Vertices(n) \cup new
  BY <1>7 DEF Vertices
<1>12. Shaped(m)
  BY <1>6, <1>7, <1>8, <1>9, <1>10, <1>11 DEF Shaped
<1>13. /\ \A v \in n.node : m.fanin[v] = n.fanin[v] /\ m.truth[v] = n.truth[v]
       /\ \A v \in Vertices(n) : m.part[v] = n.part[v]
  BY <1>4, <1>8, <1>9, <1>10
<1>14. \A v \in C : /\ m.fanin[DupOf(n, C, v)] = ReadsDups(n, C, n.fanin[v])
                    /\ m.truth[DupOf(n, C, v)] = n.truth[v] /\ m.part[DupOf(n, C, v)] = p
  BY <1>3, <1>5, <1>8, <1>9, <1>10
<1>15. IsDuplicated(m, n, C, p)
  BY <1>7, <1>11, <1>12, <1>13, <1>14 DEF IsDuplicated, new
<1> QED
  BY <1>15 DEF m

LEMMA DuplicatedNetwork ==
  ASSUME NEW n, WellFormed(n), NEW C \in SUBSET n.node, NEW p \in Nat \cup {NoPart}
  PROVE  IsNetwork(Duplicated(n, C, p))
<1> DEFINE m == Duplicated(n, C, p)
<1>1. IsDuplicated(m, n, C, p)
  BY DuplicatedFields
<1> HIDE DEF m
<1>2. /\ n.max \in Nat /\ n.pi \cap n.node = {} /\ Vertices(n) = n.pi \cup n.node
      /\ \A w \in Vertices(n) : w \in 0 .. n.max - 1
      /\ \A w \in n.node : n.fanin[w] \in Seq(Vertices(n))
      /\ \A w \in n.node : n.truth[w] \in SUBSET SUBSET DOMAIN n.fanin[w]
      /\ \A w \in Vertices(n) : n.part[w] \in Nat \cup {NoPart}
      /\ n.po \in Seq(Vertices(n))
  BY NetworkIs DEF WellFormed
<1>3. /\ IsFiniteSet(C) /\ Cardinality(C) \in Nat
      /\ \A v \in C : DupOf(n, C, v) \in NewIds(n, C)
      /\ \A x \in NewIds(n, C) : \E v \in C : x = DupOf(n, C, v)
      /\ NewIds(n, C) \cap Vertices(n) = {}
      /\ \A x \in NewIds(n, C) : x \in Nat /\ x < n.max + Cardinality(C)
  BY DupsAre
<1>4. /\ Shaped(m) /\ m.max = n.max + Cardinality(C) /\ m.pi = n.pi /\ m.po = n.po
      /\ m.node = n.node \cup NewIds(n, C) /\ Vertices(m) = Vertices(n) \cup NewIds(n, C)
      /\ \A v \in n.node : m.fanin[v] = n.fanin[v] /\ m.truth[v] = n.truth[v]
      /\ \A v \in Vertices(n) : m.part[v] = n.part[v]
  BY <1>1 DEF IsDuplicated
<1>5. \A v \in C : /\ m.fanin[DupOf(n, C, v)] = ReadsDups(n, C, n.fanin[v])
                   /\ m.truth[DupOf(n, C, v)] = n.truth[v] /\ m.part[DupOf(n, C, v)] = p
  BY <1>1 DEF IsDuplicated
<1>6. ASSUME NEW v \in C
      PROVE  /\ ReadsDups(n, C, n.fanin[v]) \in Seq(Vertices(m))
             /\ DOMAIN ReadsDups(n, C, n.fanin[v]) = DOMAIN n.fanin[v]
  <2> DEFINE f == n.fanin[v]
             g == ReadsDups(n, C, f)
  <2>1. f \in Seq(Vertices(n))
    BY <1>2
  <2> HIDE DEF f
  <2>2. DOMAIN f = 1 .. Len(f) /\ Len(f) \in Nat
    BY <2>1
  <2>3. g = [i \in DOMAIN f |-> IF f[i] \in C THEN DupOf(n, C, f[i]) ELSE f[i]]
    BY DEF ReadsDups
  <2> HIDE DEF g
  <2>4. \A i \in 1 .. Len(f) : g[i] \in Vertices(m)
    BY <1>3, <1>4, <2>1, <2>2, <2>3
  <2>5. g \in [1 .. Len(f) -> Vertices(m)]
    BY <2>2, <2>3, <2>4
  <2>6. g \in Seq(Vertices(m)) /\ DOMAIN g = DOMAIN f
    BY <2>2, <2>5
  <2> QED
    BY <2>6 DEF f, g
<1>7. ASSUME NEW v \in m.node
      PROVE  m.fanin[v] \in Seq(Vertices(m)) /\ m.truth[v] \in SUBSET SUBSET DOMAIN m.fanin[v]
  <2>1. CASE v \in n.node
    <3>1. n.fanin[v] \in Seq(Vertices(n)) /\ Vertices(n) \subseteq Vertices(m)
      BY <1>2, <1>4, <2>1
    <3>2. n.fanin[v] \in Seq(Vertices(m))
      BY <3>1, SeqGrows
    <3> QED
      BY <1>2, <1>4, <2>1, <3>2
  <2>2. CASE v \notin n.node
    <3>1. PICK w \in C : v = DupOf(n, C, w)
      BY <1>3, <1>4, <2>2
    <3>2. n.truth[w] \in SUBSET SUBSET DOMAIN n.fanin[w]
      BY <1>2
    <3> QED
      BY <1>5, <1>6, <3>1, <3>2
  <2> QED
    BY <2>1, <2>2
<1>8. ASSUME NEW v \in Vertices(m)
      PROVE  m.part[v] \in Nat \cup {NoPart} /\ v \in 0 .. m.max - 1
  <2>1. CASE v \in Vertices(n)
    BY <1>2, <1>3, <1>4, <2>1
  <2>2. CASE v \notin Vertices(n)
    <3>1. PICK w \in C : v = DupOf(n, C, w)
      BY <1>3, <1>4, <2>2
    <3>2. v \in Nat /\ v < n.max + Cardinality(C)
      BY <1>3, <3>1
    <3> QED
      BY <1>2, <1>3, <1>4, <1>5, <3>1, <3>2
  <2> QED
    BY <2>1, <2>2
<1>9. m.po \in Seq(Vertices(m))
  BY <1>2, <1>4, SeqGrows
<1>10. m.max \in Nat /\ m.pi \cap m.node = {}
  <2>1. m.max \in Nat
    BY <1>2, <1>3, <1>4
  <2>2. n.pi \cap NewIds(n, C) = {}
    BY <1>2, <1>3
  <2> QED
    BY <1>2, <1>4, <2>1, <2>2
<1>11. IsNetwork(m)
  BY <1>4, <1>7, <1>8, <1>9, <1>10, NetworkFrom
<1> QED
  BY <1>11 DEF m

----------------------------------------------------------------------------
(* The readers of u in p are patched, and nothing else. *)
IsBuilt(b, n, C, u, p) ==
  /\ IsNetwork(b) /\ b.max = n.max + Cardinality(C) /\ b.pi = n.pi /\ b.po = n.po
  /\ b.node = n.node \cup NewIds(n, C) /\ Vertices(b) = Vertices(n) \cup NewIds(n, C)
  /\ \A v \in Vertices(n) : b.part[v] = n.part[v]
  /\ \A v \in n.node :
       /\ b.truth[v] = n.truth[v] /\ DOMAIN b.fanin[v] = DOMAIN n.fanin[v]
       /\ \A i \in DOMAIN n.fanin[v] :
            b.fanin[v][i] = IF n.part[v] = p /\ n.fanin[v][i] = u THEN DupOf(n, C, u) ELSE n.fanin[v][i]
  /\ \A v \in C :
       /\ b.part[DupOf(n, C, v)] = p /\ b.truth[DupOf(n, C, v)] = n.truth[v]
       /\ DOMAIN b.fanin[DupOf(n, C, v)] = DOMAIN n.fanin[v]
       /\ \A i \in DOMAIN n.fanin[v] :
            b.fanin[DupOf(n, C, v)][i] =
              IF n.fanin[v][i] \in C THEN DupOf(n, C, n.fanin[v][i]) ELSE n.fanin[v][i]

LEMMA BuiltIs ==
  ASSUME NEW n, WellFormed(n), NEW C \in SUBSET n.node, NEW u \in C, NEW p \in Nat \cup {NoPart}
  PROVE  IsBuilt(Built(n, C, u, p), n, C, u, p)
<1> DEFINE m == Duplicated(n, C, p)
           S == ReadersIn(n, u, p)
           b == Patched(m, S, u, DupOf(n, C, u))
<1>1. IsDuplicated(m, n, C, p) /\ IsNetwork(m)
  BY DuplicatedFields, DuplicatedNetwork
<1> HIDE DEF m
<1>2. DupOf(n, C, u) \in Vertices(m)
  BY <1>1, DupsAre DEF IsDuplicated
<1>3. IsNetwork(b)
  BY <1>1, <1>2, PatchedNetwork
<1>4. /\ b.max = m.max /\ b.pi = m.pi /\ b.node = m.node /\ b.po = m.po
      /\ b.fanin = [v \in m.node |-> IF v \in S THEN ReplaceAll(m.fanin[v], u, DupOf(n, C, u)) ELSE m.fanin[v]]
      /\ b.truth = m.truth /\ b.part = m.part /\ Vertices(b) = Vertices(m)
  BY <1>1, PatchedFields
<1> HIDE DEF b
<1>5. /\ m.max = n.max + Cardinality(C) /\ m.pi = n.pi /\ m.po = n.po
      /\ m.node = n.node \cup NewIds(n, C) /\ Vertices(m) = Vertices(n) \cup NewIds(n, C)
      /\ \A v \in n.node : m.fanin[v] = n.fanin[v] /\ m.truth[v] = n.truth[v]
      /\ \A v \in Vertices(n) : m.part[v] = n.part[v]
  BY <1>1 DEF IsDuplicated
<1>6. \A v \in C : /\ m.fanin[DupOf(n, C, v)] = ReadsDups(n, C, n.fanin[v])
                   /\ m.truth[DupOf(n, C, v)] = n.truth[v] /\ m.part[DupOf(n, C, v)] = p
  BY <1>1 DEF IsDuplicated
<1>7. /\ \A v \in C : DupOf(n, C, v) \in NewIds(n, C)
      /\ NewIds(n, C) \cap Vertices(n) = {} /\ n.node \subseteq Vertices(n)
  BY DupsAre DEF Vertices
<1>8. S \subseteq n.node /\ \A v \in n.node : v \in S <=> n.part[v] = p /\ u \in Fanins(n, v)
  BY DEF ReadersIn, Fanouts
<1>9. ASSUME NEW v \in n.node
      PROVE  /\ b.truth[v] = n.truth[v] /\ DOMAIN b.fanin[v] = DOMAIN n.fanin[v]
             /\ \A i \in DOMAIN n.fanin[v] :
                  b.fanin[v][i] = IF n.part[v] = p /\ n.fanin[v][i] = u THEN DupOf(n, C, u) ELSE n.fanin[v][i]
  <2>0. n.fanin[v] \in Seq(Vertices(n)) /\ \A i \in DOMAIN n.fanin[v] : n.fanin[v][i] \in Fanins(n, v)
    BY NetworkIs DEF WellFormed, Fanins, ToSet
  <2>1. b.truth[v] = n.truth[v] /\ v \in m.node /\ m.fanin[v] = n.fanin[v]
    BY <1>4, <1>5
  <2>2. CASE v \in S
    <3>1. b.fanin[v] = ReplaceAll(n.fanin[v], u, DupOf(n, C, u)) /\ n.part[v] = p
      BY <1>4, <1>8, <2>1, <2>2
    <3>2. /\ DOMAIN b.fanin[v] = DOMAIN n.fanin[v]
          /\ \A i \in DOMAIN n.fanin[v] :
               b.fanin[v][i] = IF n.fanin[v][i] = u THEN DupOf(n, C, u) ELSE n.fanin[v][i]
      BY <2>0, <3>1, ReplacedAt
    <3> QED
      BY <2>1, <3>1, <3>2
  <2>3. CASE v \notin S
    <3>1. b.fanin[v] = n.fanin[v]
      BY <1>4, <2>1, <2>3
    <3>2. ~(n.part[v] = p /\ u \in Fanins(n, v))
      BY <1>8, <2>3
    <3> QED
      BY <2>0, <2>1, <3>1, <3>2
  <2> QED
    BY <2>2, <2>3
<1>10. ASSUME NEW v \in C
       PROVE  /\ b.part[DupOf(n, C, v)] = p /\ b.truth[DupOf(n, C, v)] = n.truth[v]
              /\ DOMAIN b.fanin[DupOf(n, C, v)] = DOMAIN n.fanin[v]
              /\ \A i \in DOMAIN n.fanin[v] :
                   b.fanin[DupOf(n, C, v)][i] =
                     IF n.fanin[v][i] \in C THEN DupOf(n, C, n.fanin[v][i]) ELSE n.fanin[v][i]
  <2> DEFINE x == DupOf(n, C, v)
  <2>1. x \in m.node /\ x \notin S
    BY <1>5, <1>7, <1>8
  <2>2. b.fanin[x] = ReadsDups(n, C, n.fanin[v]) /\ b.part[x] = p /\ b.truth[x] = n.truth[v]
    BY <1>4, <1>6, <2>1
  <2> HIDE DEF x
  <2>3. /\ DOMAIN b.fanin[x] = DOMAIN n.fanin[v]
        /\ \A i \in DOMAIN n.fanin[v] :
             b.fanin[x][i] = IF n.fanin[v][i] \in C THEN DupOf(n, C, n.fanin[v][i]) ELSE n.fanin[v][i]
    BY <2>2 DEF ReadsDups
  <2> QED
    BY <2>2, <2>3 DEF x
<1>11. IsBuilt(b, n, C, u, p)
  <2>1. /\ IsNetwork(b) /\ b.max = n.max + Cardinality(C) /\ b.pi = n.pi /\ b.po = n.po
        /\ b.node = n.node \cup NewIds(n, C) /\ Vertices(b) = Vertices(n) \cup NewIds(n, C)
        /\ \A v \in Vertices(n) : b.part[v] = n.part[v]
    BY <1>3, <1>4, <1>5
  <2> QED
    BY <1>9, <1>10, <2>1 DEF IsBuilt
<1> QED
  BY <1>11 DEF b, m, S, Built

LEMMA BuiltWellFormed ==
  ASSUME NEW n, WellFormed(n), NEW C \in SUBSET n.node, NEW u \in C, NEW p \in Nat \cup {NoPart}
  PROVE  WellFormed(Built(n, C, u, p))
<1> DEFINE b == Built(n, C, u, p)
<1>1. IsBuilt(b, n, C, u, p)
  BY BuiltIs
<1> HIDE DEF b
<1>2. /\ IsNetwork(b) /\ b.node = n.node \cup NewIds(n, C)
      /\ \A v \in n.node :
           /\ DOMAIN b.fanin[v] = DOMAIN n.fanin[v]
           /\ \A i \in DOMAIN n.fanin[v] :
                b.fanin[v][i] = IF n.part[v] = p /\ n.fanin[v][i] = u THEN DupOf(n, C, u) ELSE n.fanin[v][i]
      /\ \A v \in C :
           /\ DOMAIN b.fanin[DupOf(n, C, v)] = DOMAIN n.fanin[v]
           /\ \A i \in DOMAIN n.fanin[v] :
                b.fanin[DupOf(n, C, v)][i] =
                  IF n.fanin[v][i] \in C THEN DupOf(n, C, n.fanin[v][i]) ELSE n.fanin[v][i]
  BY <1>1 DEF IsBuilt
<1>3. /\ \A v \in C : DupOf(n, C, v) \in NewIds(n, C)
      /\ \A v, w \in C : DupOf(n, C, v) = DupOf(n, C, w) => v = w
      /\ \A x \in NewIds(n, C) : \E v \in C : x = DupOf(n, C, v)
      /\ NewIds(n, C) \cap Vertices(n) = {} /\ n.node \subseteq Vertices(n)
  BY DupsAre DEF Vertices
<1> DEFINE h == [v \in b.node |-> IF v \in n.node THEN v ELSE CHOOSE w \in C : v = DupOf(n, C, w)]
<1>4. \A v \in n.node : h[v] = v
  BY <1>2
<1>5. \A v \in C : h[DupOf(n, C, v)] = v
  <2> TAKE v \in C
  <2> DEFINE x == DupOf(n, C, v)
  <2>1. x \in b.node /\ x \notin n.node
    BY <1>2, <1>3
  <2>2. h[x] = CHOOSE w \in C : x = DupOf(n, C, w)
    BY <2>1
  <2>3. h[x] \in C /\ x = DupOf(n, C, h[x])
    <3>1. \E w \in C : x = DupOf(n, C, w)
      OBVIOUS
    <3> HIDE DEF x, h
    <3> QED
      BY <2>2, <3>1
  <2> HIDE DEF h
  <2> QED
    BY <1>3, <2>3
<1> HIDE DEF h
<1>6. \A v \in b.node : v \in n.node \/ \E w \in C : v = DupOf(n, C, w)
  BY <1>2, <1>3
<1>7. \A v \in b.node : h[v] \in n.node
  BY <1>4, <1>5, <1>6
<1>8. ASSUME NEW v \in b.node, NEW y \in Fanins(b, v), y \in b.node
      PROVE  h[y] \in Fanins(n, h[v])
  <2>0. PICK i \in DOMAIN b.fanin[v] : y = b.fanin[v][i]
    BY DEF Fanins, ToSet
  <2>1. CASE v \in n.node
    <3>1. i \in DOMAIN n.fanin[v]
      BY <1>2, <2>0, <2>1
    <3>2. n.fanin[v][i] \in Fanins(n, v)
      BY <2>1, <3>1 DEF Fanins, ToSet
    <3>3. CASE n.part[v] = p /\ n.fanin[v][i] = u
      BY <1>2, <1>4, <1>5, <2>0, <2>1, <3>1, <3>2, <3>3
    <3>4. CASE ~(n.part[v] = p /\ n.fanin[v][i] = u)
      <4>1. y = n.fanin[v][i]
        BY <1>2, <2>0, <2>1, <3>1, <3>4
      <4>2. y \in n.node
        BY <1>2, <1>3, <1>8, <3>2, <4>1, FaninsTyped DEF WellFormed
      <4> QED
        BY <1>4, <2>1, <3>2, <4>1, <4>2
    <3> QED
      BY <3>3, <3>4
  <2>2. CASE v \notin n.node
    <3>1. PICK w \in C : v = DupOf(n, C, w)
      BY <1>6, <2>2
    <3>2. i \in DOMAIN n.fanin[w] /\ h[v] = w /\ w \in n.node
      BY <1>2, <1>5, <2>0, <3>1
    <3>3. n.fanin[w][i] \in Fanins(n, w)
      BY <3>2 DEF Fanins, ToSet
    <3>4. CASE n.fanin[w][i] \in C
      <4>1. y = DupOf(n, C, n.fanin[w][i])
        BY <1>2, <2>0, <3>1, <3>2, <3>4
      <4> QED
        BY <1>5, <3>2, <3>3, <3>4, <4>1
    <3>5. CASE n.fanin[w][i] \notin C
      <4>1. y = n.fanin[w][i]
        BY <1>2, <2>0, <3>1, <3>2, <3>5
      <4>2. y \in n.node
        BY <1>2, <1>3, <1>8, <3>3, <4>1, FaninsTyped DEF WellFormed
      <4> QED
        BY <1>4, <3>2, <3>3, <4>1, <4>2
    <3> QED
      BY <3>4, <3>5
  <2> QED
    BY <2>1, <2>2
<1>9. Acyclic(b)
  BY <1>7, <1>8, AcyclicMapped DEF WellFormed
<1> QED
  BY <1>2, <1>9 DEF WellFormed, b

----------------------------------------------------------------------------
(* Undoing a cluster leaves no more of it than the numbers that are used up. *)
LEMMA UndoneSame ==
  ASSUME NEW n, WellFormed(n), NEW C \in SUBSET n.node, NEW u \in C, NEW p \in Nat \cup {NoPart}
  PROVE  /\ Same(ClusterUndone(Built(n, C, u, p), Txn(n, C, u, p)), n)
         /\ ClusterUndone(Built(n, C, u, p), Txn(n, C, u, p)).max = n.max + Cardinality(C)
<1> DEFINE b == Built(n, C, u, p)
           S == ReadersIn(n, u, p)
           x == DupOf(n, C, u)
           N == NewIds(n, C)
           q == Patched(b, S, x, u)
           m == Without(q, N)
<1>0. IsNetwork(n) /\ n.node \subseteq Vertices(n) /\ n.pi \subseteq Vertices(n)
  BY DEF WellFormed, Vertices
<1>1. IsBuilt(b, n, C, u, p)
  BY BuiltIs
<1> HIDE DEF b
<1>2. x \in N /\ N \cap Vertices(n) = {} /\ u \in n.node
  BY DupsAre
<1>3. S \subseteq n.node /\ \A v \in S : n.part[v] = p
  BY DEF ReadersIn, Fanouts
<1>3a. \A v \in n.node \ S : n.part[v] = p => u \notin Fanins(n, v)
  BY DEF ReadersIn, Fanouts
<1> HIDE DEF S, x, N
<1>4. /\ IsNetwork(b) /\ b.max = n.max + Cardinality(C) /\ b.pi = n.pi /\ b.po = n.po
      /\ b.node = n.node \cup N /\ Vertices(b) = Vertices(n) \cup N
      /\ \A v \in Vertices(n) : b.part[v] = n.part[v]
  BY <1>1 DEF IsBuilt, N
<1>5. \A v \in n.node :
        /\ b.truth[v] = n.truth[v] /\ DOMAIN b.fanin[v] = DOMAIN n.fanin[v]
        /\ \A i \in DOMAIN n.fanin[v] :
             b.fanin[v][i] = IF n.part[v] = p /\ n.fanin[v][i] = u THEN x ELSE n.fanin[v][i]
  BY <1>1 DEF IsBuilt, x
<1>6. IsNetwork(q)
  <2>1. u \in Vertices(b)
    BY <1>0, <1>2, <1>4
  <2> QED
    BY <1>4, <2>1, PatchedNetwork
<1>7. /\ q.max = b.max /\ q.pi = b.pi /\ q.node = b.node /\ q.po = b.po
      /\ q.fanin = [v \in b.node |-> IF v \in S THEN ReplaceAll(b.fanin[v], x, u) ELSE b.fanin[v]]
      /\ q.truth = b.truth /\ q.part = b.part
  BY <1>4, PatchedFields
<1> HIDE DEF q
<1>8. IsWithout(m, q, N)
  BY <1>6, WithoutIs
<1> HIDE DEF m
<1>9. /\ Shaped(m) /\ m.max = q.max /\ m.pi = q.pi /\ m.node = q.node \ N /\ m.po = q.po
      /\ \A v \in m.node : m.fanin[v] = q.fanin[v] /\ m.truth[v] = q.truth[v]
      /\ \A v \in Vertices(m) : m.part[v] = q.part[v]
  BY <1>8 DEF IsWithout
<1>10. m.node = n.node /\ m.pi = n.pi /\ m.po = n.po /\ Vertices(m) = Vertices(n)
  <2>1. m.node = n.node /\ m.pi = n.pi /\ m.po = n.po
    BY <1>0, <1>2, <1>4, <1>7, <1>9
  <2> QED
    BY <2>1 DEF Vertices
<1>11. ASSUME NEW v \in n.node
       PROVE  m.fanin[v] = n.fanin[v] /\ m.truth[v] = n.truth[v]
  <2>1. m.truth[v] = n.truth[v] /\ m.fanin[v] = q.fanin[v] /\ v \in b.node
    <3>1. v \in b.node /\ v \in m.node
      BY <1>4, <1>10
    <3>2. m.truth[v] = q.truth[v] /\ m.fanin[v] = q.fanin[v]
      BY <1>9, <3>1
    <3>3. q.truth[v] = n.truth[v]
      BY <1>5, <1>7
    <3> QED
      BY <3>1, <3>2, <3>3
  <2>2. /\ n.fanin[v] \in Seq(Vertices(n)) /\ b.fanin[v] \in Seq(Vertices(b))
        /\ \A i \in DOMAIN n.fanin[v] : n.fanin[v][i] \in Fanins(n, v) /\ n.fanin[v][i] # x
    <3>1. n.fanin[v] \in Seq(Vertices(n)) /\ b.fanin[v] \in Seq(Vertices(b))
      BY <1>0, <1>4, <2>1, NetworkIs
    <3>2. \A i \in DOMAIN n.fanin[v] : n.fanin[v][i] \in Fanins(n, v)
      BY DEF Fanins, ToSet
    <3>3. Fanins(n, v) \subseteq Vertices(n) /\ x \notin Vertices(n)
      BY <1>0, <1>2, FaninsTyped
    <3> QED
      BY <3>1, <3>2, <3>3
  <2>3. CASE v \in S
    <3> DEFINE g == ReplaceAll(b.fanin[v], x, u)
    <3>1. q.fanin[v] = g
      BY <1>7, <2>1, <2>3
    <3>2. DOMAIN g = DOMAIN n.fanin[v] /\ \A i \in DOMAIN b.fanin[v] : g[i] = (IF b.fanin[v][i] = x THEN u ELSE b.fanin[v][i])
      BY <1>5, <2>2, ReplacedAt
    <3>3. g = [i \in DOMAIN g |-> g[i]]
      BY DEF ReplaceAll
    <3> HIDE DEF g
    <3>4. \A i \in DOMAIN n.fanin[v] : g[i] = n.fanin[v][i]
      BY <1>3, <1>5, <2>2, <2>3, <3>2
    <3>5. g = n.fanin[v]
      BY <2>2, <3>2, <3>3, <3>4
    <3> QED
      BY <2>1, <3>1, <3>5
  <2>4. CASE v \notin S
    <3>1. q.fanin[v] = b.fanin[v]
      BY <1>7, <2>1, <2>4
    <3>2. \A i \in DOMAIN n.fanin[v] : b.fanin[v][i] = n.fanin[v][i]
      BY <1>3a, <1>5, <2>2, <2>4
    <3>3. b.fanin[v] = n.fanin[v]
      BY <1>5, <2>2, <3>2
    <3> QED
      BY <2>1, <3>1, <3>3
  <2> QED
    BY <2>3, <2>4
<1>12. \A v \in Vertices(n) : m.part[v] = n.part[v]
  BY <1>4, <1>7, <1>9, <1>10
<1>13. Same(m, n) /\ m.max = n.max + Cardinality(C)
  <2>1. Shaped(m) /\ Shaped(n)
    BY <1>0, <1>9, NetworkShaped
  <2>2. Same(m, n)
    BY <1>10, <1>11, <1>12, <2>1, SameAt
  <2> QED
    BY <1>4, <1>7, <1>9, <2>2
<1>14. ClusterUndone(b, Txn(n, C, u, p)) = m
  BY DEF ClusterUndone, Txn, m, q, S, x, N
<1> QED
  BY <1>13, <1>14 DEF b

----------------------------------------------------------------------------
(* What is measured of a network depends on its shape and its parts alone. *)
IsIso(h, m, n) ==
  /\ \A v \in Vertices(m) : h[v] \in Vertices(n) /\ n.part[h[v]] = m.part[v]
  /\ \A v, w \in Vertices(m) : h[v] = h[w] => v = w
  /\ \A x \in Vertices(n) : \E v \in Vertices(m) : x = h[v]
  /\ \A v \in Vertices(m) : v \in m.node <=> h[v] \in n.node
  /\ \A v \in m.node : /\ DOMAIN n.fanin[h[v]] = DOMAIN m.fanin[v]
                       /\ \A i \in DOMAIN m.fanin[v] : n.fanin[h[v]][i] = h[m.fanin[v][i]]

LEMMA IsoCuts ==
  ASSUME NEW m, NEW n, IsNetwork(m), IsNetwork(n), NEW h, IsIso(h, m, n)
  PROVE  CutEdges(m) = CutEdges(n) /\ CutNets(m) = CutNets(n)
<1>1. /\ \A v \in Vertices(m) : h[v] \in Vertices(n) /\ n.part[h[v]] = m.part[v]
      /\ \A v, w \in Vertices(m) : h[v] = h[w] => v = w
      /\ \A x \in Vertices(n) : \E v \in Vertices(m) : x = h[v]
      /\ \A v \in Vertices(m) : v \in m.node <=> h[v] \in n.node
  BY DEF IsIso
<1>2. \A v \in m.node : /\ DOMAIN n.fanin[h[v]] = DOMAIN m.fanin[v]
                        /\ \A i \in DOMAIN m.fanin[v] : n.fanin[h[v]][i] = h[m.fanin[v][i]]
  BY DEF IsIso
<1>3. /\ IsFiniteSet(CutSlots(m)) /\ IsFiniteSet(CutSlots(n))
      /\ m.node \subseteq Vertices(m) /\ n.node \subseteq Vertices(n)
      /\ \A v : Fanins(m, v) \subseteq Vertices(m)
  BY SlotsFinite, FaninsTyped DEF Vertices
<1>4. ASSUME NEW v \in m.node, NEW i \in DOMAIN m.fanin[v]
      PROVE  /\ <<v, i>> \in CutSlots(m) <=> <<h[v], i>> \in CutSlots(n)
             /\ Driver(n, <<h[v], i>>) = h[Driver(m, <<v, i>>)] /\ Driver(m, <<v, i>>) \in Vertices(m)
  <2>1. h[v] \in n.node /\ i \in DOMAIN n.fanin[h[v]]
    BY <1>1, <1>2, <1>3
  <2>2. <<v, i>> \in Slots(m) /\ <<h[v], i>> \in Slots(n)
    BY <2>1, SlotsFinite
  <2>3. Driver(m, <<v, i>>) \in Vertices(m) /\ Driver(n, <<h[v], i>>) = h[Driver(m, <<v, i>>)]
    BY <1>2, <1>3, <2>2, SlotsFinite DEF Driver
  <2>4. Crosses(m, Driver(m, <<v, i>>), v) <=> Crosses(n, Driver(n, <<h[v], i>>), h[v])
    BY <1>1, <1>3, <2>3 DEF Crosses
  <2> QED
    BY <2>2, <2>3, <2>4 DEF CutSlots
<1>5. \A t \in CutSlots(n) : \E s \in CutSlots(m) : t = <<h[s[1]], s[2]>>
  <2> TAKE t \in CutSlots(n)
  <2>1. t \in Slots(n)
    BY DEF CutSlots
  <2>2. t = <<t[1], t[2]>> /\ t[1] \in n.node /\ t[2] \in DOMAIN n.fanin[t[1]]
    BY <2>1, SlotsFinite
  <2>3. PICK v \in Vertices(m) : t[1] = h[v]
    BY <1>1, <1>3, <2>2
  <2>4. v \in m.node /\ t[2] \in DOMAIN m.fanin[v]
    BY <1>1, <1>2, <2>2, <2>3
  <2>5. <<v, t[2]>> \in CutSlots(m)
    BY <1>4, <2>2, <2>3, <2>4
  <2> QED
    BY <2>2, <2>3, <2>5
<1>6. \A s \in CutSlots(m) : /\ s = <<s[1], s[2]>> /\ s[1] \in m.node /\ s[2] \in DOMAIN m.fanin[s[1]]
                             /\ s[1] \in Vertices(m)
  BY <1>3, SlotsFinite DEF CutSlots
<1>7. CutEdges(m) = CutEdges(n)
  <2> DEFINE g == [s \in CutSlots(m) |-> <<h[s[1]], s[2]>>]
  <2>1. \A s \in CutSlots(m) : g[s] \in CutSlots(n)
    BY <1>4, <1>6
  <2>2. \A s, t \in CutSlots(m) : g[s] = g[t] => s = t
    BY <1>1, <1>6
  <2>3. \A t \in CutSlots(n) : \E s \in CutSlots(m) : t = g[s]
    BY <1>5
  <2> HIDE DEF g
  <2>4. Cardinality(CutSlots(m)) = Cardinality(CutSlots(n))
    BY <1>3, <2>1, <2>2, <2>3, OneEach
  <2> QED
    BY <2>4 DEF CutEdges
<1>8. CutNets(m) = CutNets(n)
  <2> DEFINE P == CutDrivers(m)
             Q == CutDrivers(n)
  <2>1. P \subseteq Vertices(m) /\ IsFiniteSet(P)
    BY CutsTyped, VerticesFinite, FS_Subset
  <2>2. \A u \in P : h[u] \in Q
    <3> TAKE u \in P
    <3>1. PICK s \in CutSlots(m) : u = Driver(m, s)
      BY DEF CutDrivers
    <3>2. <<h[s[1]], s[2]>> \in CutSlots(n) /\ Driver(n, <<h[s[1]], s[2]>>) = h[u]
      BY <1>4, <1>6, <3>1
    <3> QED
      BY <3>2 DEF CutDrivers
  <2>3. \A x \in Q : \E u \in P : x = h[u]
    <3> TAKE x \in Q
    <3>1. PICK t \in CutSlots(n) : x = Driver(n, t)
      BY DEF CutDrivers
    <3>2. PICK s \in CutSlots(m) : t = <<h[s[1]], s[2]>>
      BY <1>5
    <3>3. Driver(n, t) = h[Driver(m, s)]
      BY <1>4, <1>6, <3>2
    <3> QED
      BY <3>1, <3>3 DEF CutDrivers
  <2> HIDE DEF P, Q
  <2>4. \A v, w \in P : h[v] = h[w] => v = w
    BY <1>1, <2>1
  <2>5. Cardinality(P) = Cardinality(Q)
    BY <2>1, <2>2, <2>3, <2>4, OneEach
  <2> QED
    BY <2>5 DEF CutNets, P, Q
<1> QED
  BY <1>7, <1>8

LEMMA IsoSizes ==
  ASSUME NEW m, NEW n, IsNetwork(m), IsNetwork(n), NEW h, IsIso(h, m, n)
  PROVE  /\ Cardinality(m.node) = Cardinality(n.node)
         /\ \A parts \in Nat : Sizes(m, parts) = Sizes(n, parts)
<1>1. /\ \A v \in Vertices(m) : h[v] \in Vertices(n) /\ n.part[h[v]] = m.part[v]
      /\ \A v, w \in Vertices(m) : h[v] = h[w] => v = w
      /\ \A x \in Vertices(n) : \E v \in Vertices(m) : x = h[v]
      /\ \A v \in Vertices(m) : v \in m.node <=> h[v] \in n.node
  BY DEF IsIso
<1>2. IsFiniteSet(Vertices(m)) /\ m.node \subseteq Vertices(m) /\ n.node \subseteq Vertices(n)
  BY VerticesFinite DEF Vertices
<1>3. ASSUME NEW P \in SUBSET Vertices(m), NEW Q \in SUBSET Vertices(n),
             \A v \in Vertices(m) : v \in P <=> h[v] \in Q
      PROVE  Cardinality(P) = Cardinality(Q)
  <2>1. IsFiniteSet(P)
    BY <1>2, FS_Subset
  <2>2. \A u \in P : h[u] \in Q
    BY <1>3
  <2>3. \A x \in Q : \E u \in P : x = h[u]
    BY <1>1, <1>3
  <2>4. \A v, w \in P : h[v] = h[w] => v = w
    BY <1>1
  <2> QED
    BY <2>1, <2>2, <2>3, <2>4, OneEach
<1>4. Cardinality(m.node) = Cardinality(n.node)
  BY <1>1, <1>2, <1>3
<1>5. ASSUME NEW parts \in Nat
      PROVE  Sizes(m, parts) = Sizes(n, parts)
  <2>1. \A p \in 0 .. parts - 1 :
          Cardinality({v \in Vertices(m) : m.part[v] = p}) = Cardinality({v \in Vertices(n) : n.part[v] = p})
    <3> TAKE p \in 0 .. parts - 1
    <3> DEFINE P == {v \in Vertices(m) : m.part[v] = p}
               Q == {v \in Vertices(n) : n.part[v] = p}
    <3>1. P \in SUBSET Vertices(m) /\ Q \in SUBSET Vertices(n) /\ \A v \in Vertices(m) : v \in P <=> h[v] \in Q
      BY <1>1
    <3> HIDE DEF P, Q
    <3>2. Cardinality(P) = Cardinality(Q)
      BY <1>3, <3>1
    <3> QED
      BY <3>2 DEF P, Q
  <2> QED
    BY <2>1 DEF Sizes
<1> QED
  BY <1>4, <1>5

LEMMA IsoHops ==
  ASSUME NEW m, NEW n, WellFormed(m), WellFormed(n), NEW h, IsIso(h, m, n)
  PROVE  HopNum(m) = HopNum(n)
<1> DEFINE a == Arrival(m)
           b == Arrival(n)
           S == {v \in Vertices(m) : b[h[v]] = a[v]}
<1>0. IsNetwork(m) /\ Acyclic(m) /\ IsNetwork(n)
  BY DEF WellFormed
<1>1. /\ \A v \in Vertices(m) : h[v] \in Vertices(n) /\ n.part[h[v]] = m.part[v]
      /\ \A x \in Vertices(n) : \E v \in Vertices(m) : x = h[v]
      /\ \A v \in Vertices(m) : v \in m.node <=> h[v] \in n.node
  BY DEF IsIso
<1>2. \A v \in Vertices(m) : v \in m.pi <=> h[v] \in n.pi
  <2>1. m.pi \cap m.node = {} /\ n.pi \cap n.node = {}
    BY <1>0, NetworkIs
  <2> QED
    BY <1>1, <2>1 DEF Vertices
<1>3. ASSUME NEW v \in m.node
      PROVE  Fanins(n, h[v]) = {h[u] : u \in Fanins(m, v)} /\ Fanins(m, v) \subseteq Vertices(m)
  <2>1. h[v] \in n.node
    BY <1>1 DEF Vertices
  <2>2. /\ DOMAIN n.fanin[h[v]] = DOMAIN m.fanin[v]
        /\ \A i \in DOMAIN m.fanin[v] : n.fanin[h[v]][i] = h[m.fanin[v][i]]
    BY DEF IsIso
  <2>3. /\ Fanins(m, v) = {m.fanin[v][i] : i \in DOMAIN m.fanin[v]}
        /\ Fanins(n, h[v]) = {n.fanin[h[v]][i] : i \in DOMAIN m.fanin[v]}
    BY <2>1, <2>2 DEF Fanins, ToSet
  <2>4. Fanins(m, v) \subseteq Vertices(m)
    BY <1>0, FaninsTyped
  <2> QED
    BY <2>2, <2>3, <2>4
<1>4. \A v \in Vertices(m) : a[v] = ArrivalBody(m, a, v)
  BY ArrivalIs
<1>5. \A v \in Vertices(n) : b[v] = ArrivalBody(n, b, v)
  BY ArrivalIs
<1> HIDE DEF a, b
<1>6. ASSUME NEW v \in Vertices(m), Fanins(m, v) \subseteq S
      PROVE  v \in S
  <2>1. CASE v \in m.pi \/ m.part[v] = NoPart
    <3>1. ArrivalBody(m, a, v) = 0 /\ ArrivalBody(n, b, h[v]) = 0
      BY <1>1, <1>2, <2>1 DEF ArrivalBody
    <3> QED
      BY <1>1, <1>4, <1>5, <3>1
  <2>2. CASE ~(v \in m.pi \/ m.part[v] = NoPart)
    <3>1. v \in m.node
      BY <2>2 DEF Vertices
    <3>2. \A u \in Fanins(m, v) : b[h[u]] = a[u] /\ n.part[h[u]] = m.part[u]
      BY <1>1, <1>3, <1>6, <3>1
    <3>3. HopsTo(n, b, h[v]) = HopsTo(m, a, v)
      BY <1>1, <1>3, <3>1, <3>2 DEF HopsTo
    <3>5. ArrivalBody(m, a, v) = Max({0} \cup HopsTo(m, a, v))
      BY <1>0, <2>2, ArrivalBodyIs
    <3>6. ArrivalBody(n, b, h[v]) = Max({0} \cup HopsTo(n, b, h[v]))
      <4>1. h[v] \in Vertices(n) /\ ~(h[v] \in n.pi \/ n.part[h[v]] = NoPart)
        BY <1>1, <1>2, <2>2
      <4> QED
        BY <1>0, <4>1, ArrivalBodyIs
    <3>4. ArrivalBody(m, a, v) = ArrivalBody(n, b, h[v])
      BY ONLY <3>3, <3>5, <3>6
    <3> QED
      BY <1>1, <1>4, <1>5, <3>4
  <2> QED
    BY <2>1, <2>2
<1>7. \A v \in Vertices(m) : v \in S
  <2> HIDE DEF S
  <2> QED
    BY <1>0, <1>6, FromFanins
<1>8. {a[v] : v \in m.node} = {b[v] : v \in n.node}
  <2>1. m.node \subseteq Vertices(m) /\ n.node \subseteq Vertices(n)
    BY DEF Vertices
  <2>2. \A v \in m.node : h[v] \in n.node /\ b[h[v]] = a[v]
    BY <1>1, <1>7, <2>1
  <2>3. \A x \in n.node : \E v \in m.node : x = h[v]
    BY <1>1, <2>1
  <2> QED
    BY <2>2, <2>3
<1> QED
  BY <1>8 DEF HopNum, a, b

(* Measures that agree *)
Alike(m, n) ==
  /\ CutEdges(m) = CutEdges(n) /\ CutNets(m) = CutNets(n) /\ HopNum(m) = HopNum(n)
  /\ Cardinality(m.node) = Cardinality(n.node)
  /\ \A parts \in Nat : Sizes(m, parts) = Sizes(n, parts)

LEMMA IsoAlike ==
  ASSUME NEW m, NEW n, WellFormed(m), WellFormed(n), NEW h, IsIso(h, m, n)
  PROVE  Alike(m, n)
BY IsoCuts, IsoSizes, IsoHops DEF Alike, WellFormed

LEMMA AlikeWithin ==
  ASSUME NEW m, NEW n, Alike(m, n), NEW l, l.parts \in Nat
  PROVE  Within(m, l) <=> Within(n, l)
<1>1. Sizes(m, l.parts) = Sizes(n, l.parts)
  BY DEF Alike
<1>2. Overflow(m, l) = Overflow(n, l)
  BY <1>1 DEF Overflow
<1> QED
  BY <1>2 DEF Within, HopHolds, BalanceHolds, Alike

LEMMA SameWellFormed ==
  ASSUME NEW m, NEW n, Same(m, n), WellFormed(n), m.max \in Nat, m.max >= n.max
  PROVE  WellFormed(m)
<1>1. IsNetwork(n) /\ Acyclic(n)
  BY DEF WellFormed
<1>2. m.node = n.node /\ m.fanin = n.fanin
  BY DEF Same
<1> QED
  BY <1>1, <1>2, SameNetwork, AcyclicSame DEF WellFormed

LEMMA SameAlike ==
  ASSUME NEW m, NEW n, Same(m, n), WellFormed(m), WellFormed(n)
  PROVE  Alike(m, n)
<1> DEFINE h == [v \in Vertices(m) |-> v]
<1>1. /\ m.pi = n.pi /\ m.node = n.node /\ m.fanin = n.fanin /\ m.part = n.part
      /\ Vertices(m) = Vertices(n)
  BY DEF Same, Vertices
<1>2. \A v \in m.node : \A i \in DOMAIN m.fanin[v] : m.fanin[v][i] \in Vertices(m)
  BY Typed DEF WellFormed
<1>3. m.node \subseteq Vertices(m)
  BY DEF Vertices
<1>4. IsIso(h, m, n)
  BY <1>1, <1>2, <1>3 DEF IsIso
<1> HIDE DEF h
<1> QED
  BY <1>4, IsoAlike

----------------------------------------------------------------------------
(* The numbers that are used up do not change what building a cluster brings. *)
LEMMA RanksSame ==
  ASSUME NEW m, NEW n, Same(m, n), WellFormed(m), WellFormed(n)
  PROVE  \A v \in Vertices(n) : Ranks(m)[v] = Ranks(n)[v]
<1> DEFINE r == Ranks(m)
           q == Ranks(n)
           S == {v \in Vertices(n) : r[v] = q[v]}
<1>0. IsNetwork(n) /\ Acyclic(n)
  BY DEF WellFormed
<1>1. Vertices(m) = Vertices(n) /\ \A v : Fanins(m, v) = Fanins(n, v)
  BY DEF Same, Vertices, Fanins
<1>2. \A v \in Vertices(n) : r[v] = RankBody(m, r, v) /\ q[v] = RankBody(n, q, v)
  BY <1>1, RanksAre
<1> HIDE DEF r, q
<1>3. ASSUME NEW v \in Vertices(n), Fanins(n, v) \subseteq S
      PROVE  v \in S
  <2>1. RankBody(n, r, v) = RankBody(n, q, v)
    BY <1>3, RankBodySame
  <2>2. RankBody(m, r, v) = RankBody(n, r, v)
    BY <1>1 DEF RankBody
  <2> QED
    BY <1>2, <2>1, <2>2
<1>4. \A v \in Vertices(n) : v \in S
  <2> HIDE DEF S
  <2> QED
    BY <1>0, <1>3, FromFanins
<1> QED
  BY <1>4 DEF r, q

LEMMA DupsShifted ==
  ASSUME NEW m, NEW n, Same(m, n), WellFormed(m), WellFormed(n), NEW C \in SUBSET n.node
  PROVE  \A v \in C : DupOf(m, C, v) - m.max = DupOf(n, C, v) - n.max
<1>1. m.node = n.node /\ n.node \subseteq Vertices(n) /\ m.max \in Nat /\ n.max \in Nat
  BY NetworkIs DEF Same, Vertices, WellFormed
<1>2. \A v \in C : Ranks(m)[v] = Ranks(n)[v]
  BY <1>1, RanksSame
<1>3. FaninsFirst(m, C) = FaninsFirst(n, C)
  <2>1. FaninsFirst(m, C) =
          {e \in C \X C : Ranks(m)[e[1]] < Ranks(m)[e[2]] \/ (Ranks(m)[e[1]] = Ranks(m)[e[2]] /\ e[1] < e[2])}
    BY DEF FaninsFirst, Ranks, RankBody
  <2>2. FaninsFirst(n, C) =
          {e \in C \X C : Ranks(n)[e[1]] < Ranks(n)[e[2]] \/ (Ranks(n)[e[1]] = Ranks(n)[e[2]] /\ e[1] < e[2])}
    BY DEF FaninsFirst, Ranks, RankBody
  <2>3. \A e \in C \X C : Ranks(m)[e[1]] = Ranks(n)[e[1]] /\ Ranks(m)[e[2]] = Ranks(n)[e[2]]
    BY <1>2
  <2> QED
    BY <2>1, <2>2, <2>3
<1>4. ASSUME NEW v \in C
      PROVE  DupOf(m, C, v) - m.max = DupOf(n, C, v) - n.max
  <2> DEFINE k == Earlier(v, C, FaninsFirst(n, C))
  <2>1. IsFiniteSet(C) /\ Orders(FaninsFirst(n, C), C)
    BY DupsAre, FaninsFirstOrders
  <2>2. k \in 0 .. Cardinality(C) - 1
    BY <2>1, EarlierCounts
  <2>3. DupOf(m, C, v) = m.max + k /\ DupOf(n, C, v) = n.max + k
    BY <1>3 DEF DupOf
  <2> HIDE DEF k
  <2>4. Cardinality(C) \in Nat
    BY DupsAre
  <2> QED
    BY <1>1, <2>2, <2>3, <2>4
<1> QED
  BY <1>4

LEMMA BuiltAlike ==
  ASSUME NEW m, NEW n, Same(m, n), WellFormed(m), WellFormed(n),
         NEW C \in SUBSET n.node, NEW u \in C, NEW p \in Nat \cup {NoPart}
  PROVE  Alike(Built(m, C, u, p), Built(n, C, u, p))
<1> DEFINE a == Built(m, C, u, p)
           b == Built(n, C, u, p)
           h == [v \in Vertices(a) |-> IF v \in Vertices(n) THEN v ELSE v - m.max + n.max]
<1>1. /\ m.node = n.node /\ m.fanin = n.fanin /\ m.truth = n.truth /\ m.part = n.part
      /\ m.pi = n.pi /\ Vertices(m) = Vertices(n)
  BY DEF Same, Vertices
<1>2. C \in SUBSET m.node
  BY <1>1
<1>3. IsBuilt(a, m, C, u, p) /\ IsBuilt(b, n, C, u, p) /\ WellFormed(a) /\ WellFormed(b)
  BY <1>2, BuiltIs, BuiltWellFormed
<1> HIDE DEF a, b
<1>4. /\ a.node = n.node \cup NewIds(m, C) /\ Vertices(a) = Vertices(n) \cup NewIds(m, C)
      /\ \A v \in Vertices(n) : a.part[v] = n.part[v]
      /\ \A v \in n.node :
           /\ DOMAIN a.fanin[v] = DOMAIN n.fanin[v]
           /\ \A i \in DOMAIN n.fanin[v] :
                a.fanin[v][i] = IF n.part[v] = p /\ n.fanin[v][i] = u THEN DupOf(m, C, u) ELSE n.fanin[v][i]
  BY <1>1, <1>3 DEF IsBuilt
<1>5. \A v \in C :
        /\ a.part[DupOf(m, C, v)] = p /\ DOMAIN a.fanin[DupOf(m, C, v)] = DOMAIN n.fanin[v]
        /\ \A i \in DOMAIN n.fanin[v] :
             a.fanin[DupOf(m, C, v)][i] =
               IF n.fanin[v][i] \in C THEN DupOf(m, C, n.fanin[v][i]) ELSE n.fanin[v][i]
  BY <1>1, <1>3 DEF IsBuilt
<1>6. /\ b.node = n.node \cup NewIds(n, C) /\ Vertices(b) = Vertices(n) \cup NewIds(n, C)
      /\ \A v \in Vertices(n) : b.part[v] = n.part[v]
      /\ \A v \in n.node :
           /\ DOMAIN b.fanin[v] = DOMAIN n.fanin[v]
           /\ \A i \in DOMAIN n.fanin[v] :
                b.fanin[v][i] = IF n.part[v] = p /\ n.fanin[v][i] = u THEN DupOf(n, C, u) ELSE n.fanin[v][i]
  BY <1>3 DEF IsBuilt
<1>7. \A v \in C :
        /\ b.part[DupOf(n, C, v)] = p /\ DOMAIN b.fanin[DupOf(n, C, v)] = DOMAIN n.fanin[v]
        /\ \A i \in DOMAIN n.fanin[v] :
             b.fanin[DupOf(n, C, v)][i] =
               IF n.fanin[v][i] \in C THEN DupOf(n, C, n.fanin[v][i]) ELSE n.fanin[v][i]
  BY <1>3 DEF IsBuilt
<1>8. /\ \A v \in C : DupOf(m, C, v) \in NewIds(m, C) /\ DupOf(m, C, v) \in Nat
      /\ \A x \in NewIds(m, C) : \E v \in C : x = DupOf(m, C, v)
      /\ NewIds(m, C) \cap Vertices(n) = {}
  BY <1>1, <1>2, DupsAre
<1>9. /\ \A v \in C : DupOf(n, C, v) \in NewIds(n, C) /\ DupOf(n, C, v) \in Nat
      /\ \A v, w \in C : DupOf(n, C, v) = DupOf(n, C, w) => v = w
      /\ \A x \in NewIds(n, C) : \E v \in C : x = DupOf(n, C, v)
      /\ NewIds(n, C) \cap Vertices(n) = {}
  BY DupsAre
<1>10. n.max \in Nat /\ m.max \in Nat /\ n.node \subseteq Vertices(n)
  BY NetworkIs DEF WellFormed, Vertices
<1>11. \A v \in Vertices(n) : v \in Vertices(a) /\ h[v] = v
  BY <1>4
<1>12. ASSUME NEW v \in C
       PROVE  h[DupOf(m, C, v)] = DupOf(n, C, v)
  <2>1. DupOf(m, C, v) \in Vertices(a) /\ DupOf(m, C, v) \notin Vertices(n)
    BY <1>4, <1>8
  <2>2. h[DupOf(m, C, v)] = DupOf(m, C, v) - m.max + n.max
    BY <2>1
  <2>3. DupOf(m, C, v) - m.max = DupOf(n, C, v) - n.max
    BY DupsShifted
  <2> QED
    BY <1>8, <1>9, <1>10, <2>2, <2>3
<1> HIDE DEF h
<1>13. \A v \in Vertices(a) : v \in Vertices(n) \/ \E w \in C : v = DupOf(m, C, w)
  BY <1>4, <1>8
<1>14. \A v \in Vertices(a) : h[v] \in Vertices(b) /\ b.part[h[v]] = a.part[v]
  BY <1>4, <1>5, <1>6, <1>7, <1>9, <1>11, <1>12, <1>13
<1>15. ASSUME NEW v \in Vertices(a), NEW w \in Vertices(a), h[v] = h[w]
       PROVE  v = w
  <2>1. CASE v \in Vertices(n) /\ w \in Vertices(n)
    BY <1>11, <1>15, <2>1
  <2>2. CASE v \in Vertices(n) /\ w \notin Vertices(n)
    BY <1>9, <1>11, <1>12, <1>13, <1>15, <2>2
  <2>3. CASE v \notin Vertices(n) /\ w \in Vertices(n)
    BY <1>9, <1>11, <1>12, <1>13, <1>15, <2>3
  <2>4. CASE v \notin Vertices(n) /\ w \notin Vertices(n)
    BY <1>9, <1>12, <1>13, <1>15, <2>4
  <2> QED
    BY <2>1, <2>2, <2>3, <2>4
<1>16. \A x \in Vertices(b) : \E v \in Vertices(a) : x = h[v]
  <2> TAKE x \in Vertices(b)
  <2>1. CASE x \in Vertices(n)
    BY <1>11, <2>1
  <2>2. CASE x \notin Vertices(n)
    <3>1. PICK w \in C : x = DupOf(n, C, w)
      BY <1>6, <1>9, <2>2
    <3> QED
      BY <1>4, <1>8, <1>12, <3>1
  <2> QED
    BY <2>1, <2>2
<1>17. \A v \in Vertices(a) : v \in a.node <=> h[v] \in b.node
  <2> TAKE v \in Vertices(a)
  <2>1. CASE v \in Vertices(n)
    BY <1>4, <1>6, <1>8, <1>9, <1>11, <2>1
  <2>2. CASE v \notin Vertices(n)
    BY <1>4, <1>6, <1>8, <1>9, <1>12, <1>13, <2>2
  <2> QED
    BY <2>1, <2>2
<1>18. ASSUME NEW v \in a.node
       PROVE  /\ DOMAIN b.fanin[h[v]] = DOMAIN a.fanin[v]
              /\ \A i \in DOMAIN a.fanin[v] : b.fanin[h[v]][i] = h[a.fanin[v][i]]
  <2>1. CASE v \in n.node
    <3>1. h[v] = v /\ \A i \in DOMAIN n.fanin[v] : n.fanin[v][i] \in Vertices(n)
      BY <1>10, <1>11, <2>1, Typed DEF WellFormed
    <3>2. DOMAIN b.fanin[h[v]] = DOMAIN a.fanin[v] /\ DOMAIN a.fanin[v] = DOMAIN n.fanin[v]
      BY <1>4, <1>6, <2>1, <3>1
    <3>3. ASSUME NEW i \in DOMAIN n.fanin[v]
          PROVE  b.fanin[v][i] = h[a.fanin[v][i]]
      <4>1. CASE n.part[v] = p /\ n.fanin[v][i] = u
        BY <1>4, <1>6, <1>12, <2>1, <4>1
      <4>2. CASE ~(n.part[v] = p /\ n.fanin[v][i] = u)
        <5>1. a.fanin[v][i] = n.fanin[v][i] /\ b.fanin[v][i] = n.fanin[v][i]
          BY <1>4, <1>6, <2>1, <4>2
        <5> QED
          BY <1>11, <3>1, <5>1
      <4> QED
        BY <4>1, <4>2
    <3> QED
      BY <3>1, <3>2, <3>3
  <2>2. CASE v \notin n.node
    <3>1. PICK w \in C : v = DupOf(m, C, w)
      BY <1>4, <1>8, <2>2
    <3>2. h[v] = DupOf(n, C, w) /\ \A i \in DOMAIN n.fanin[w] : n.fanin[w][i] \in Vertices(n)
      BY <1>12, <3>1, Typed DEF WellFormed
    <3>3. DOMAIN b.fanin[h[v]] = DOMAIN a.fanin[v] /\ DOMAIN a.fanin[v] = DOMAIN n.fanin[w]
      BY <1>5, <1>7, <3>1, <3>2
    <3>4. ASSUME NEW i \in DOMAIN n.fanin[w]
          PROVE  b.fanin[h[v]][i] = h[a.fanin[v][i]]
      <4>1. CASE n.fanin[w][i] \in C
        BY <1>5, <1>7, <1>12, <3>1, <3>2, <4>1
      <4>2. CASE n.fanin[w][i] \notin C
        <5>1. a.fanin[v][i] = n.fanin[w][i] /\ b.fanin[h[v]][i] = n.fanin[w][i]
          BY <1>5, <1>7, <3>1, <3>2, <4>2
        <5> QED
          BY <1>11, <3>2, <5>1
      <4> QED
        BY <4>1, <4>2
    <3> QED
      BY <3>3, <3>4
  <2> QED
    BY <2>1, <2>2
<1>19. IsIso(h, a, b)
  BY <1>14, <1>15, <1>16, <1>17, <1>18 DEF IsIso
<1>20. Alike(a, b)
  BY <1>3, <1>19, IsoAlike
<1> QED
  BY <1>20 DEF a, b

----------------------------------------------------------------------------
(* The order of tuples of integers *)
LEMMA BeforeNever == ASSUME NEW s \in Seq(Int) PROVE ~Before(s, s)
BY DEF Before

LEMMA BeforeOnward ==
  ASSUME NEW s \in Seq(Int), NEW t \in Seq(Int), NEW u \in Seq(Int), Before(s, t), Before(t, u)
  PROVE  Before(s, u)
<1>1. PICK k \in 1 .. Len(t) : /\ \A i \in 1 .. k - 1 : i <= Len(s) /\ s[i] = t[i]
                               /\ k > Len(s) \/ s[k] < t[k]
  BY DEF Before
<1>2. PICK j \in 1 .. Len(u) : /\ \A i \in 1 .. j - 1 : i <= Len(t) /\ t[i] = u[i]
                               /\ j > Len(t) \/ t[j] < u[j]
  BY DEF Before
<1>3. /\ Len(s) \in Nat /\ Len(t) \in Nat /\ Len(u) \in Nat /\ k \in Nat /\ j \in Nat
      /\ \A i \in 1 .. Len(s) : s[i] \in Int
      /\ \A i \in 1 .. Len(t) : t[i] \in Int
      /\ \A i \in 1 .. Len(u) : u[i] \in Int
  OBVIOUS
<1>4. CASE k < j
  <2>1. k \in 1 .. Len(u) /\ k \in 1 .. j - 1
    BY <1>3, <1>4
  <2>2. t[k] = u[k]
    BY <1>2, <2>1
  <2>3. \A i \in 1 .. k - 1 : i \in 1 .. j - 1
    BY <1>3, <1>4
  <2>4. \A i \in 1 .. k - 1 : i <= Len(s) /\ s[i] = u[i]
    BY <1>1, <1>2, <2>3
  <2>5. k > Len(s) \/ s[k] < u[k]
    BY <1>1, <2>2
  <2> QED
    BY <2>1, <2>4, <2>5 DEF Before
<1>5. CASE j <= k
  <2>1. \A i \in 1 .. j - 1 : i \in 1 .. k - 1
    BY <1>3, <1>5
  <2>2. \A i \in 1 .. j - 1 : i <= Len(s) /\ s[i] = u[i]
    BY <1>1, <1>2, <2>1
  <2>3. j \in 1 .. Len(t) /\ t[j] < u[j]
    <3>1. j \in 1 .. Len(t)
      BY <1>3, <1>5
    <3> QED
      BY <1>2, <1>3, <3>1
  <2>4. j > Len(s) \/ s[j] < u[j]
    <3>1. CASE j = k
      <4>1. CASE k > Len(s)
        BY <3>1, <4>1
      <4>2. CASE ~(k > Len(s))
        <5>1. s[j] < t[j] /\ j \in 1 .. Len(s)
          BY <1>1, <1>3, <2>3, <3>1, <4>2
        <5>2. s[j] \in Int /\ t[j] \in Int /\ u[j] \in Int
          BY <1>3, <2>3, <5>1
        <5> QED
          BY <2>3, <5>1, <5>2
      <4> QED
        BY <4>1, <4>2
    <3>2. CASE j < k
      <4>1. j \in 1 .. k - 1
        BY <1>3, <3>2
      <4>2. s[j] = t[j]
        BY <1>1, <4>1
      <4> QED
        BY <2>3, <4>2
    <3> QED
      BY <1>3, <1>5, <3>1, <3>2
  <2> QED
    BY <2>2, <2>4 DEF Before
<1> QED
  BY <1>3, <1>4, <1>5

LEMMA BeforeEither ==
  ASSUME NEW s \in Seq(Int), NEW t \in Seq(Int), s # t
  PROVE  Before(s, t) \/ Before(t, s)
<1> DEFINE D == {i \in 1 .. Len(s) : i <= Len(t) /\ s[i] # t[i]}
<1>0. Len(s) \in Nat /\ Len(t) \in Nat
  OBVIOUS
<1>1. CASE D = {}
  <2>0. \A i \in 1 .. Len(s) : i <= Len(t) => s[i] = t[i]
    BY <1>1
  <2>1. CASE Len(s) = Len(t)
    <3>1. \A i \in 1 .. Len(s) : s[i] = t[i]
      BY <1>0, <2>0, <2>1
    <3> QED
      BY <2>1, <3>1
  <2>2. CASE Len(s) < Len(t)
    <3>1. Len(s) + 1 \in 1 .. Len(t)
      BY <1>0, <2>2
    <3> DEFINE j == Len(s) + 1
    <3>2. j \in 1 .. Len(t) /\ j > Len(s)
      BY <1>0, <3>1
    <3>3. \A i \in 1 .. j - 1 : i <= Len(s) /\ s[i] = t[i]
      BY <1>0, <2>0, <2>2
    <3> HIDE DEF j
    <3>4. Before(s, t)
      BY <3>2, <3>3 DEF Before
    <3> QED
      BY <3>4
  <2>3. CASE Len(t) < Len(s)
    <3>1. Len(t) + 1 \in 1 .. Len(s)
      BY <1>0, <2>3
    <3> DEFINE j == Len(t) + 1
    <3>2. j \in 1 .. Len(s) /\ j > Len(t)
      BY <1>0, <3>1
    <3>3. \A i \in 1 .. j - 1 : i <= Len(t) /\ t[i] = s[i]
      BY <1>0, <2>0, <2>3
    <3> HIDE DEF j
    <3>4. Before(t, s)
      BY <3>2, <3>3 DEF Before
    <3> QED
      BY <3>4
  <2> QED
    BY <1>0, <2>1, <2>2, <2>3
<1>2. CASE D # {}
  <2>1. PICK k \in D : \A i \in D : k <= i
    <3>1. D \in SUBSET Nat
      OBVIOUS
    <3> HIDE DEF D
    <3> QED
      BY <1>2, <3>1, LeastNatural
  <2>2. k \in 1 .. Len(s) /\ k \in 1 .. Len(t) /\ s[k] # t[k] /\ s[k] \in Int /\ t[k] \in Int
    BY <1>0
  <2>3. \A i \in 1 .. k - 1 : i <= Len(s) /\ i <= Len(t) /\ s[i] = t[i]
    <3> TAKE i \in 1 .. k - 1
    <3>1. i \in 1 .. Len(s) /\ i <= Len(t) /\ i < k /\ i \in Nat /\ k \in Nat
      BY <1>0, <2>2
    <3>2. i \notin D
      BY <2>1, <3>1
    <3> QED
      BY <3>1, <3>2
  <2>4. s[k] < t[k] \/ t[k] < s[k]
    BY <2>2
  <2> QED
    BY <2>2, <2>3, <2>4 DEF Before
<1> QED
  BY <1>1, <1>2

(* Some element of a finite set comes before none of the others. *)
LEMMA FirstByIs ==
  ASSUME NEW key, IsFiniteSet(DOMAIN key), DOMAIN key # {}, \A a \in DOMAIN key : key[a] \in Seq(Int)
  PROVE  FirstBy(key) \in DOMAIN key /\ \A b \in DOMAIN key : ~Before(key[b], key[FirstBy(key)])
<1> DEFINE S == DOMAIN key
           IsFirst(T) == \E a \in T : \A b \in T : ~Before(key[b], key[a])
           I == {T \in SUBSET S : T # {} => IsFirst(T)}
<1>1. ASSUME NEW T \in SUBSET S, \A x \in T : T \ {x} \in I
      PROVE  T \in I
  <2> SUFFICES ASSUME T # {} PROVE IsFirst(T)
    OBVIOUS
  <2>1. PICK x \in T : TRUE
    OBVIOUS
  <2>2. CASE T \ {x} = {}
    <3>1. T = {x} /\ key[x] \in Seq(Int)
      BY <2>2
    <3> QED
      BY <3>1, BeforeNever
  <2>3. CASE T \ {x} # {}
    <3>1. PICK a \in T \ {x} : \A b \in T \ {x} : ~Before(key[b], key[a])
      BY <1>1, <2>3
    <3>2. key[x] \in Seq(Int) /\ key[a] \in Seq(Int)
      OBVIOUS
    <3>3. CASE Before(key[x], key[a])
      <4>1. \A b \in T : ~Before(key[b], key[x])
        <5> SUFFICES ASSUME NEW b \in T, Before(key[b], key[x]) PROVE FALSE
          OBVIOUS
        <5>1. key[b] \in Seq(Int)
          OBVIOUS
        <5>2. b # x
          BY <3>2, BeforeNever
        <5>3. Before(key[b], key[a])
          BY <3>2, <3>3, <5>1, BeforeOnward
        <5> QED
          BY <3>1, <5>2, <5>3
      <4> QED
        BY <4>1
    <3>4. CASE ~Before(key[x], key[a])
      BY <3>1, <3>4
    <3> QED
      BY <3>3, <3>4
  <2> QED
    BY <2>2, <2>3
<1>2. \A T \in SUBSET S : T \in I
  <2> HIDE DEF I
  <2> QED
    BY <1>1, AllSubsets
<1>3. \E a \in S : \A b \in S : ~Before(key[b], key[a])
  BY <1>2
<1> QED
  BY <1>3 DEF FirstBy

(* The first k are at most k. *)
LEMMA FirstsByFew ==
  ASSUME NEW key, IsFiniteSet(DOMAIN key), \A a \in DOMAIN key : key[a] \in Seq(Int),
         \A a, b \in DOMAIN key : key[a] = key[b] => a = b, NEW k \in Nat
  PROVE  /\ FirstsBy(key, k) \subseteq DOMAIN key
         /\ Cardinality(FirstsBy(key, k)) <= k
<1> DEFINE S == DOMAIN key
           R == {e \in S \X S : Before(key[e[1]], key[e[2]])}
           F == FirstsBy(key, k)
<1>1. \A x, y \in S : <<x, y>> \in R <=> Before(key[x], key[y])
  OBVIOUS
<1> HIDE DEF R
<1>2. Orders(R, S)
  <2>1. \A x \in S : <<x, x>> \notin R
    BY <1>1, BeforeNever
  <2>2. \A x, y \in S : x = y \/ <<x, y>> \in R \/ <<y, x>> \in R
    BY <1>1, BeforeEither
  <2>3. \A x, y, z \in S : <<x, y>> \in R /\ <<y, z>> \in R => <<x, z>> \in R
    BY <1>1, BeforeOnward
  <2> QED
    BY <2>1, <2>2, <2>3 DEF Orders
<1>3. ASSUME NEW x \in S
      PROVE  x \in F <=> Earlier(x, S, R) < k
  <2>1. {b \in S : Before(key[b], key[x])} = {y \in S : <<y, x>> \in R}
    BY <1>1
  <2> QED
    BY <2>1 DEF Earlier, FirstsBy
<1>4. F \subseteq S
  BY DEF FirstsBy
<1> HIDE DEF F, S
<1> DEFINE g == [x \in F |-> Earlier(x, S, R)]
           N == 0 .. k - 1
<1>5. IsFiniteSet(S) /\ IsFiniteSet(N) /\ Cardinality(N) = k
  <2>1. IsFiniteSet(S)
    BY DEF S
  <2> QED
    BY <2>1, FS_Interval
<1>6. g \in Injection(F, N)
  <2>1. \A x \in F : g[x] \in N
    <3> TAKE x \in F
    <3>1. x \in S /\ Earlier(x, S, R) < k
      BY <1>3, <1>4
    <3>2. Earlier(x, S, R) \in Nat
      <4>1. Earlier(x, S, R) \in 0 .. Cardinality(S) - 1
        BY <1>2, <1>5, <3>1, EarlierCounts
      <4> QED
        BY <4>1
    <3> QED
      BY <3>1, <3>2
  <2>2. \A x, y \in F : g[x] = g[y] => x = y
    <3> SUFFICES ASSUME NEW x \in F, NEW y \in F, g[x] = g[y] PROVE x = y
      OBVIOUS
    <3>1. x \in S /\ y \in S /\ Earlier(x, S, R) = Earlier(y, S, R)
      BY <1>4
    <3> QED
      BY <1>2, <1>5, <3>1, EarlierInjective
  <2> HIDE DEF N
  <2> QED
    BY <2>1, <2>2 DEF Injection, IsInjective
<1>7. Cardinality(F) <= k
  <2> HIDE DEF g, N
  <2>1. Cardinality(F) <= Cardinality(N)
    BY <1>5, <1>6, FS_Injection
  <2> QED
    BY <1>5, <2>1
<1> QED
  BY <1>4, <1>7 DEF F, S

----------------------------------------------------------------------------
(* Sequences of relocations *)
IsLog(n, steps) ==
  /\ steps \in Seq([node : n.node, from : Nat, to : Nat])
  /\ \A i \in DOMAIN steps : steps[i].from = n.part[steps[i].node]
  /\ \A i, j \in DOMAIN steps : steps[i].node = steps[j].node => i = j

LEMMA StepOf ==
  ASSUME NEW n, NEW steps, IsLog(n, steps), NEW i \in DOMAIN steps
  PROVE  /\ StepsOf(steps, steps[i].node) # {} /\ Max(StepsOf(steps, steps[i].node)) = i
         /\ Min(StepsOf(steps, steps[i].node)) = i
         /\ steps[i].to \in Nat /\ steps[i].node \in n.node /\ steps[i].node \in Vertices(n)
<1>1. StepsOf(steps, steps[i].node) = {i}
  BY DEF StepsOf, IsLog
<1>2. i \in Nat /\ steps[i].to \in Nat /\ steps[i].node \in n.node
  <2> DEFINE R == [node : n.node, from : Nat, to : Nat]
  <2>1. \A r \in R : r.to \in Nat /\ r.node \in n.node
    OBVIOUS
  <2>2. steps \in Seq(R)
    BY DEF IsLog
  <2> HIDE DEF R
  <2>3. steps[i] \in R /\ i \in Nat
    BY <2>2
  <2> QED
    BY <2>1, <2>3
<1>3. Max({i}) = i /\ Min({i}) = i
  BY <1>2 DEF Max, Min
<1> QED
  BY <1>1, <1>2, <1>3 DEF Vertices

LEMMA RelocatedIs ==
  ASSUME NEW n, WellFormed(n), NEW steps, IsLog(n, steps), NEW m, m = Relocated(n, steps)
  PROVE  /\ WellFormed(m) /\ IsReparted(m, n) /\ Vertices(m) = Vertices(n)
         /\ \A i \in DOMAIN steps : m.part[steps[i].node] = steps[i].to
         /\ \A v \in Vertices(n) : (\A i \in DOMAIN steps : steps[i].node # v) => m.part[v] = n.part[v]
<1> DEFINE q == [v \in Vertices(n) |-> IF StepsOf(steps, v) = {} THEN n.part[v]
                                       ELSE steps[Max(StepsOf(steps, v))].to]
<1>0. DOMAIN n = Fields /\ DOMAIN n.part = Vertices(n) /\ \A w \in Vertices(n) : n.part[w] \in Nat \cup {NoPart}
  BY NetworkFields, NetworkIs DEF WellFormed
<1>1. \A i \in DOMAIN steps : q[steps[i].node] = steps[i].to
  BY StepOf
<1>2. \A v \in Vertices(n) : (\A i \in DOMAIN steps : steps[i].node # v) => q[v] = n.part[v]
  BY DEF StepsOf
<1>3. q \in [Vertices(n) -> Nat \cup {NoPart}]
  <2>1. \A v \in Vertices(n) : q[v] \in Nat \cup {NoPart}
    <3> TAKE v \in Vertices(n)
    <3>1. CASE \A i \in DOMAIN steps : steps[i].node # v
      <4>1. q[v] = n.part[v]
        BY <1>2, <3>1
      <4> HIDE DEF q
      <4> QED
        BY <1>0, <4>1
    <3>2. CASE ~(\A i \in DOMAIN steps : steps[i].node # v)
      <4>1. PICK i \in DOMAIN steps : steps[i].node = v
        BY <3>2
      <4>2. q[v] = steps[i].to /\ steps[i].to \in Nat
        BY <1>1, <4>1, StepOf
      <4> HIDE DEF q
      <4> QED
        BY <4>2
    <3> QED
      BY <3>1, <3>2
  <2>2. q = [v \in Vertices(n) |-> q[v]]
    OBVIOUS
  <2> HIDE DEF q
  <2> QED
    BY <2>1, <2>2
<1>4. m = [n EXCEPT !.part = q]
  BY <1>0 DEF Relocated, Fields
<1> HIDE DEF q
<1>5. WellFormed(m) /\ IsReparted(m, n) /\ m.part = q /\ Vertices(m) = Vertices(n)
  BY <1>3, <1>4, RepartedIs
<1> QED
  BY <1>1, <1>2, <1>5

LEMMA RelocationUndoneIs ==
  ASSUME NEW n, WellFormed(n), NEW steps, IsLog(n, steps)
  PROVE  RelocationUndone(Relocated(n, steps), steps) = n
<1> DEFINE m == Relocated(n, steps)
           k == RelocationUndone(m, steps)
           q == [v \in Vertices(n) |-> IF StepsOf(steps, v) = {} THEN m.part[v]
                                       ELSE steps[Min(StepsOf(steps, v))].from]
<1>1. /\ WellFormed(m) /\ IsReparted(m, n) /\ Vertices(m) = Vertices(n)
      /\ \A v \in Vertices(n) : (\A i \in DOMAIN steps : steps[i].node # v) => m.part[v] = n.part[v]
  BY RelocatedIs
<1> HIDE DEF m
<1>2. DOMAIN m = Fields /\ DOMAIN m.part = Vertices(n)
  BY <1>1, NetworkFields DEF WellFormed
<1>3. \A v \in Vertices(n) : q[v] = n.part[v]
  <2> TAKE v \in Vertices(n)
  <2>1. CASE \A i \in DOMAIN steps : steps[i].node # v
    <3>1. StepsOf(steps, v) = {}
      BY <2>1 DEF StepsOf
    <3> QED
      BY <1>1, <2>1, <3>1
  <2>2. CASE ~(\A i \in DOMAIN steps : steps[i].node # v)
    <3>1. PICK i \in DOMAIN steps : steps[i].node = v
      BY <2>2
    <3>2. StepsOf(steps, v) # {} /\ Min(StepsOf(steps, v)) = i
      BY <3>1, StepOf
    <3> QED
      BY <3>1, <3>2 DEF IsLog
  <2> QED
    BY <2>1, <2>2
<1>4. k = [m EXCEPT !.part = q]
  BY <1>2 DEF RelocationUndone, Fields
<1>5. n.part = [v \in Vertices(n) |-> n.part[v]] /\ n.part \in [Vertices(n) -> Nat \cup {NoPart}]
  BY DEF WellFormed, IsNetwork
<1>6. q = n.part
  BY <1>3, <1>5
<1> HIDE DEF q, k
<1>7. IsReparted(k, m) /\ k.part = n.part
  BY <1>1, <1>4, <1>5, <1>6, RepartedIs
<1>8. IsReparted(k, n) /\ IsReparted(n, n)
  BY <1>1, <1>7 DEF IsReparted, WellFormed
<1>9. k = n
  BY <1>7, <1>8, SameParts
<1> QED
  BY <1>9 DEF k, m

LEMMA RelocatedFurther ==
  ASSUME NEW n, WellFormed(n), NEW steps, IsLog(n, steps), NEW r \in [node : n.node, from : Nat, to : Nat],
         r.from = n.part[r.node], \A i \in DOMAIN steps : steps[i].node # r.node
  PROVE  /\ IsLog(n, Append(steps, r))
         /\ Moved(Relocated(n, steps), r.node, r.to) = Relocated(n, Append(steps, r))
<1> DEFINE t == Append(steps, r)
           a == Moved(Relocated(n, steps), r.node, r.to)
           b == Relocated(n, t)
           m == Relocated(n, steps)
<1>0. steps \in Seq([node : n.node, from : Nat, to : Nat])
  BY DEF IsLog
<1>1. /\ t \in Seq([node : n.node, from : Nat, to : Nat])
      /\ Len(steps) \in Nat /\ DOMAIN steps = 1 .. Len(steps) /\ DOMAIN t = 1 .. Len(steps) + 1
      /\ \A i \in DOMAIN steps : t[i] = steps[i]
      /\ t[Len(steps) + 1] = r
  BY <1>0
<1> HIDE DEF t
<1>2. \A i \in DOMAIN t : i \in DOMAIN steps \/ i = Len(steps) + 1
  BY <1>1
<1>3. IsLog(n, t)
  <2>1. \A i \in DOMAIN t : t[i].from = n.part[t[i].node]
    BY SMTT(30), <1>1, <1>2 DEF IsLog
  <2>2. \A i, j \in DOMAIN t : t[i].node = t[j].node => i = j
    BY <1>1, <1>2 DEF IsLog
  <2> QED
    BY <1>1, <2>1, <2>2 DEF IsLog
<1>4. /\ WellFormed(m) /\ IsReparted(m, n) /\ Vertices(m) = Vertices(n)
      /\ \A i \in DOMAIN steps : m.part[steps[i].node] = steps[i].to
      /\ \A v \in Vertices(n) : (\A i \in DOMAIN steps : steps[i].node # v) => m.part[v] = n.part[v]
  BY RelocatedIs
<1>5. /\ WellFormed(b) /\ IsReparted(b, n) /\ Vertices(b) = Vertices(n)
      /\ \A i \in DOMAIN t : b.part[t[i].node] = t[i].to
      /\ \A v \in Vertices(n) : (\A i \in DOMAIN t : t[i].node # v) => b.part[v] = n.part[v]
  BY <1>3, RelocatedIs
<1> HIDE DEF m, b
<1>6. r.node \in Vertices(n) /\ r.to \in Nat
  BY DEF Vertices
<1>7. /\ IsReparted(a, m) /\ a.part[r.node] = r.to
      /\ \A w \in Vertices(n) : w # r.node => a.part[w] = m.part[w]
  <2>1. r.node \in Vertices(m) /\ r.to \in Nat \cup {NoPart}
    BY <1>4, <1>6
  <2>2. a = Moved(m, r.node, r.to)
    BY DEF m
  <2> HIDE DEF a
  <2> QED
    BY <1>4, <2>1, <2>2, MovedFrom
<1> HIDE DEF a
<1>8. IsReparted(a, n)
  BY <1>4, <1>7 DEF IsReparted
<1>9. \A v \in Vertices(n) : a.part[v] = b.part[v]
  <2> TAKE v \in Vertices(n)
  <2>1. CASE v = r.node
    <3>1. Len(steps) + 1 \in DOMAIN t
      BY <1>1
    <3> QED
      BY <1>1, <1>5, <1>7, <2>1, <3>1
  <2>2. CASE \E i \in DOMAIN steps : steps[i].node = v
    <3>1. PICK i \in DOMAIN steps : steps[i].node = v
      BY <2>2
    <3>2. i \in DOMAIN t /\ t[i] = steps[i]
      BY <1>1
    <3>3. b.part[v] = steps[i].to
      BY <1>5, <3>1, <3>2
    <3>4. v # r.node /\ m.part[v] = steps[i].to
      BY <1>4, <3>1
    <3> QED
      BY <1>7, <3>3, <3>4
  <2>3. CASE v # r.node /\ \A i \in DOMAIN steps : steps[i].node # v
    <3>1. \A i \in DOMAIN t : t[i].node # v
      BY <1>1, <1>2, <2>3
    <3> QED
      BY <1>4, <1>5, <1>7, <2>3, <3>1
  <2> QED
    BY <2>1, <2>2, <2>3
<1>10. a = b
  BY <1>5, <1>8, <1>9, SameParts
<1> QED
  BY <1>3, <1>10 DEF a, b, t

LEMMA RelocatedNowhere ==
  ASSUME NEW n, WellFormed(n)
  PROVE  IsLog(n, <<>>) /\ Relocated(n, <<>>) = n
<1>1. IsLog(n, <<>>)
  BY DEF IsLog
<1>2. /\ IsReparted(Relocated(n, <<>>), n)
      /\ \A v \in Vertices(n) : Relocated(n, <<>>).part[v] = n.part[v]
  BY <1>1, RelocatedIs
<1>3. IsReparted(n, n)
  BY DEF IsReparted, WellFormed
<1> QED
  BY <1>1, <1>2, <1>3, SameParts

----------------------------------------------------------------------------
(* Plans *)
LEMMA ImageFinite ==
  ASSUME NEW S, IsFiniteSet(S), NEW f
  PROVE  IsFiniteSet({f[x] : x \in S})
<1> DEFINE h == [x \in S |-> f[x]]
           Q == {f[x] : x \in S}
<1>1. h \in Surjection(S, Q)
  BY DEF Surjection
<1> HIDE DEF h, Q
<1>2. IsFiniteSet(Q)
  BY <1>1, FS_Surjection
<1> QED
  BY <1>2 DEF Q

LEMMA LogNodes ==
  ASSUME NEW n, WellFormed(n), NEW steps, IsLog(n, steps)
  PROVE  /\ Len(steps) \in Nat /\ DOMAIN steps = 1 .. Len(steps)
         /\ \A i \in DOMAIN steps : /\ steps[i].node \in n.node /\ steps[i].node \in Int
                                    /\ steps[i].to \in Nat /\ steps[i].from \in Nat
                                    /\ steps[i] = [node |-> steps[i].node, from |-> steps[i].from, to |-> steps[i].to]
<1> DEFINE R == [node : n.node, from : Nat, to : Nat]
<1>1. \A r \in R : /\ r.to \in Nat /\ r.node \in n.node /\ r.from \in Nat
                   /\ r = [node |-> r.node, from |-> r.from, to |-> r.to]
  OBVIOUS
<1>2. steps \in Seq(R)
  BY DEF IsLog
<1> HIDE DEF R
<1>3. \A i \in DOMAIN steps : steps[i] \in R
  BY <1>2
<1>4. Len(steps) \in Nat /\ DOMAIN steps = 1 .. Len(steps)
  BY <1>2
<1>5. n.node \subseteq Int
  <2>1. Vertices(n) \subseteq Nat
    BY VerticesFinite DEF WellFormed
  <2> QED
    BY <2>1 DEF Vertices
<1> QED
  BY <1>1, <1>3, <1>4, <1>5

LEMMA JoinedSeqs ==
  ASSUME NEW a \in Seq(Int), NEW b \in Seq(Int)
  PROVE  /\ a \o b \in Seq(Int) /\ Len(a \o b) = Len(a) + Len(b)
         /\ \A i \in 1 .. Len(a) : (a \o b)[i] = a[i]
         /\ \A i \in 1 .. Len(b) : (a \o b)[Len(a) + i] = b[i]
  OBVIOUS

IsPlan(n, l, p) ==
  /\ p = [steps |-> p.steps, delta |-> p.delta] /\ IsLog(n, p.steps) /\ p.delta \in Int
  /\ p.delta = CutEdges(Relocated(n, p.steps)) - CutEdges(n)
  /\ Within(Relocated(n, p.steps), l)

LEMMA PlanKeyIs ==
  ASSUME NEW n, WellFormed(n), NEW l, NEW p, IsPlan(n, l, p)
  PROVE  /\ PlanKey(p) \in Seq(Int) /\ PlanKey(p)[1] = p.delta /\ PlanKey(p)[2] = Len(p.steps)
         /\ \A i \in 1 .. Len(p.steps) : /\ PlanKey(p)[2 + i] = p.steps[i].node
                                         /\ PlanKey(p)[2 + Len(p.steps) + i] = p.steps[i].to
<1> DEFINE a == <<p.delta, Len(p.steps)>>
           b == [i \in DOMAIN p.steps |-> p.steps[i].node]
           c == [i \in DOMAIN p.steps |-> p.steps[i].to]
           len == Len(p.steps)
<1>1. /\ len \in Nat /\ DOMAIN p.steps = 1 .. len /\ p.delta \in Int
      /\ \A i \in DOMAIN p.steps : p.steps[i].node \in Int /\ p.steps[i].to \in Int
  BY LogNodes DEF IsPlan
<1>2. a \in Seq(Int) /\ Len(a) = 2 /\ a[1] = p.delta /\ a[2] = len
  BY <1>1
<1>3. b \in Seq(Int) /\ Len(b) = len /\ \A i \in 1 .. len : b[i] = p.steps[i].node
  BY <1>1
<1>4. c \in Seq(Int) /\ Len(c) = len /\ \A i \in 1 .. len : c[i] = p.steps[i].to
  BY <1>1
<1>5. PlanKey(p) = (a \o b) \o c
  BY DEF PlanKey
<1> HIDE DEF a, b, c
<1>6. /\ a \o b \in Seq(Int) /\ Len(a \o b) = 2 + len /\ (a \o b)[1] = a[1] /\ (a \o b)[2] = a[2]
      /\ \A i \in 1 .. len : (a \o b)[2 + i] = b[i]
  <2>1. /\ a \o b \in Seq(Int) /\ Len(a \o b) = Len(a) + Len(b)
        /\ \A i \in 1 .. Len(a) : (a \o b)[i] = a[i]
        /\ \A i \in 1 .. Len(b) : (a \o b)[Len(a) + i] = b[i]
    BY <1>2, <1>3, JoinedSeqs
  <2>2. Len(a) = 2 /\ Len(b) = len
    BY <1>2, <1>3
  <2>3. 1 \in 1 .. Len(a) /\ 2 \in 1 .. Len(a)
    BY <2>2
  <2> HIDE DEF len
  <2>4. \A i \in 1 .. len : (a \o b)[2 + i] = b[i]
    BY <2>1, <2>2
  <2> QED
    BY <2>1, <2>2, <2>3, <2>4
<1> DEFINE d == a \o b
<1> HIDE DEF d
<1>7. /\ d \in Seq(Int) /\ Len(d) = 2 + len /\ d[1] = p.delta /\ d[2] = len
      /\ \A i \in 1 .. len : d[2 + i] = b[i]
  BY <1>2, <1>6 DEF d
<1>8. /\ d \o c \in Seq(Int) /\ (d \o c)[1] = d[1] /\ (d \o c)[2] = d[2]
      /\ \A i \in 1 .. len : (d \o c)[2 + i] = d[2 + i] /\ (d \o c)[2 + len + i] = c[i]
  <2>1. /\ d \o c \in Seq(Int)
        /\ \A i \in 1 .. Len(d) : (d \o c)[i] = d[i]
        /\ \A i \in 1 .. Len(c) : (d \o c)[Len(d) + i] = c[i]
    BY <1>4, <1>7, JoinedSeqs
  <2> HIDE DEF len
  <2>2. 1 \in 1 .. Len(d) /\ 2 \in 1 .. Len(d) /\ \A i \in 1 .. len : 2 + i \in 1 .. Len(d)
    BY <1>1, <1>7
  <2> QED
    BY <1>1, <1>4, <1>7, <2>1, <2>2
<1>9. PlanKey(p) = d \o c
  BY <1>5 DEF d
<1> HIDE DEF len
<1>10. /\ \A i \in 1 .. len : (d \o c)[2 + i] = p.steps[i].node /\ (d \o c)[2 + len + i] = p.steps[i].to
       /\ (d \o c)[1] = p.delta /\ (d \o c)[2] = len
  BY <1>3, <1>4, <1>7, <1>8
<1> QED
  BY <1>8, <1>9, <1>10 DEF len

LEMMA PlanKeyInjective ==
  ASSUME NEW n, WellFormed(n), NEW l, NEW p, IsPlan(n, l, p), NEW q, IsPlan(n, l, q), PlanKey(p) = PlanKey(q)
  PROVE  p = q
<1>1. p.delta = q.delta /\ Len(p.steps) = Len(q.steps)
  BY PlanKeyIs
<1>2. \A i \in 1 .. Len(p.steps) : p.steps[i].node = q.steps[i].node /\ p.steps[i].to = q.steps[i].to
  <2> TAKE i \in 1 .. Len(p.steps)
  <2>1. /\ PlanKey(p)[2 + i] = p.steps[i].node
        /\ PlanKey(p)[2 + Len(p.steps) + i] = p.steps[i].to
    BY PlanKeyIs
  <2>2. /\ PlanKey(q)[2 + i] = q.steps[i].node
        /\ PlanKey(q)[2 + Len(q.steps) + i] = q.steps[i].to
    BY <1>1, PlanKeyIs
  <2> QED
    BY <1>1, <2>1, <2>2
<1>3. IsLog(n, p.steps) /\ IsLog(n, q.steps)
  BY DEF IsPlan
<1>4. /\ DOMAIN p.steps = 1 .. Len(p.steps) /\ DOMAIN q.steps = 1 .. Len(q.steps)
      /\ \A i \in DOMAIN p.steps : p.steps[i] = [node |-> p.steps[i].node, from |-> p.steps[i].from, to |-> p.steps[i].to]
  BY <1>3, LogNodes
<1>5. \A i \in DOMAIN q.steps : q.steps[i] = [node |-> q.steps[i].node, from |-> q.steps[i].from, to |-> q.steps[i].to]
  BY <1>3, LogNodes
<1>6. \A i \in 1 .. Len(p.steps) : p.steps[i].from = q.steps[i].from
  <2>1. \A i \in DOMAIN p.steps : p.steps[i].from = n.part[p.steps[i].node]
    BY <1>3 DEF IsLog
  <2>2. \A i \in DOMAIN q.steps : q.steps[i].from = n.part[q.steps[i].node]
    BY <1>3 DEF IsLog
  <2> QED
    BY <1>1, <1>2, <1>4, <2>1, <2>2
<1>7. \A i \in 1 .. Len(p.steps) : p.steps[i] = q.steps[i]
  BY <1>1, <1>2, <1>4, <1>5, <1>6
<1>8. /\ p.steps \in Seq([node : n.node, from : Nat, to : Nat])
      /\ q.steps \in Seq([node : n.node, from : Nat, to : Nat])
  BY <1>3 DEF IsLog
<1>9. p.steps = q.steps
  <2> DEFINE R == [node : n.node, from : Nat, to : Nat]
             s == p.steps
             t == q.steps
  <2>1. s \in Seq(R) /\ t \in Seq(R) /\ Len(s) = Len(t) /\ \A i \in 1 .. Len(s) : s[i] = t[i]
    BY <1>1, <1>7, <1>8
  <2> HIDE DEF R, s, t
  <2>2. s = t
    BY <2>1
  <2> QED
    BY <2>2 DEF s, t
<1> QED
  BY <1>1, <1>9 DEF IsPlan

LEMMA NoPlanIs ==
  ASSUME NEW n, WellFormed(n), NEW l, Within(n, l)
  PROVE  IsPlan(n, l, NoPlan)
<1>1. IsLog(n, <<>>) /\ Relocated(n, <<>>) = n
  BY RelocatedNowhere
<1>2. CutEdges(n) \in Nat
  BY SlotsFinite DEF WellFormed
<1>3. NoPlan.steps = <<>> /\ NoPlan.delta = 0 /\ NoPlan = [steps |-> <<>>, delta |-> 0]
  BY DEF NoPlan
<1>4. NoPlan = [steps |-> NoPlan.steps, delta |-> NoPlan.delta]
  BY <1>3
<1> QED
  BY <1>1, <1>2, <1>3, <1>4 DEF IsPlan

----------------------------------------------------------------------------
LEMMA RelocationsAre ==
  ASSUME NEW n, WellFormed(n)
  PROVE  /\ IsFiniteSet(Relocations(n))
         /\ \A m \in Relocations(n) :
              /\ m \in [node : n.node, from : Nat, to : Nat] /\ m.from = n.part[m.node]
<1> DEFINE P == {n.part[v] : v \in Vertices(n)}
           S == n.node \X P
           f == [s \in S |-> [node |-> s[1], from |-> n.part[s[1]], to |-> s[2]]]
           T == {f[s] : s \in S}
<1>0. IsFiniteSet(Vertices(n)) /\ IsFiniteSet(n.node) /\ n.node \subseteq Vertices(n)
  BY VerticesFinite DEF WellFormed, Vertices
<1>1. IsFiniteSet(P)
  BY <1>0, ImageFinite
<1>2. IsFiniteSet(S)
  <2> HIDE DEF P
  <2> QED
    BY <1>0, <1>1, FS_Product
<1>3. IsFiniteSet(T)
  <2> HIDE DEF S, f
  <2> QED
    BY <1>2, ImageFinite
<1>4. ASSUME NEW m \in Relocations(n)
      PROVE  \E v \in n.node : \E p \in NeighbourParts(n, v) :
               n.part[v] # NoPart /\ m = [node |-> v, from |-> n.part[v], to |-> p]
  BY DEF Relocations
<1>5. \A v \in n.node : \A p \in NeighbourParts(n, v) : p \in P /\ p # NoPart
  <2> TAKE v \in n.node
  <2>1. Fanins(n, v) \subseteq Vertices(n)
    BY FaninsTyped DEF WellFormed
  <2> QED
    BY <1>0, <2>1 DEF NeighbourParts, Fanouts
<1>6. \A v \in Vertices(n) : n.part[v] \in Nat \cup {NoPart}
  BY NetworkIs DEF WellFormed
<1>7. Relocations(n) \subseteq T
  <2> SUFFICES ASSUME NEW m \in Relocations(n) PROVE m \in T
    OBVIOUS
  <2>1. PICK v, p : v \in n.node /\ p \in NeighbourParts(n, v) /\ m = [node |-> v, from |-> n.part[v], to |-> p]
    BY <1>4
  <2>2. <<v, p>> \in S
    BY <1>5, <2>1
  <2> QED
    BY <2>1, <2>2
<1>8. IsFiniteSet(Relocations(n))
  <2> HIDE DEF T
  <2> QED
    BY <1>3, <1>7, FS_Subset
<1>9. ASSUME NEW m \in Relocations(n)
      PROVE  m \in [node : n.node, from : Nat, to : Nat] /\ m.from = n.part[m.node]
  <2>1. PICK v, p : v \in n.node /\ p \in NeighbourParts(n, v) /\
               n.part[v] # NoPart /\ m = [node |-> v, from |-> n.part[v], to |-> p]
    BY <1>4
  <2>2. p \in Nat /\ n.part[v] \in Nat
    BY <1>0, <1>5, <1>6, <2>1
  <2> QED
    BY <2>1, <2>2
<1> QED
  BY <1>8, <1>9

LEMMA SeedsAre ==
  ASSUME NEW n, WellFormed(n), NEW l, NEW policy
  PROVE  IsFiniteSet(Seeds(n, l, policy)) /\ Seeds(n, l, policy) \subseteq Relocations(n)
<1>1. Seeds(n, l, policy) \subseteq Relocations(n)
  BY DEF Seeds, FirstsBy
<1>2. IsFiniteSet(Relocations(n))
  BY RelocationsAre
<1> QED
  BY <1>1, <1>2, FS_Subset

LEMMA ChildrenAre ==
  ASSUME NEW n, WellFormed(n), NEW l, NEW policy, NEW p, IsPlan(n, l, p)
  PROVE  /\ IsFiniteSet(Children(Relocated(n, p.steps), l, policy, p))
         /\ \A q \in Children(Relocated(n, p.steps), l, policy, p) : IsPlan(n, l, q)
<1> DEFINE m == Relocated(n, p.steps)
           S == Seeds(m, l, policy)
           f == [r \in S |-> [steps |-> Append(p.steps, r), delta |-> PlanDelta(m, p, r)]]
           T == {f[r] : r \in S}
           K == Children(m, l, policy, p)
<1>1. IsLog(n, p.steps)
  BY DEF IsPlan
<1>2. /\ WellFormed(m) /\ IsReparted(m, n) /\ Vertices(m) = Vertices(n)
      /\ \A v \in Vertices(n) : (\A i \in DOMAIN p.steps : p.steps[i].node # v) => m.part[v] = n.part[v]
  BY <1>1, RelocatedIs
<1>3. RelocationUndone(m, p.steps) = n
  BY <1>1, RelocationUndoneIs
<1>a. \A r \in Relocations(m) : Moved(m, r.node, r.to) = Moved(Relocated(n, p.steps), r.node, r.to)
  OBVIOUS
<1> HIDE DEF m
<1>4. IsFiniteSet(S) /\ S \subseteq Relocations(m)
  BY <1>2, SeedsAre
<1>5. IsFiniteSet(T)
  <2> HIDE DEF S, f
  <2> QED
    BY <1>4, ImageFinite
<1>6. K \subseteq T
  BY DEF Children
<1>7. IsFiniteSet(K)
  <2> HIDE DEF K, T
  <2> QED
    BY <1>5, <1>6, FS_Subset
<1>8. ASSUME NEW q \in K
      PROVE  IsPlan(n, l, q)
  <2>1. PICK r \in S : /\ MayFollow(m, l, p, r)
                       /\ q = [steps |-> Append(p.steps, r), delta |-> PlanDelta(m, p, r)]
    BY DEF Children
  <2> HIDE DEF K, T, S
  <2>2. r \in [node : m.node, from : Nat, to : Nat] /\ r.from = m.part[r.node]
    BY <1>2, <1>4, RelocationsAre
  <2>3. /\ \A i \in DOMAIN p.steps : p.steps[i].node # r.node
        /\ Within(Moved(m, r.node, r.to), l)
    BY <2>1 DEF MayFollow
  <2>4. r \in [node : n.node, from : Nat, to : Nat] /\ r.node \in Vertices(n)
    BY <1>2, <2>2 DEF IsReparted, Vertices
  <2>5. r.from = n.part[r.node]
    BY <1>2, <2>2, <2>3, <2>4
  <2>6. /\ IsLog(n, Append(p.steps, r))
        /\ Moved(Relocated(n, p.steps), r.node, r.to) = Relocated(n, Append(p.steps, r))
    BY <1>1, <2>3, <2>4, <2>5, RelocatedFurther
  <2>7. Moved(m, r.node, r.to) = Relocated(n, Append(p.steps, r))
    BY <2>6 DEF m
  <2>8. PlanDelta(m, p, r) = CutEdges(Relocated(n, Append(p.steps, r))) - CutEdges(n)
    BY <1>3, <2>7 DEF PlanDelta
  <2>9. CutEdges(n) \in Nat /\ CutEdges(Relocated(n, Append(p.steps, r))) \in Nat
    BY <2>6, RelocatedIs, SlotsFinite DEF WellFormed
  <2>10. q.steps = Append(p.steps, r) /\ q.delta = PlanDelta(m, p, r) /\ q = [steps |-> q.steps, delta |-> q.delta]
    BY <2>1
  <2>11. q.delta = CutEdges(Relocated(n, q.steps)) - CutEdges(n) /\ q.delta \in Int
    BY <2>8, <2>9, <2>10
  <2>12. Within(Relocated(n, q.steps), l) /\ IsLog(n, q.steps)
    BY <2>3, <2>6, <2>7, <2>10
  <2> QED
    BY <2>10, <2>11, <2>12 DEF IsPlan
<1> QED
  BY <1>7, <1>8 DEF m

----------------------------------------------------------------------------
(* The predictions *)
LEMMA CutDriverIs ==
  ASSUME NEW n, IsNetwork(n), NEW w
  PROVE  /\ NetIsCut(n, w, NoPart) <=> w \in CutDrivers(n)
         /\ \A p : NetIsCut(n, w, p) <=> \E s \in CutSlots(n) : Driver(n, s) = w /\ n.part[s[1]] # p
<1>1. \A p : NetIsCut(n, w, p) <=> \E s \in CutSlots(n) : Driver(n, s) = w /\ n.part[s[1]] # p
  BY DEF NetIsCut, NodeFanouts, CutSlots
<1>2. \A s \in CutSlots(n) : n.part[s[1]] # NoPart
  BY DEF CutSlots, Crosses
<1> QED
  BY <1>1, <1>2 DEF CutDrivers

(* What changes when u alone is duplicated into the part p *)
SlotsTo(n, u, p) == {s \in NodeFanouts(n, u) : n.part[s[1]] = p}
SlotsOf(x, S) == {<<x, i>> : i \in S}

IsBuiltOne(b, n, u, p) ==
  /\ WellFormed(b) /\ b.node = n.node \cup {n.max} /\ n.max \notin Vertices(n)
  /\ \A v \in Vertices(n) : b.part[v] = n.part[v]
  /\ b.part[n.max] = p
  /\ \A v \in n.node :
       /\ DOMAIN b.fanin[v] = DOMAIN n.fanin[v]
       /\ \A i \in DOMAIN n.fanin[v] :
            b.fanin[v][i] = IF n.part[v] = p /\ n.fanin[v][i] = u THEN n.max ELSE n.fanin[v][i]
  /\ DOMAIN b.fanin[n.max] = DOMAIN n.fanin[u]
  /\ \A i \in DOMAIN n.fanin[u] : b.fanin[n.max][i] = n.fanin[u][i]

LEMMA BuiltOne ==
  ASSUME NEW n, WellFormed(n), NEW u \in n.node, NEW p \in Nat, NEW b, b = Built(n, {u}, u, p)
  PROVE  IsBuiltOne(b, n, u, p)
<1> DEFINE C == {u}
<1>1. C \in SUBSET n.node /\ u \in C
  OBVIOUS
<1>2. IsBuilt(b, n, C, u, p) /\ WellFormed(b)
  BY <1>1, BuiltIs, BuiltWellFormed
<1>3. Cardinality(C) = 1 /\ n.max \in Nat
  BY FS_Singleton, NetworkIs DEF WellFormed
<1>4. NewIds(n, C) = {n.max}
  BY <1>3 DEF NewIds
<1>5. DupOf(n, C, u) \in NewIds(n, C) /\ NewIds(n, C) \cap Vertices(n) = {}
  BY <1>1, DupsAre
<1>6. DupOf(n, C, u) = n.max /\ n.max \notin Vertices(n)
  BY <1>4, <1>5
<1>7. \A i \in DOMAIN n.fanin[u] : n.fanin[u][i] \notin C
  <2>1. u \notin Fanins(n, u)
    BY NoSelf
  <2> QED
    BY <2>1 DEF Fanins, ToSet
<1> QED
  BY ZenonT(30), <1>1, <1>2, <1>4, <1>6, <1>7 DEF IsBuilt, IsBuiltOne

LEMMA BuiltSlots ==
  ASSUME NEW n, WellFormed(n), NEW u \in n.node, NEW p \in Nat, p # NoPart,
         n.part[u] # NoPart, n.part[u] # p, NEW b, b = Built(n, {u}, u, p)
  PROVE  /\ SlotsTo(n, u, p) \subseteq CutSlots(n)
         /\ CutSlots(b) = (CutSlots(n) \ SlotsTo(n, u, p)) \cup SlotsOf(n.max, ForeignFanins(n, u, p))
         /\ CutSlots(n) \cap SlotsOf(n.max, ForeignFanins(n, u, p)) = {}
         /\ \A s \in CutSlots(n) : s \notin SlotsTo(n, u, p) => Driver(b, s) = Driver(n, s)
         /\ \A i \in ForeignFanins(n, u, p) : Driver(b, <<n.max, i>>) = n.fanin[u][i]
<1> DEFINE x == n.max
           M == SlotsTo(n, u, p)
           N == SlotsOf(x, ForeignFanins(n, u, p))
<1>1. /\ WellFormed(b) /\ b.node = n.node \cup {x} /\ x \notin Vertices(n)
      /\ \A v \in Vertices(n) : b.part[v] = n.part[v]
      /\ b.part[x] = p
      /\ \A v \in n.node :
              /\ DOMAIN b.fanin[v] = DOMAIN n.fanin[v]
              /\ \A i \in DOMAIN n.fanin[v] :
                   b.fanin[v][i] = IF n.part[v] = p /\ n.fanin[v][i] = u THEN x ELSE n.fanin[v][i]
      /\ DOMAIN b.fanin[x] = DOMAIN n.fanin[u]
      /\ \A i \in DOMAIN n.fanin[u] : b.fanin[x][i] = n.fanin[u][i]
  <2>1. IsBuiltOne(b, n, u, p)
    BY BuiltOne
  <2> QED
    BY <2>1 DEF IsBuiltOne
<1>2. n.node \subseteq Vertices(n) /\ \A v \in n.node : \A i \in DOMAIN n.fanin[v] : n.fanin[v][i] \in Vertices(n)
  <2>1. \A v \in n.node : n.fanin[v] \in Seq(Vertices(n))
    BY NetworkIs DEF WellFormed
  <2>2. \A v \in n.node : \A i \in DOMAIN n.fanin[v] : n.fanin[v][i] \in Vertices(n)
    BY <2>1
  <2> QED
    BY <2>2 DEF Vertices
<1>3. \A s \in Slots(n) : s = <<s[1], s[2]>> /\ s[1] \in n.node /\ s[2] \in DOMAIN n.fanin[s[1]]
  BY SlotsFinite DEF WellFormed
<1>4. \A s \in Slots(b) : s = <<s[1], s[2]>> /\ s[1] \in b.node /\ s[2] \in DOMAIN b.fanin[s[1]]
  BY <1>1, SlotsFinite DEF WellFormed
<1>5. \A s \in CutSlots(n) : s \notin M => Driver(b, s) = Driver(n, s)
  <2> SUFFICES ASSUME NEW s \in CutSlots(n), s \notin M PROVE Driver(b, s) = Driver(n, s)
    OBVIOUS
  <2>1. s \in Slots(n)
    BY DEF CutSlots
  <2>2. ~(n.part[s[1]] = p /\ n.fanin[s[1]][s[2]] = u)
    BY <2>1 DEF SlotsTo, NodeFanouts, Driver
  <2> QED
    BY <1>1, <1>3, <2>1, <2>2 DEF Driver
<1>6. \A i \in ForeignFanins(n, u, p) : i \in DOMAIN n.fanin[u] /\ Driver(b, <<x, i>>) = n.fanin[u][i]
  BY <1>1 DEF ForeignFanins, Driver
<1>7. M \subseteq CutSlots(n)
  BY DEF SlotsTo, NodeFanouts, CutSlots, Crosses, Foreign
<1>8. CutSlots(n) \cap N = {}
  BY <1>1, <1>2, <1>3 DEF CutSlots, SlotsOf
<1>9. ASSUME NEW v \in n.node, NEW i \in DOMAIN n.fanin[v]
      PROVE  <<v, i>> \in CutSlots(b) <=> <<v, i>> \in CutSlots(n) \ M
  <2>1. <<v, i>> \in Slots(n) /\ <<v, i>> \in Slots(b)
    BY <1>1, SlotsFinite DEF WellFormed
  <2>2. v \in Vertices(n) /\ b.part[v] = n.part[v]
    BY <1>1, <1>2
  <2>3. CASE n.part[v] = p /\ n.fanin[v][i] = u
    <3>1. b.part[Driver(b, <<v, i>>)] = p
      BY <1>1, <2>3 DEF Driver
    <3>2. <<v, i>> \in M
      BY <2>1, <2>3 DEF SlotsTo, NodeFanouts, Driver
    <3> QED
      BY <2>1, <2>2, <2>3, <3>1, <3>2 DEF CutSlots, Crosses, Foreign
  <2>4. CASE ~(n.part[v] = p /\ n.fanin[v][i] = u)
    <3>1. Driver(b, <<v, i>>) = Driver(n, <<v, i>>) /\ b.part[Driver(n, <<v, i>>)] = n.part[Driver(n, <<v, i>>)]
      BY <1>1, <1>2, <2>4 DEF Driver
    <3>2. <<v, i>> \notin M
      BY <2>4 DEF SlotsTo, NodeFanouts, Driver
    <3> QED
      BY <2>1, <2>2, <3>1, <3>2 DEF CutSlots, Crosses
  <2> QED
    BY <2>3, <2>4
<1>10. ASSUME NEW i \in DOMAIN n.fanin[u]
       PROVE  <<x, i>> \in CutSlots(b) <=> i \in ForeignFanins(n, u, p)
  <2>1. <<x, i>> \in Slots(b)
    BY <1>1, SlotsFinite DEF WellFormed
  <2>2. b.part[Driver(b, <<x, i>>)] = n.part[n.fanin[u][i]]
    BY <1>1, <1>2 DEF Driver
  <2> QED
    BY <1>1, <2>1, <2>2 DEF CutSlots, Crosses, ForeignFanins
<1>11. CutSlots(b) \subseteq (CutSlots(n) \ M) \cup N
  <2> SUFFICES ASSUME NEW s \in CutSlots(b) PROVE s \in (CutSlots(n) \ M) \cup N
    OBVIOUS
  <2>1. s = <<s[1], s[2]>> /\ s[1] \in b.node /\ s[2] \in DOMAIN b.fanin[s[1]]
    BY <1>4 DEF CutSlots
  <2>2. CASE s[1] = x
    <3>1. s[2] \in DOMAIN n.fanin[u] /\ s = <<x, s[2]>>
      BY <1>1, <2>1, <2>2
    <3>2. s[2] \in ForeignFanins(n, u, p)
      BY <1>10, <3>1
    <3> QED
      BY <3>1, <3>2 DEF SlotsOf
  <2>3. CASE s[1] \in n.node
    <3>1. s[2] \in DOMAIN n.fanin[s[1]]
      BY <1>1, <2>1, <2>3
    <3> QED
      BY <1>9, <2>1, <2>3, <3>1
  <2> QED
    BY <1>1, <2>1, <2>2, <2>3
<1>12. (CutSlots(n) \ M) \cup N \subseteq CutSlots(b)
  <2>1. \A s \in CutSlots(n) \ M : s \in CutSlots(b)
    <3> TAKE s \in CutSlots(n) \ M
    <3>1. s = <<s[1], s[2]>> /\ s[1] \in n.node /\ s[2] \in DOMAIN n.fanin[s[1]]
      BY <1>3 DEF CutSlots
    <3> QED
      BY <1>9, <3>1
  <2>2. N \subseteq CutSlots(b)
    BY <1>6, <1>10 DEF SlotsOf
  <2> QED
    BY <2>1, <2>2
<1> QED
  BY <1>5, <1>6, <1>7, <1>8, <1>11, <1>12

LEMMA EdgesPredicted ==
  ASSUME NEW n, WellFormed(n), NEW u \in n.node, NEW p \in Nat, p # NoPart,
         n.part[u] # NoPart, n.part[u] # p
  PROVE  CutEdges(Built(n, {u}, u, p)) - CutEdges(n) = -EdgeGain(n, u, p)
<1> DEFINE b == Built(n, {u}, u, p)
           M == SlotsTo(n, u, p)
           F == ForeignFanins(n, u, p)
           N == SlotsOf(n.max, F)
           A == CutSlots(n)
           h == [i \in F |-> <<n.max, i>>]
<1>1. M \subseteq A /\ CutSlots(b) = (A \ M) \cup N /\ A \cap N = {}
  BY BuiltSlots
<1>2. IsFiniteSet(A)
  BY SlotsFinite DEF WellFormed
<1>3. IsFiniteSet(F)
  <2>1. n.fanin[u] \in Seq(Vertices(n))
    BY NetworkIs DEF WellFormed
  <2>2. DOMAIN n.fanin[u] = 1 .. Len(n.fanin[u]) /\ Len(n.fanin[u]) \in Nat
    BY <2>1
  <2>a. IsFiniteSet(1 .. Len(n.fanin[u]))
    BY <2>2, FS_Interval
  <2>3. IsFiniteSet(1 .. Len(n.fanin[u])) /\ F \subseteq 1 .. Len(n.fanin[u])
    BY <2>2, <2>a DEF ForeignFanins
  <2> QED
    BY <2>3, FS_Subset
<1>4. Cardinality(F) = Cardinality(N) /\ IsFiniteSet(N)
  <2>1. /\ \A i \in F : h[i] \in N
        /\ \A i, j \in F : h[i] = h[j] => i = j
        /\ \A s \in N : \E i \in F : s = h[i]
    BY DEF SlotsOf
  <2> HIDE DEF F, N, h
  <2> QED
    BY <1>3, <2>1, OneEach
<1>5. EdgeGain(n, u, p) = Cardinality(M) - Cardinality(F)
  BY DEF EdgeGain, SlotsTo
<1> HIDE DEF b, M, F, N, A, h
<1>6. /\ IsFiniteSet(A \ M) /\ Cardinality(A \ M) = Cardinality(A) - Cardinality(M)
      /\ IsFiniteSet(M) /\ Cardinality(M) \in Nat /\ Cardinality(A) \in Nat
  <2>1. A \cap M = M
    BY <1>1
  <2> QED
    BY ZenonT(30), <1>1, <1>2, <2>1, FS_Difference, FS_Subset, FS_CardinalityType
<1>7. Cardinality((A \ M) \cup N) = Cardinality(A \ M) + Cardinality(N) /\ Cardinality(N) \in Nat
  <2>1. (A \ M) \cap N = {}
    BY <1>1
  <2> QED
    BY <1>4, <1>6, <2>1, CountApart
<1>8. CutEdges(b) - CutEdges(n) = -EdgeGain(n, u, p)
  BY <1>1, <1>4, <1>5, <1>6, <1>7 DEF CutEdges, A
<1> QED
  BY <1>8 DEF b

----------------------------------------------------------------------------
(* The prediction of a replication, and of a joint replacement              *)
LEMMA NetsPredicted ==
  ASSUME NEW n, WellFormed(n), NEW u \in n.node, NEW p \in Nat, p # NoPart,
         n.part[u] # NoPart, n.part[u] # p, u \in CutDrivers(n)
  PROVE  CutNets(Built(n, {u}, u, p)) - CutNets(n) = NetDelta(n, u, p)
<1> DEFINE b == Built(n, {u}, u, p)
           A == CutDrivers(n)
           G == IF NetIsCut(n, u, p) THEN {} ELSE {u}
           F == {w \in Fanins(n, u) : n.part[w] # NoPart /\ n.part[w] # p}
           K == {w \in F : ~NetIsCut(n, w, NoPart)}
<1>1. /\ SlotsTo(n, u, p) \subseteq CutSlots(n)
      /\ CutSlots(b) = (CutSlots(n) \ SlotsTo(n, u, p)) \cup SlotsOf(n.max, ForeignFanins(n, u, p))
      /\ \A s \in CutSlots(n) : s \notin SlotsTo(n, u, p) => Driver(b, s) = Driver(n, s)
      /\ \A i \in ForeignFanins(n, u, p) : Driver(b, <<n.max, i>>) = n.fanin[u][i]
  BY SMTT(30), BuiltSlots
<1> HIDE DEF b
<1>2. IsNetwork(n) /\ IsFiniteSet(Vertices(n)) /\ Fanins(n, u) \subseteq Vertices(n) /\ u \notin Fanins(n, u)
  BY VerticesFinite, FaninsTyped, NoSelf DEF WellFormed
<1>3. /\ \A w : NetIsCut(n, w, NoPart) <=> w \in A
      /\ NetIsCut(n, u, p) <=> \E s \in CutSlots(n) : Driver(n, s) = u /\ n.part[s[1]] # p
  BY <1>2, CutDriverIs
<1>4. \A s \in CutSlots(n) : s \in SlotsTo(n, u, p) <=> Driver(n, s) = u /\ n.part[s[1]] = p
  BY DEF SlotsTo, NodeFanouts, CutSlots
<1>5. \A i \in ForeignFanins(n, u, p) : n.fanin[u][i] \in F
  BY DEF ForeignFanins, Foreign, Fanins, ToSet
<1>6. \A w \in F : \E i \in ForeignFanins(n, u, p) : w = n.fanin[u][i]
  BY DEF ForeignFanins, Foreign, Fanins, ToSet
<1>7. CutDrivers(b) \subseteq (A \ G) \cup F
  <2> SUFFICES ASSUME NEW s \in CutSlots(b) PROVE Driver(b, s) \in (A \ G) \cup F
    BY DEF CutDrivers
  <2>1. CASE s \in CutSlots(n) /\ s \notin SlotsTo(n, u, p)
    <3>1. Driver(b, s) = Driver(n, s) /\ Driver(n, s) \in A
      BY <1>1, <2>1 DEF CutDrivers
    <3>2. Driver(n, s) = u => NetIsCut(n, u, p)
      BY <1>3, <1>4, <2>1
    <3> QED
      BY <3>1, <3>2
  <2>2. CASE s \in SlotsOf(n.max, ForeignFanins(n, u, p))
    BY <1>1, <1>5, <2>2 DEF SlotsOf
  <2> QED
    BY <1>1, <2>1, <2>2
<1>8. (A \ G) \cup F \subseteq CutDrivers(b)
  <2>1. \A w \in A \ G : w \in CutDrivers(b)
    <3> TAKE w \in A \ G
    <3>1. \E s \in CutSlots(n) : Driver(n, s) = w /\ s \notin SlotsTo(n, u, p)
      <4>1. CASE w = u
        BY <1>3, <1>4, <4>1
      <4>2. CASE w # u
        BY <1>4, <4>2 DEF CutDrivers
      <4> QED
        BY <4>1, <4>2
    <3> QED
      BY <1>1, <3>1 DEF CutDrivers
  <2>2. \A w \in F : w \in CutDrivers(b)
    <3> TAKE w \in F
    <3>1. PICK i \in ForeignFanins(n, u, p) : w = n.fanin[u][i]
      BY <1>6
    <3>2. <<n.max, i>> \in CutSlots(b) /\ Driver(b, <<n.max, i>>) = w
      BY <1>1, <3>1 DEF SlotsOf
    <3> QED
      BY <3>2 DEF CutDrivers
  <2> QED
    BY <2>1, <2>2
<1>9. CutDrivers(b) = (A \ G) \cup K
  <2>1. F \subseteq (A \ G) \cup K /\ K \subseteq F
    BY <1>2, <1>3
  <2> QED
    BY <1>7, <1>8, <2>1
<1>10. (A \ G) \cap K = {} /\ G \subseteq A
  BY <1>3
<1>11. IsFiniteSet(A) /\ IsFiniteSet(K)
  <2>1. A \subseteq Vertices(n) /\ K \subseteq Vertices(n)
    BY <1>2, CutsTyped
  <2> QED
    BY <1>2, <2>1, FS_Subset
<1>12. Cardinality(G) = IF NetIsCut(n, u, p) THEN 0 ELSE 1
  BY FS_EmptySet, FS_Singleton
<1>13. NetDelta(n, u, p) = Cardinality(K) - (IF NetIsCut(n, u, p) THEN 0 ELSE 1)
  <2>1. {w \in {w \in Fanins(n, u) : n.part[w] # NoPart} : ~NetIsCut(n, w, NoPart) /\ n.part[w] # p} = K
    OBVIOUS
  <2>2. NetIsCut(n, u, NoPart)
    BY <1>3
  <2>3. NetDelta(n, u, p) = Cardinality(K) - (IF NetIsCut(n, u, NoPart) /\ ~NetIsCut(n, u, p) THEN 1 ELSE 0)
    BY <2>1 DEF NetDelta
  <2> HIDE DEF K
  <2> QED
    BY <2>2, <2>3
<1> HIDE DEF A, G, F, K
<1>14. /\ IsFiniteSet(A \ G) /\ Cardinality(A \ G) = Cardinality(A) - Cardinality(G)
       /\ Cardinality(A) \in Nat /\ Cardinality(G) \in Nat
  <2>1. A \cap G = G
    BY <1>10
  <2>2. IsFiniteSet(G)
    BY <1>10, <1>11, FS_Subset
  <2>3. Cardinality(A) \in Nat /\ Cardinality(G) \in Nat
    BY <1>11, <2>2, FS_CardinalityType
  <2>4. IsFiniteSet(A \ G) /\ Cardinality(A \ G) = Cardinality(A) - Cardinality(A \cap G)
    BY <1>11, FS_Difference
  <2> QED
    BY <2>1, <2>3, <2>4
<1>15. Cardinality((A \ G) \cup K) = Cardinality(A \ G) + Cardinality(K) /\ Cardinality(K) \in Nat
  BY <1>10, <1>11, <1>14, CountApart
<1>16. CutNets(b) = Cardinality((A \ G) \cup K) /\ CutNets(n) = Cardinality(A)
  BY <1>9 DEF CutNets, A
<1>17. CutNets(b) - CutNets(n) = NetDelta(n, u, p)
  BY <1>12, <1>13, <1>14, <1>15, <1>16
<1> QED
  BY <1>17 DEF b

LEMMA ReplicationsAre ==
  ASSUME NEW n, WellFormed(n), NEW c \in Replications(n)
  PROVE  /\ c.driver \in n.node /\ c.part \in Nat /\ c.part # NoPart
         /\ n.part[c.driver] # NoPart /\ n.part[c.driver] # c.part /\ c.driver \in CutDrivers(n)
         /\ c.key = <<-EdgeGain(n, c.driver, c.part), NetDelta(n, c.driver, c.part), c.driver, c.part>>
<1>1. PICK s \in CutSlots(n) :
        /\ Driver(n, s) \in n.node /\ c.driver = Driver(n, s) /\ c.part = n.part[s[1]]
        /\ c.key = <<-EdgeGain(n, c.driver, c.part), NetDelta(n, c.driver, c.part), c.driver, c.part>>
  BY DEF Replications
<1>2. s \in Slots(n) /\ Crosses(n, Driver(n, s), s[1])
  BY DEF CutSlots
<1>3. s[1] \in Vertices(n)
  BY <1>2, SlotsFinite DEF WellFormed, Vertices
<1>4. n.part[s[1]] \in Nat \cup {NoPart}
  BY <1>3, NetworkIs DEF WellFormed
<1> QED
  BY <1>1, <1>2, <1>4 DEF Crosses, Foreign, CutDrivers

LEMMA FirstTwo ==
  ASSUME NEW x, NEW y, NEW d, NEW e
  PROVE  SubSeq(<<x, y, d, e>>, 1, 2) = <<x, y>>
<1> DEFINE V == {x, y, d, e}
           s == <<x, y, d, e>>
           t == SubSeq(s, 1, 2)
<1>1. s \in Seq(V) /\ Len(s) = 4 /\ s[1] = x /\ s[2] = y
  OBVIOUS
<1> HIDE DEF s, V
<1>2. t \in Seq(V) /\ Len(t) = 2 /\ t[1] = s[1] /\ t[2] = s[2]
  BY <1>1
<1> HIDE DEF t
<1>3. t = <<x, y>>
  BY <1>1, <1>2
<1> QED
  BY <1>3 DEF t, s

LEMMA ReplicationPredicted ==
  ASSUME NEW n, WellFormed(n), NEW c \in Replications(n), NEW b, b = Built(n, {c.driver}, c.driver, c.part)
  PROVE  SubSeq(c.key, 1, 2) = <<CutEdges(b) - CutEdges(n), CutNets(b) - CutNets(n)>>
<1>1. /\ c.driver \in n.node /\ c.part \in Nat /\ c.part # NoPart
      /\ n.part[c.driver] # NoPart /\ n.part[c.driver] # c.part /\ c.driver \in CutDrivers(n)
      /\ c.key = <<-EdgeGain(n, c.driver, c.part), NetDelta(n, c.driver, c.part), c.driver, c.part>>
  BY ReplicationsAre
<1> DEFINE x == -EdgeGain(n, c.driver, c.part)
           y == NetDelta(n, c.driver, c.part)
<1>2. CutEdges(b) - CutEdges(n) = x
  BY <1>1, EdgesPredicted
<1>3. CutNets(b) - CutNets(n) = y
  BY <1>1, NetsPredicted
<1> HIDE DEF x, y
<1>4. \A d, e : SubSeq(<<x, y, d, e>>, 1, 2) = <<x, y>>
  BY FirstTwo
<1> QED
  BY <1>1, <1>2, <1>3, <1>4 DEF x, y

----------------------------------------------------------------------------
LEMMA JointPredicted ==
  ASSUME NEW n, WellFormed(n), NEW v \in n.node, NEW d \in n.node, v # d, NEW m, m = Joined(n, <<v, d>>), WellFormed(m)
  PROVE  CutNets(m) - CutNets(n) = JointNetDelta(n, v, n.fanin[v], <<d>>)
<1> DEFINE f == n.fanin[v]
           g == <<d>>
           T == ToSet(f \o g)
           other == {u \in T : \E s \in NodeFanouts(n, u) : s[1] # v /\ Crosses(n, u, s[1])}
           cut(h) == Cardinality({u \in T : u \in other \/ (u \in ToSet(h) /\ Crosses(n, u, v))})
           A == CutDrivers(n)
           B == CutDrivers(m)
           P == {u \in T : u \in other \/ (u \in ToSet(f) /\ Crosses(n, u, v))}
           Q == {u \in T : u \in other \/ (u \in ToSet(g) /\ Crosses(n, u, v))}
<1>1. /\ m.node = n.node /\ m.part = n.part /\ Vertices(m) = Vertices(n)
      /\ \A w \in n.node : m.fanin[w] = IF w = v THEN <<d>> ELSE n.fanin[w]
  BY JoinedFields DEF WellFormed
<1>2. JointNetDelta(n, v, f, g) = Cardinality(Q) - Cardinality(P)
  BY DEF JointNetDelta
<1>3. f \in Seq(Vertices(n)) /\ g \in Seq(Vertices(n)) /\ d \in Vertices(n)
  <2>1. d \in Vertices(n)
    BY DEF Vertices
  <2>2. f \in Seq(Vertices(n))
    BY NetworkIs DEF WellFormed
  <2> QED
    BY <2>1, <2>2
<1>4. T = ToSet(f) \cup {d} /\ ToSet(g) = {d}
  <2>1. /\ Len(f \o g) = Len(f) + 1 /\ Len(f) \in Nat /\ DOMAIN (f \o g) = 1 .. Len(f) + 1
        /\ \A i \in 1 .. Len(f) : (f \o g)[i] = f[i]
        /\ (f \o g)[Len(f) + 1] = d
        /\ DOMAIN f = 1 .. Len(f) /\ DOMAIN g = {1} /\ g[1] = d
    <3>1. /\ f \o g \in Seq(Vertices(n)) /\ Len(f \o g) = Len(f) + Len(g) /\ Len(f) \in Nat /\ Len(g) \in Nat
          /\ DOMAIN (f \o g) = 1 .. Len(f) + Len(g)
          /\ \A i \in 1 .. Len(f) + Len(g) : (f \o g)[i] = IF i <= Len(f) THEN f[i] ELSE g[i - Len(f)]
      BY <1>3, SeqsJoined
    <3>2. Len(g) = 1 /\ DOMAIN g = {1} /\ g[1] = d
      OBVIOUS
    <3>3. DOMAIN f = 1 .. Len(f)
      BY <1>3
    <3> HIDE DEF f, g
    <3> QED
      BY <3>1, <3>2, <3>3
  <2> HIDE DEF f, g
  <2> QED
    BY <2>1 DEF ToSet
<1>5. \A s \in Slots(n) : s = <<s[1], s[2]>> /\ s[1] \in n.node /\ s[2] \in DOMAIN n.fanin[s[1]]
  BY SlotsFinite DEF WellFormed
<1>6. \A s \in Slots(m) : s = <<s[1], s[2]>> /\ s[1] \in m.node /\ s[2] \in DOMAIN m.fanin[s[1]]
  BY SlotsFinite DEF WellFormed
<1>7. \A w, i : w \in n.node /\ w # v => (<<w, i>> \in Slots(n) <=> <<w, i>> \in Slots(m))
                  /\ Driver(m, <<w, i>>) = Driver(n, <<w, i>>)
  <2>1. \A w \in n.node : \A i : (<<w, i>> \in Slots(n) <=> i \in DOMAIN n.fanin[w])
                             /\ (<<w, i>> \in Slots(m) <=> i \in DOMAIN m.fanin[w])
    BY ZenonT(30), <1>1, SlotsFinite DEF WellFormed
  <2> QED
    BY <1>1, <2>1 DEF Driver
<1>8. \A s \in Slots(n) : s[1] = v => Driver(n, s) \in ToSet(f)
  BY <1>5 DEF Driver, ToSet
<1>9. \A u \in ToSet(f) : \E s \in Slots(n) : s[1] = v /\ Driver(n, s) = u
  <2> TAKE u \in ToSet(f)
  <2>1. PICK i \in DOMAIN n.fanin[v] : u = n.fanin[v][i]
    BY DEF ToSet
  <2>2. <<v, i>> \in Slots(n) /\ Driver(n, <<v, i>>) = u
    BY <2>1, SlotsFinite DEF WellFormed, Driver
  <2> QED
    BY <2>2
<1>10. /\ \A s \in Slots(m) : s[1] = v => Driver(m, s) = d
       /\ \E s \in Slots(m) : s[1] = v /\ Driver(m, s) = d
  <2>1. DOMAIN m.fanin[v] = {1} /\ m.fanin[v][1] = d
    BY <1>1
  <2>2. <<v, 1>> \in Slots(m)
    BY <1>1, <2>1, SlotsFinite DEF WellFormed
  <2> QED
    BY <1>6, <2>1, <2>2 DEF Driver
<1>11. A \cap T = P
  <2>1. \A u \in T : u \in A <=> u \in P
    <3> TAKE u \in T
    <3>1. u \in A <=> \E s \in Slots(n) : Driver(n, s) = u /\ Crosses(n, u, s[1])
      BY DEF CutDrivers, CutSlots
    <3>2. u \in other <=> \E s \in Slots(n) : Driver(n, s) = u /\ s[1] # v /\ Crosses(n, u, s[1])
      BY DEF NodeFanouts
    <3> HIDE DEF T, f, g, A, other
    <3> QED
      BY <1>8, <1>9, <3>1, <3>2
  <2> QED
    BY <2>1
<1>12. \A u : Crosses(m, u, v) <=> Crosses(n, u, v)
  BY <1>1 DEF Crosses
<1>13. \A u : (\E s \in Slots(m) : Driver(m, s) = u /\ s[1] # v /\ Crosses(m, u, s[1]))
              <=> (\E s \in Slots(n) : Driver(n, s) = u /\ s[1] # v /\ Crosses(n, u, s[1]))
  <2>1. \A s : s[1] # v => (s \in Slots(n) <=> s \in Slots(m)) /\ (s \in Slots(n) => Driver(m, s) = Driver(n, s))
    <3> SUFFICES ASSUME NEW s, s[1] # v
                 PROVE  (s \in Slots(n) <=> s \in Slots(m)) /\ (s \in Slots(n) => Driver(m, s) = Driver(n, s))
      OBVIOUS
    <3>1. ASSUME s \in Slots(n) \/ s \in Slots(m) PROVE s = <<s[1], s[2]>> /\ s[1] \in n.node
      BY <1>1, <1>5, <1>6, <3>1
    <3> QED
      BY <1>7, <3>1
  <2>2. \A u, w : Crosses(m, u, w) <=> Crosses(n, u, w)
    BY <1>1 DEF Crosses
  <2> QED
    BY <2>1, <2>2
<1>14. \A u : u \in B <=> (\E s \in Slots(n) : Driver(n, s) = u /\ s[1] # v /\ Crosses(n, u, s[1]))
                          \/ (u = d /\ Crosses(n, u, v))
  <2> TAKE u
  <2>1. u \in B <=> \E s \in Slots(m) : Driver(m, s) = u /\ Crosses(m, u, s[1])
    BY DEF CutDrivers, CutSlots
  <2> HIDE DEF B
  <2> QED
    BY <1>10, <1>12, <1>13, <2>1
<1>15. B \cap T = Q
  <2>1. \A u \in T : u \in B <=> u \in Q
    <3> TAKE u \in T
    <3>1. u \in other <=> \E s \in Slots(n) : Driver(n, s) = u /\ s[1] # v /\ Crosses(n, u, s[1])
      BY DEF NodeFanouts
    <3> HIDE DEF T, f, g, B, other
    <3> QED
      BY <1>4, <1>14, <3>1
  <2> QED
    BY <2>1
<1>16. A \ T = B \ T
  <2>1. \A u : u \notin T => (u \in A <=> u \in B)
    <3> SUFFICES ASSUME NEW u, u \notin T PROVE u \in A <=> u \in B
      OBVIOUS
    <3>1. u \in A <=> \E s \in Slots(n) : Driver(n, s) = u /\ Crosses(n, u, s[1])
      BY DEF CutDrivers, CutSlots
    <3>2. u \notin ToSet(f) /\ u # d
      BY <1>4
    <3> HIDE DEF A, B, T, f, g
    <3> QED
      BY <1>8, <1>14, <3>1, <3>2
  <2> QED
    BY <2>1
<1>17. IsFiniteSet(A) /\ IsFiniteSet(B)
  <2>1. A \subseteq Vertices(n) /\ B \subseteq Vertices(m) /\ IsFiniteSet(Vertices(n)) /\ IsFiniteSet(Vertices(m))
    BY CutsTyped, VerticesFinite DEF WellFormed
  <2> QED
    BY <2>1, FS_Subset
<1> HIDE DEF A, B, P, Q, T, f, g
<1>18. /\ Cardinality(A \ T) = Cardinality(A) - Cardinality(P) /\ Cardinality(B \ T) = Cardinality(B) - Cardinality(Q)
  BY <1>11, <1>15, <1>17, FS_Difference
<1>19. Cardinality(P) \in Nat /\ Cardinality(Q) \in Nat /\ Cardinality(A) \in Nat /\ Cardinality(B) \in Nat
  <2>1. P \subseteq A /\ Q \subseteq B
    BY <1>11, <1>15
  <2>2. IsFiniteSet(P) /\ IsFiniteSet(Q)
    BY <1>17, <2>1, FS_Subset
  <2> QED
    BY <1>17, <2>2, FS_CardinalityType
<1>20. Cardinality(B) - Cardinality(A) = Cardinality(Q) - Cardinality(P)
  BY <1>16, <1>18, <1>19
<1> QED
  BY <1>2, <1>20 DEF CutNets, A, B, f, g

LEMMA JoinedKeeps ==
  \A n : \A v \in n.node : \A d, m : IsNetwork(n) /\ m = Joined(n, <<v, d>>) =>
    m.max = n.max /\ m.pi = n.pi /\ m.node = n.node
<1> SUFFICES ASSUME NEW n, NEW v \in n.node, NEW d, NEW m, IsNetwork(n), m = Joined(n, <<v, d>>)
             PROVE  m.max = n.max /\ m.pi = n.pi /\ m.node = n.node
  OBVIOUS
<1>1. DOMAIN n = Fields
  BY NetworkFields
<1> QED
  BY <1>1 DEF Joined, Fields

LEMMA JointsAre ==
  ASSUME NEW n, WellFormed(n), NEW j \in Joints(n)
  PROVE  /\ j = <<j[1], j[2]>> /\ j[1] \in n.node /\ j[2] \in n.node /\ j[1] # j[2]
         /\ WellFormed(Joined(n, j)) /\ Joined(n, j).max = n.max /\ Joined(n, j).node = n.node
         /\ CutNets(Joined(n, j)) - CutNets(n) = JointNetDelta(n, j[1], n.fanin[j[1]], <<j[2]>>)
<1>1. j \in n.node \X n.node /\ j[2] # j[1] /\ SameFanins(n, j[1], j[2])
  BY DEF Joints
<1>2. j = <<j[1], j[2]>> /\ j[1] \in n.node /\ j[2] \in n.node
  BY <1>1
<1> DEFINE v == j[1]
           d == j[2]
           m == Joined(n, <<v, d>>)
<1>3. v \in n.node /\ d \in n.node /\ v # d /\ SameFanins(n, v, d) /\ Joined(n, j) = m
  BY <1>1, <1>2
<1> HIDE DEF v, d, m
<1>m. m = Joined(n, <<v, d>>)
  BY DEF m
<1>4. Fanins(n, v) = Fanins(n, d)
  BY <1>3, SameFaninsSet DEF WellFormed
<1>5. WellFormed(m)
  BY <1>3, <1>4, <1>m, JoinedWellFormed
<1>6. m.max = n.max /\ m.node = n.node
  <2>1. IsNetwork(n)
    BY DEF WellFormed
  <2> QED
    BY ONLY <2>1, <1>3, <1>m, JoinedKeeps
<1>7. CutNets(m) - CutNets(n) = JointNetDelta(n, v, n.fanin[v], <<d>>)
  BY <1>3, <1>5, <1>m, JointPredicted
<1> QED
  BY <1>2, <1>3, <1>5, <1>6, <1>7 DEF v, d

----------------------------------------------------------------------------
(* Clusters *)
Clusters(n, u) == {C \in SUBSET n.node : u \in C}

LEMMA ExpansionsAre ==
  ASSUME NEW n, WellFormed(n), NEW u, NEW C \in Clusters(n, u), NEW p
  PROVE  Expansions(n, C, p) \in Seq(Clusters(n, u))
<1> DEFINE near == {s \in Slots(n) : s[1] \in C /\ Driver(n, s) \in n.node \ C /\ n.part[Driver(n, s)] # p}
           l == Listed(near, BySlot(near))
<1>1. /\ IsFiniteSet(Slots(n)) /\ \A s \in Slots(n) : s = <<s[1], s[2]>> /\ s[1] \in n.node /\ s[2] \in Nat
      /\ n.node \subseteq Nat
  BY SlotsFinite, VerticesFinite DEF WellFormed, Vertices
<1>2. \A s \in Slots(n) : s \in Seq(Int)
  <2> TAKE s \in Slots(n)
  <2>1. s = <<s[1], s[2]>> /\ s[1] \in Int /\ s[2] \in Int
    BY <1>1
  <2> DEFINE x == s[1]
             y == s[2]
  <2>2. x \in Int /\ y \in Int /\ s = <<x, y>>
    BY <2>1
  <2> HIDE DEF x, y
  <2> QED
    BY <2>2
<1>3. Orders(BySlot(near), near)
  <2>1. near \subseteq Slots(n)
    OBVIOUS
  <2> HIDE DEF near
  <2>2. \A s \in near : s \in Seq(Int)
    BY <1>2, <2>1
  <2>3. \A s, t \in near : <<s, t>> \in BySlot(near) <=> Before(s, t)
    BY DEF BySlot
  <2>4. \A s \in near : <<s, s>> \notin BySlot(near)
    BY <2>2, <2>3, BeforeNever
  <2>5. \A s, t \in near : s = t \/ <<s, t>> \in BySlot(near) \/ <<t, s>> \in BySlot(near)
    BY <2>2, <2>3, BeforeEither
  <2>6. \A s, t, r \in near : <<s, t>> \in BySlot(near) /\ <<t, r>> \in BySlot(near) => <<s, r>> \in BySlot(near)
    BY <2>2, <2>3, BeforeOnward
  <2> QED
    BY <2>4, <2>5, <2>6 DEF Orders
<1>4. IsFiniteSet(near)
  <2>1. near \subseteq Slots(n)
    OBVIOUS
  <2> HIDE DEF near
  <2> QED
    BY <1>1, <2>1, FS_Subset
<1>5. l \in Seq(near)
  <2> HIDE DEF near
  <2> QED
    BY <1>3, <1>4, ListedIs
<1>6. Expansions(n, C, p) = [i \in DOMAIN l |-> C \cup {Driver(n, l[i])}]
  BY DEF Expansions
<1>7. \A s \in near : C \cup {Driver(n, s)} \in Clusters(n, u)
  BY DEF Clusters
<1> HIDE DEF near, l
<1>8. DOMAIN l = 1 .. Len(l) /\ Len(l) \in Nat /\ \A i \in DOMAIN l : l[i] \in near
  BY <1>5
<1> DEFINE K == Clusters(n, u)
           e == [i \in 1 .. Len(l) |-> C \cup {Driver(n, l[i])}]
<1>9. \A i \in 1 .. Len(l) : e[i] \in K
  BY <1>7, <1>8
<1> HIDE DEF K
<1>10. e \in [1 .. Len(l) -> K]
  BY <1>9
<1>11. Expansions(n, C, p) = e
  BY <1>6, <1>8
<1> HIDE DEF e
<1>12. e \in Seq(K)
  BY <1>8, <1>10
<1> QED
  BY <1>11, <1>12 DEF K

LEMMA AppendedNew ==
  ASSUME NEW K, NEW s \in Seq(K), NEW t \in Seq(K)
  PROVE  AppendNew(s, t) \in Seq(K)
<1> DEFINE new == {i \in DOMAIN t : t[i] \notin ToSet(s) /\ \A j \in 1 .. i - 1 : t[j] # t[i]}
           l == Listed(new, ById(new))
           e == [k \in DOMAIN l |-> t[l[k]]]
<1>1. AppendNew(s, t) = s \o e
  BY DEF AppendNew
<1>2. new \subseteq 1 .. Len(t) /\ Len(t) \in Nat /\ \A i \in 1 .. Len(t) : t[i] \in K
  OBVIOUS
<1>3. IsFiniteSet(1 .. Len(t))
  BY <1>2, FS_Interval
<1> HIDE DEF new
<1>4. IsFiniteSet(new) /\ new \in SUBSET Nat
  <2>1. new \in SUBSET Nat
    BY <1>2
  <2> QED
    BY <1>2, <1>3, <2>1, FS_Subset
<1>5. Orders(ById(new), new)
  BY <1>4, ByIdOrders
<1>6. l \in Seq(new)
  BY <1>4, <1>5, ListedIs
<1> HIDE DEF l
<1>7. DOMAIN l = 1 .. Len(l) /\ Len(l) \in Nat /\ \A k \in 1 .. Len(l) : l[k] \in new
  BY <1>6
<1>8. \A k \in 1 .. Len(l) : t[l[k]] \in K
  BY <1>2, <1>7
<1>9. e \in [1 .. Len(l) -> K]
  BY <1>7, <1>8
<1> HIDE DEF e
<1>10. e \in Seq(K)
  BY <1>7, <1>9
<1> QED
  BY <1>1, <1>10, SeqsJoined

FindFields == {"driver", "part", "frontier", "next", "tried", "depth", "best", "txn"}

LEMMA AdvancedIs ==
  ASSUME NEW f, DOMAIN f = FindFields, NEW n, WellFormed(n),
         f.frontier \in Seq(Clusters(n, f.driver)), f.next \in Seq(Clusters(n, f.driver)),
         f.frontier # <<>>, NEW a, a = Advanced(f, n)
  PROVE  /\ DOMAIN a = FindFields /\ a.driver = f.driver /\ a.part = f.part /\ a.depth = f.depth
         /\ a.best = f.best /\ a.txn = NoTxn
         /\ a.frontier \in Seq(Clusters(n, f.driver)) /\ a.next \in Seq(Clusters(n, f.driver))
         /\ a.next # <<>> => f.next # <<>> \/ f.depth # MaxClusterDepth
<1> DEFINE K == Clusters(n, f.driver)
           C == Head(f.frontier)
           x == Expansions(n, C, f.part)
<1>1. C \in K /\ Tail(f.frontier) \in Seq(K)
  <2> DEFINE s == f.frontier
  <2>1. s \in Seq(K) /\ s # <<>>
    OBVIOUS
  <2> HIDE DEF s, K
  <2>2. Head(s) \in K /\ Tail(s) \in Seq(K)
    BY <2>1
  <2> QED
    BY <2>2 DEF s
<1>2. x \in Seq(K)
  <2> HIDE DEF C
  <2> QED
    BY <1>1, ExpansionsAre
<1>3. /\ DOMAIN a = FindFields /\ a.driver = f.driver /\ a.part = f.part /\ a.depth = f.depth
      /\ a.best = f.best /\ a.txn = NoTxn /\ a.frontier = Tail(f.frontier)
      /\ a.next = (IF f.depth = MaxClusterDepth \/ Cardinality(C) >= MaxClusterNodes THEN f.next
                   ELSE AppendNew(f.next, x))
  BY DEF Advanced, FindFields
<1> HIDE DEF C, x, K
<1>4. AppendNew(f.next, x) \in Seq(K)
  <2>1. f.next \in Seq(K)
    BY DEF K
  <2> QED
    BY <1>2, <2>1, AppendedNew
<1> QED
  BY <1>1, <1>3, <1>4 DEF K

----------------------------------------------------------------------------
(* The inductive invariant *)
LongPhases == {"relocate", "swap", "compound", "resub", "replicate", "repair"}
RoundPhases == {"relocate", "swap", "resub", "replicate"}
AllPhases == LongPhases \cup {"begin", "joint", "audit", "done"}
Searches == {"search", "open"}
Finds == {"find", "judge"}

(* Where the trajectory stands *)
Staged ==
  /\ phase \in AllPhases /\ step \in {"enter", "round", "try"} \cup Searches \cup Finds
  /\ step = "round" => phase \in LongPhases
  /\ step = "try" => phase \in RoundPhases
  /\ step \in Searches => phase = "compound"
  /\ step \in Finds => phase = "replicate"
  /\ tid \in 0 .. cfg.trajectories
  /\ phase \notin {"begin", "done"} => tid < cfg.trajectories
  /\ round \in 0 .. cfg.rounds /\ (step \notin {"enter", "round"} => round < cfg.rounds)
  /\ stall \in 0 .. cfg.stall /\ (step # "enter" => stall < cfg.stall)
  /\ best \in Nat

(* What the call has of the frame: the limits, and the valid results *)
Entered ==
  /\ WellFormed(frame)
  /\ cfg.rounds \in Nat /\ cfg.stall \in Nat \ {0} /\ cfg.trajectories \in Nat
  /\ limits.parts \in Nat \ {0} /\ limits.pct \in Nat /\ limits.budget \in Nat
  /\ IsFiniteSet(results)
  /\ \A r \in results :
       /\ WellFormed(r.net) /\ r.tid \in Nat
       /\ phase # "done" => Within(r.net, limits) /\ CutEdges(r.net) <= CutEdges(frame)

(* The network that the settled changes have made *)
Undecided == step \in Searches \cup Finds \/ <<phase, step>> \in {<<"resub", "try">>, <<"repair", "round">>}
Ground == IF Undecided THEN saved ELSE net

Settled ==
  /\ WellFormed(net) /\ WellFormed(saved) /\ used \in 0 .. limits.budget
  /\ phase \notin {"begin", "done"} =>
       /\ Within(Ground, limits) /\ CutEdges(Ground) <= CutEdges(frame)
       /\ Cardinality(Ground.node) <= Cardinality(frame.node) + used
  /\ <<phase, step>> = <<"resub", "try">> => CutEdges(net) <= CutEdges(saved)
  /\ <<phase, step>> = <<"repair", "round">> => net.node = saved.node

(* The sizes of the parts *)
Sized ==
  /\ \A p \in DOMAIN sizes : sizes[p] \in Nat
  /\ limit \in Nat
  /\ phase = "relocate" /\ step # "enter" => sizes = Sizes(net, limits.parts)
  /\ phase = "repair" /\ step = "round" => DOMAIN sizes = 0 .. limits.parts - 1

(* The candidates left *)
IsMovable(c) == c.node \in net.node /\ net.part[c.node] # NoPart
IsPair(c) == c.a \in net.node /\ c.b \in net.node
IsCut(c) == c.node \in Nat /\ c.node < net.max /\ (c.node \in net.node => <<c.node, c.slot>> \in CutSlots(net))
IsReplication(c) == c.driver \in Ground.node /\ c.part \in Nat

Listing ==
  /\ phase = "relocate" /\ step = "try" => \A c \in todo : IsMovable(c)
  /\ phase = "swap" /\ step = "try" => \A c \in todo : IsPair(c)
  /\ phase = "resub" /\ step = "try" => \A c \in todo : IsCut(c)
  /\ step \in {"try", "find", "judge"} /\ phase = "replicate" => \A c \in todo : IsReplication(c)

(* The search for relocations *)
IsBest(p) == IsPlan(saved, limits, p) /\ (p = NoPlan \/ p.delta < 0)
SearchFields == {"beam", "next", "best", "depth", "open"}

SearchTyped ==
  /\ DOMAIN search = SearchFields /\ IsFiniteSet(search.beam) /\ IsFiniteSet(search.next)
  /\ \A p \in search.beam \cup search.next : IsPlan(saved, limits, p)
  /\ IsBest(search.best)
  /\ search.depth \in 0 .. MaxDepth
  /\ search.depth < MaxDepth \/ (step = "search" /\ search.beam = {} /\ search.next = {})
  /\ Cardinality(search.beam) <= Max({1, BeamWidth})

Searched ==
  IF step \notin Searches THEN search = NoSearch
  ELSE /\ SearchTyped
       /\ step = "search" => net = saved
       /\ step = "open" => IsPlan(saved, limits, search.open) /\ net = Relocated(saved, search.open.steps)

(* The search for a cluster *)
IsFoundBest(c) ==
  LET n == Built(saved, c.nodes, find.driver, find.part) IN
  /\ c.nodes \in Clusters(saved, find.driver) /\ ~TooLarge(c.nodes)
  /\ c.edges < 0 /\ c.edges = CutEdges(n) - CutEdges(saved) /\ c.nets = CutNets(n) - CutNets(saved)
  /\ Within(n, limits)

FindTyped ==
  /\ DOMAIN find = FindFields /\ find.driver \in saved.node /\ find.part \in Nat
  /\ find.frontier \in Seq(Clusters(saved, find.driver)) /\ find.next \in Seq(Clusters(saved, find.driver))
  /\ find.best = NoCluster \/ IsFoundBest(find.best)
  /\ find.depth \in 0 .. MaxClusterDepth
  /\ find.next # <<>> => find.depth < MaxClusterDepth
  /\ net.max >= saved.max

Later(k) == [saved EXCEPT !.max = k]
BuiltOn(k) ==
  /\ net = Built(Later(k), Evaluated, find.driver, find.part)
  /\ find.txn = Txn(Later(k), Evaluated, find.driver, find.part)

Found ==
  IF step \notin Finds THEN find = NoFind
  ELSE /\ FindTyped
       /\ step = "find" => Same(net, saved)
       /\ step = "judge" => /\ find.frontier # <<>> /\ ~TooLarge(Evaluated)
                            /\ \E k \in saved.max .. net.max : BuiltOn(k)

Flagged == progress \in BOOLEAN

IInv == Staged /\ Flagged /\ Entered /\ Settled /\ Sized /\ Listing /\ Searched /\ Found

(* Init *)
LEMMA LimitsAre ==
  ASSUME NEW n, IsNetwork(n), NEW c,
         c \in [rounds : Nat, stall : Nat \ {0}, relocate : BOOLEAN, repair : BOOLEAN,
                trajectories : Nat, growth : Nat, cutnets : Nat, balance : Int, parts : Int, pct : Int],
         NEW l, l = EntryLimits(n, c)
  PROVE  l.parts \in Nat \ {0} /\ l.pct \in Nat /\ l.budget \in Nat
<1> DEFINE B == Percent(Cardinality(n.node), c.growth, FALSE)
<1>4. l.parts = Parts(n, c) /\ l.pct = BalancePct(c) /\ l.budget = B
  BY DEF EntryLimits
<1>5. Parts(n, c) \in Nat /\ Parts(n, c) >= 1
  BY PartsAre
<1>6. BalancePct(c) \in Nat
  BY DEF BalancePct
<1>7. B \in Nat
  <2> DEFINE N == Cardinality(n.node)
             g == c.growth
  <2>1. N \in Nat /\ g \in Nat
    BY VerticesFinite, FS_CardinalityType
  <2> HIDE DEF N, g
  <2>2. N * g \in Nat
    BY <2>1
  <2>3. (N * g + 0) \div 100 \in Nat
    BY <2>2
  <2>4. Percent(N, g, FALSE) \in Nat
    BY <2>1, <2>3 DEF Percent
  <2> QED
    BY <2>4 DEF N, g
<1> HIDE DEF B
<1> QED
  BY <1>4, <1>5, <1>6, <1>7

LEMMA InitInv == Init => IInv
<1> SUFFICES ASSUME Init
             PROVE  IInv
  OBVIOUS
<1>1. PICK i \in Inputs : frame = i.net /\ cfg = i.cfg
  BY DEF Init
<1>2. WellFormed(frame) /\ cfg \in [rounds : Nat, stall : Nat \ {0}, relocate : BOOLEAN, repair : BOOLEAN,
             trajectories : Nat, growth : Nat, cutnets : Nat, balance : Int, parts : Int, pct : Int]
  BY <1>1, InputsAssumption DEF WellFormed
<1>3. limits.parts \in Nat \ {0} /\ limits.pct \in Nat /\ limits.budget \in Nat
  BY <1>2, LimitsAre DEF Init, WellFormed
<1>c. cfg.rounds \in Nat /\ cfg.stall \in Nat \ {0} /\ cfg.trajectories \in Nat
  BY <1>2
<1>4. Staged
  BY <1>c DEF Init, Staged, AllPhases, LongPhases, Searches, Finds
<1>5. Entered
  BY <1>2, <1>3, FS_EmptySet DEF Init, Entered
<1>6. Settled
  BY <1>2, <1>3 DEF Init, Settled
<1>7. Sized
  BY DEF Init, Sized
<1>8. Listing /\ Searched /\ Found
  BY DEF Init, Listing, Searched, Found, Searches, Finds
<1>9. Flagged
  BY DEF Init, Flagged
<1> QED
  BY <1>4, <1>5, <1>6, <1>7, <1>8, <1>9 DEF IInv

----------------------------------------------------------------------------
(* A candidate taken from the list                                          *)
LEMMA TriedFrame ==
  ASSUME IInv, NEW p, NEW c, Try(p, c), step' = step, find' = find
  PROVE  Staged' /\ Entered' /\ Searched' /\ Found'
<1>1. /\ step = "try" /\ step' = "try" /\ phase' = phase /\ search' = search /\ find' = find
      /\ round' = round /\ stall' = stall /\ best' = best
      /\ frame' = frame /\ limits' = limits /\ cfg' = cfg /\ results' = results /\ tid' = tid
  BY DEF Try, entry
<1>2. Staged'
  BY <1>1 DEF IInv, Staged
<1>3. Entered'
  BY <1>1 DEF IInv, Entered
<1>4. Searched' /\ Found'
  BY <1>1 DEF IInv, Searched, Found, Searches, Finds
<1> QED
  BY <1>2, <1>3, <1>4

LEMMA TryKeeps ==
  ASSUME IInv, NEW p, NEW c, Try(p, c), Keep
  PROVE  IInv'
<1>1. /\ step = "try" /\ step' = "try" /\ phase' = phase /\ limit' = limit /\ net' = net /\ saved' = saved
      /\ used' = used /\ frame' = frame /\ limits' = limits /\ sizes' = sizes /\ todo' \subseteq todo
      /\ progress' = progress
  BY DEF Try, Keep, entry
<1>2. Staged' /\ Entered' /\ Searched' /\ Found'
  BY TriedFrame DEF Keep
<1>3. Ground' = Ground
  BY <1>1 DEF Ground, Undecided
<1>4. Settled'
  BY <1>1, <1>3 DEF IInv, Settled
<1>5. Sized'
  BY <1>1 DEF IInv, Sized
<1>6. Listing'
  BY <1>1, <1>3 DEF IInv, Listing, IsMovable, IsPair, IsCut, IsReplication
<1>7. Flagged'
  BY <1>1 DEF IInv, Flagged
<1> QED
  BY <1>2, <1>4, <1>5, <1>6, <1>7 DEF IInv

(* A change that is accepted: with the limits held and fewer cut-edges, the *)
(* ground is what it was.                                                   *)
LEMMA CommitKeeps ==
  ASSUME IInv, NEW p \in {"relocate", "swap"}, NEW c, Try(p, c), NEW n, Commit(n), WellFormed(n), Audit(n),
         n.node = net.node, CutEdges(n) <= CutEdges(net)
  PROVE  Staged' /\ Entered' /\ Searched' /\ Found' /\ Settled' /\ Flagged'
<1>1. /\ step = "try" /\ step' = "try" /\ phase = p /\ phase' = p /\ net' = n /\ saved' = saved
      /\ used' = used /\ frame' = frame /\ limits' = limits /\ progress' = TRUE
  BY DEF Try, Commit, entry
<1>2. Staged' /\ Entered' /\ Searched' /\ Found'
  BY TriedFrame DEF Commit
<1>3. Flagged'
  BY <1>1 DEF Flagged
<1>4. Ground = net /\ Ground' = n
  BY <1>1 DEF Ground, Undecided, Searches, Finds
<1>5. Within(n, limits)
  BY DEF Audit
<1>6. /\ CutEdges(n) \in Nat /\ CutEdges(net) \in Nat /\ CutEdges(frame) \in Nat
  BY SlotsFinite DEF IInv, Settled, Entered, WellFormed
<1>7. Settled'
  BY <1>1, <1>4, <1>5, <1>6 DEF IInv, Settled
<1> QED
  BY <1>2, <1>3, <1>7

LEMMA MoveNodeKeeps ==
  ASSUME IInv, NEW c \in todo, MoveNode(c)
  PROVE  IInv' /\ CutEdges(net') < CutEdges(net)
<1> DEFINE v == c.node
<1>1. PICK p \in BestTargets(net, v) :
        /\ MayMove(v, p) /\ Commit(Moved(net, v, p)) /\ sizes' = SizesMoved(sizes, net.part[v], p)
  BY DEF MoveNode
<1>t. Try("relocate", c)
  BY DEF MoveNode
<1>2. /\ phase = "relocate" /\ step = "try" /\ phase' = phase /\ step' = step /\ limits' = limits
      /\ limit' = limit /\ todo' \subseteq todo /\ net' = Moved(net, v, p)
  BY <1>1, <1>t DEF Try, Commit, entry
<1>3. WellFormed(net) /\ v \in net.node /\ v \in Vertices(net) /\ net.part[v] # NoPart
  BY <1>2 DEF IInv, Settled, Listing, IsMovable, Vertices
<1> HIDE DEF v
<1>4. p \in Nat /\ p # NoPart /\ p # net.part[v] /\ IncidentCross(net, v, p) < IncidentCross(net, v, net.part[v])
  BY <1>3, TargetsAre
<1>5. CutEdges(net') < CutEdges(net)
  BY <1>2, <1>3, <1>4, MoveLowers
<1>6. /\ WellFormed(net') /\ IsReparted(net', net) /\ Vertices(net') = Vertices(net)
      /\ net'.part[v] = p /\ \A w \in Vertices(net) : w # v => net'.part[w] = net.part[w]
  BY <1>2, <1>3, <1>4, MovedFrom
<1>7. Staged' /\ Entered' /\ Searched' /\ Found' /\ Settled' /\ Flagged'
  <2>1. Audit(net') /\ Commit(net') /\ net'.node = net.node
    BY <1>1, <1>2, <1>6 DEF MayMove, IsReparted
  <2>2. CutEdges(net') \in Nat /\ CutEdges(net) \in Nat
    BY <1>3, <1>6, SlotsFinite DEF WellFormed
  <2>3. CutEdges(net') <= CutEdges(net)
    BY <1>5, <2>2
  <2> QED
    BY <1>6, <1>t, <2>1, <2>3, CommitKeeps
<1>8. Sized'
  <2>1. limits.parts \in Nat /\ sizes = Sizes(net, limits.parts) /\ limit \in Nat
    BY <1>2 DEF IInv, Sized, Entered
  <2>2. sizes' = Sizes(net', limits.parts)
    BY <1>1, <1>2, <1>3, <1>4, <2>1, SizesFollow
  <2>3. \A r \in DOMAIN sizes' : sizes'[r] \in Nat
    BY <1>6, <2>1, <2>2, SizesAre DEF WellFormed
  <2> QED
    BY <1>2, <2>1, <2>2, <2>3 DEF Sized
<1>9. Listing'
  <2>1. \A d \in todo : d.node \in net.node /\ net.part[d.node] # NoPart
    BY <1>2 DEF IInv, Listing, IsMovable
  <2>2. \A d \in todo : d.node \in net'.node /\ net'.part[d.node] # NoPart
    BY <1>4, <1>6, <2>1 DEF IsReparted, Vertices
  <2> QED
    BY <1>2, <2>2 DEF Listing, IsMovable
<1> QED
  BY <1>5, <1>7, <1>8, <1>9 DEF IInv

LEMMA SwapPairKeeps ==
  ASSUME IInv, NEW c \in todo, SwapPair(c)
  PROVE  IInv' /\ CutEdges(net') < CutEdges(net)
<1> DEFINE a == c.a
           b == c.b
           m == Moved(net, a, net.part[b])
<1>1. Try("swap", c) /\ MaySwap(c) /\ Commit(Swapped(net, a, b)) /\ UNCHANGED sizes
  BY DEF SwapPair
<1>2. /\ phase = "swap" /\ step = "try" /\ phase' = phase /\ step' = step /\ limits' = limits
      /\ limit' = limit /\ todo' \subseteq todo /\ net' = Swapped(net, a, b) /\ sizes' = sizes
  BY <1>1 DEF Try, Commit, entry
<1>3. WellFormed(net) /\ a \in net.node /\ b \in net.node /\ a \in Vertices(net) /\ b \in Vertices(net)
  BY <1>2 DEF IInv, Settled, Listing, IsPair, Vertices
<1>4. Audit(net') /\ CutEdges(net') < CutEdges(net)
  BY <1>1, <1>2 DEF MaySwap
<1>5. net' = Moved(m, b, net.part[a])
  BY <1>2 DEF Swapped
<1> HIDE DEF a, b
<1>6. net.part[a] \in Nat \cup {NoPart} /\ net.part[b] \in Nat \cup {NoPart}
  BY <1>3, Typed DEF WellFormed
<1>7. WellFormed(m) /\ IsReparted(m, net) /\ Vertices(m) = Vertices(net)
  BY <1>3, <1>6, MovedFrom
<1> HIDE DEF m
<1>8. WellFormed(net') /\ IsReparted(net', m)
  BY <1>3, <1>5, <1>6, <1>7, MovedFrom
<1>9. Staged' /\ Entered' /\ Searched' /\ Found' /\ Settled' /\ Flagged'
  <2>1. Commit(net') /\ net'.node = net.node
    BY <1>1, <1>2, <1>7, <1>8 DEF IsReparted
  <2>2. CutEdges(net') \in Nat /\ CutEdges(net) \in Nat
    BY <1>3, <1>8, SlotsFinite DEF WellFormed
  <2>3. CutEdges(net') <= CutEdges(net)
    BY <1>4, <2>2
  <2> QED
    BY <1>1, <1>4, <1>8, <2>1, <2>3, CommitKeeps
<1>10. Sized'
  BY <1>2 DEF IInv, Sized
<1>11. Listing'
  BY <1>2, <1>7, <1>8 DEF IInv, Listing, IsPair, IsReparted
<1> QED
  BY <1>4, <1>9, <1>10, <1>11 DEF IInv

----------------------------------------------------------------------------
(* Resubstitution, and the steps that leave a phase                         *)
LEMMA ResubNodeKeeps ==
  ASSUME IInv, NEW c \in todo, ResubNode(c)
  PROVE  IInv' /\ CutEdges(net') < CutEdges(net)
<1> DEFINE v == c.node
           s == c.slot
<1>t. /\ Try("resub", c) /\ v \in net.node /\ s <= Len(net.fanin[v]) /\ sizes' = sizes
  BY DEF ResubNode
<1>r. PICK D \in DivisorSets(net, v) : \E t \in Interpolants(net, v, Reads(net, v, s, D)) :
                                            Commit(Resubbed(net, v, Reads(net, v, s, D), t))
  BY DEF ResubNode, Reads
<1> DEFINE f == Reads(net, v, s, D)
<1>1. PICK t \in Interpolants(net, v, f) : Commit(Resubbed(net, v, f, t))
  BY <1>r
<1>2. /\ phase = "resub" /\ step = "try" /\ phase' = phase /\ step' = step /\ limits' = limits
      /\ limit' = limit /\ todo' \subseteq todo /\ net' = Resubbed(net, v, f, t) /\ sizes' = sizes
      /\ saved' = saved /\ used' = used /\ frame' = frame /\ progress' = TRUE /\ find' = find
  BY <1>1, <1>t DEF Try, Commit, entry
<1>3. WellFormed(net) /\ WellFormed(saved) /\ <<v, s>> \in CutSlots(net)
  BY <1>2, <1>t DEF IInv, Settled, Listing, IsCut
<1>a. \A d \in todo : IsCut(d)
  BY <1>2 DEF IInv, Listing
<1> HIDE DEF v, s, f
<1>4. s \in 1 .. Len(net.fanin[v])
  <2>1. <<v, s>> \in Slots(net)
    BY <1>3 DEF CutSlots
  <2>2. s \in DOMAIN net.fanin[v]
    BY <1>3, <2>1, SlotsFinite DEF WellFormed
  <2>3. net.fanin[v] \in Seq(Vertices(net))
    BY <1>3, <1>t, Typed DEF WellFormed
  <2> QED
    BY <2>2, <2>3
<1>5. /\ WellFormed(net') /\ net'.max = net.max + 1 /\ net'.node \subseteq (net.node \ {v}) \cup {net.max}
      /\ \A e \in CutSlots(net) : e[1] \in net'.node => e \in CutSlots(net')
      /\ CutEdges(net') < CutEdges(net)
  BY <1>1, <1>2, <1>3, <1>4, <1>t, ResubIs DEF f
<1>6. Staged' /\ Entered' /\ Searched' /\ Found'
  BY <1>t, <1>2, TriedFrame
<1>7. Flagged'
  BY <1>2 DEF Flagged
<1>8. Settled'
  <2>1. Ground = saved /\ Ground' = saved
    BY <1>2 DEF Ground, Undecided
  <2>2. CutEdges(net') \in Nat /\ CutEdges(net) \in Nat /\ CutEdges(saved) \in Nat
    BY <1>3, <1>5, SlotsFinite DEF WellFormed
  <2>3. CutEdges(net) <= CutEdges(saved)
    BY <1>2 DEF IInv, Settled
  <2>4. CutEdges(net') <= CutEdges(saved)
    BY <1>5, <2>2, <2>3
  <2> QED
    BY <1>2, <1>3, <1>5, <2>1, <2>4 DEF IInv, Settled
<1>9. Sized'
  BY <1>2 DEF IInv, Sized
<1>10. Listing'
  <2>1. ASSUME NEW d \in todo
        PROVE  /\ d.node \in Nat /\ d.node < net'.max
               /\ d.node \in net'.node => <<d.node, d.slot>> \in CutSlots(net')
    <3>1. /\ d.node \in Nat /\ d.node < net.max /\ net.max \in Nat
          /\ d.node \in net.node => <<d.node, d.slot>> \in CutSlots(net)
      BY <1>3, <1>a, Typed DEF IsCut, WellFormed
    <3>2. d.node \in net'.node => d.node \in net.node
      BY <1>5, <3>1
    <3> QED
      BY <1>5, <3>1, <3>2
  <2> QED
    BY <1>2, <2>1 DEF Listing, IsCut
<1> QED
  BY <1>5, <1>6, <1>7, <1>8, <1>9, <1>10 DEF IInv

(* The end of a phase *)
LEMMA NextPhaseIs ==
  ASSUME phase \in LongPhases \cup {"joint"}
  PROVE  NextPhase \in (LongPhases \cup {"joint", "audit"}) \ {"relocate"}
BY DEF LongPhases, NextPhase

LEMMA LeaveKeeps ==
  ASSUME IInv, phase \in LongPhases \cup {"joint"}, step \notin Finds, NEW n, LeaveWith(n), WellFormed(n),
         Within(n, limits), CutEdges(n) <= CutEdges(frame),
         Cardinality(n.node) <= Cardinality(frame.node) + used
  PROVE  IInv'
<1>1. /\ net' = n /\ phase' = NextPhase /\ step' = "enter" /\ saved' = frame /\ search' = NoSearch
      /\ used' = used /\ find' = find /\ sizes' = sizes /\ limit' = limit
      /\ round' = round /\ stall' = stall /\ best' = best /\ progress' = progress
      /\ frame' = frame /\ limits' = limits /\ cfg' = cfg /\ results' = results /\ tid' = tid
  BY DEF LeaveWith, entry, loop
<1>2. phase' \in (LongPhases \cup {"joint", "audit"}) \ {"relocate"}
  BY <1>1, NextPhaseIs
<1>3. phase' \in AllPhases /\ phase \notin {"begin", "done"} /\ phase' # "done" /\ phase' # "begin"
  BY <1>2 DEF AllPhases, LongPhases
<1>4. Staged'
  BY <1>1, <1>3 DEF IInv, Staged, Searches, Finds
<1>5. Entered'
  BY <1>1, <1>3 DEF IInv, Entered
<1>6. Settled'
  <2>1. Ground' = n
    BY <1>1 DEF Ground, Undecided, Searches, Finds
  <2> QED
    BY <1>1, <2>1 DEF IInv, Settled, Entered
<1>7. Sized'
  BY <1>1 DEF IInv, Sized
<1>8. Listing' /\ Searched' /\ Found' /\ Flagged'
  BY <1>1 DEF IInv, Listing, Searched, Found, Flagged, Searches, Finds
<1> QED
  BY <1>4, <1>5, <1>6, <1>7, <1>8 DEF IInv

(* The ground, with the limits *)
LEMMA GroundHolds ==
  ASSUME IInv, phase \notin {"begin", "done"}
  PROVE  /\ WellFormed(Ground) /\ Within(Ground, limits) /\ CutEdges(Ground) <= CutEdges(frame)
         /\ Cardinality(Ground.node) <= Cardinality(frame.node) + used
         /\ WellFormed(net) /\ WellFormed(saved) /\ WellFormed(frame)
         /\ CutEdges(net) \in Nat /\ CutEdges(saved) \in Nat /\ CutEdges(frame) \in Nat
         /\ CutEdges(Ground) \in Nat
         /\ Cardinality(net.node) \in Nat /\ Cardinality(saved.node) \in Nat /\ Cardinality(frame.node) \in Nat
         /\ used \in Nat /\ limits.budget \in Nat /\ used <= limits.budget
<1>1. WellFormed(net) /\ WellFormed(saved) /\ WellFormed(frame)
  BY DEF IInv, Settled, Entered
<1>2. WellFormed(Ground)
  BY <1>1 DEF Ground
<1>3. \A n : WellFormed(n) => CutEdges(n) \in Nat /\ Cardinality(n.node) \in Nat
  BY SlotsFinite, VerticesFinite, FS_CardinalityType DEF WellFormed
<1>4. used \in 0 .. limits.budget /\ limits.budget \in Nat
  BY DEF IInv, Settled, Entered
<1>5. /\ Within(Ground, limits) /\ CutEdges(Ground) <= CutEdges(frame)
      /\ Cardinality(Ground.node) <= Cardinality(frame.node) + used
  BY DEF IInv, Settled
<1> QED
  BY <1>1, <1>2, <1>3, <1>4, <1>5

LEMMA LeavingKeeps ==
  ASSUME IInv, phase \in LongPhases \cup {"joint"}, step \notin Finds, LeaveWith(Ground)
  PROVE  IInv'
<1>1. phase \notin {"begin", "done"}
  BY DEF LongPhases
<1> QED
  BY <1>1, GroundHolds, LeaveKeeps

LEMMA LeavePhaseKeeps ==
  ASSUME IInv, LeavePhase
  PROVE  IInv'
<1>1. step = "round" /\ InRounds /\ LeaveWith(net)
  BY DEF LeavePhase
<1>2. Ground = net /\ phase \in LongPhases \cup {"joint"} /\ step \notin Finds
  BY <1>1 DEF Ground, Undecided, InRounds, LongPhases, Searches, Finds
<1> QED
  BY <1>1, <1>2, LeavingKeeps

LEMMA RollRoundBackKeeps ==
  ASSUME IInv, RollRoundBack
  PROVE  IInv'
<1>1. step = "try" /\ phase = "resub" /\ LeaveWith(saved)
  BY DEF RollRoundBack
<1>2. Ground = saved /\ phase \in LongPhases \cup {"joint"} /\ step \notin Finds
  BY <1>1 DEF Ground, Undecided, LongPhases, Finds
<1> QED
  BY <1>1, <1>2, LeavingKeeps

LEMMA EndSearchKeeps ==
  ASSUME IInv, EndSearch
  PROVE  IInv'
<1>1. step = "search" /\ phase = "compound" /\ LeaveWith(net)
  BY DEF EndSearch, SearchOver
<1>2. net = saved
  BY <1>1 DEF IInv, Searched, Searches
<1>3. Ground = saved /\ phase \in LongPhases \cup {"joint"} /\ step \notin Finds
  BY <1>1 DEF Ground, Undecided, LongPhases, Finds, Searches
<1> QED
  BY <1>1, <1>2, <1>3, LeavingKeeps

LEMMA EndCompoundKeeps ==
  ASSUME IInv, EndCompound
  PROVE  IInv'
<1>1. step = "round" /\ phase = "compound" /\ LeaveWith(net)
  BY DEF EndCompound
<1>2. Ground = net /\ phase \in LongPhases \cup {"joint"} /\ step \notin Finds
  BY <1>1 DEF Ground, Undecided, LongPhases, Finds, Searches
<1> QED
  BY <1>1, <1>2, LeavingKeeps

LEMMA AtJoint ==
  ASSUME IInv, phase = "joint"
  PROVE  step = "enter" /\ Ground = net /\ step \notin Finds
BY DEF IInv, Staged, LongPhases, RoundPhases, Searches, Finds, Ground, Undecided

LEMMA JoinNoneKeeps ==
  ASSUME IInv, JoinNone
  PROVE  IInv'
BY AtJoint, LeavingKeeps DEF JoinNone

LEMMA JoinNodeKeeps ==
  ASSUME IInv, NEW j, JoinNode(j)
  PROVE  IInv' /\ CutEdges(net') < CutEdges(net)
<1>1. phase = "joint" /\ j \in Joints(net) /\ MayJoin(j) /\ LeaveWith(Joined(net, j))
  BY DEF JoinNode
<1>2. step = "enter" /\ Ground = net /\ step \notin Finds
  BY <1>1, AtJoint
<1>3. /\ WellFormed(net) /\ CutEdges(net) \in Nat /\ CutEdges(frame) \in Nat /\ CutEdges(net) <= CutEdges(frame)
      /\ Cardinality(net.node) <= Cardinality(frame.node) + used
  BY <1>1, <1>2, GroundHolds
<1> DEFINE n == Joined(net, j)
<1>4. WellFormed(n) /\ n.node = net.node
  BY <1>1, <1>3, JointsAre
<1>5. CutEdges(n) < CutEdges(net) /\ Within(n, limits)
  BY <1>1 DEF MayJoin, Audit
<1>a. LeaveWith(n) /\ net' = n
  BY <1>1 DEF LeaveWith
<1> HIDE DEF n
<1>6. CutEdges(n) \in Nat
  BY <1>4, SlotsFinite DEF WellFormed
<1>7. CutEdges(n) <= CutEdges(frame)
  BY <1>3, <1>5, <1>6
<1>8. IInv'
  BY <1>1, <1>2, <1>3, <1>4, <1>5, <1>7, <1>a, LeaveKeeps
<1> QED
  BY <1>5, <1>8, <1>a

LEMMA EndRepairKeeps ==
  ASSUME IInv, EndRepair
  PROVE  IInv'
<1>1. phase = "repair" /\ step = "round" /\ LeaveWith(IF Repaired THEN net ELSE saved)
  BY DEF EndRepair
<1>2. Ground = saved /\ phase \in LongPhases \cup {"joint"} /\ step \notin Finds /\ phase \notin {"begin", "done"}
  BY <1>1 DEF Ground, Undecided, LongPhases, Finds, Searches
<1>3. CASE ~Repaired
  BY <1>1, <1>2, <1>3, LeavingKeeps
<1>4. CASE Repaired
  <2>1. CutEdges(net) <= CutEdges(saved) /\ Within(net, limits)
    BY <1>4 DEF Repaired, Audit
  <2>2. net.node = saved.node
    BY <1>1 DEF IInv, Settled
  <2>3. /\ WellFormed(net) /\ CutEdges(net) \in Nat /\ CutEdges(frame) \in Nat /\ CutEdges(saved) \in Nat
        /\ CutEdges(saved) <= CutEdges(frame)
        /\ Cardinality(net.node) <= Cardinality(frame.node) + used
    BY <1>2, <2>2, GroundHolds
  <2>4. CutEdges(net) <= CutEdges(frame)
    BY <2>1, <2>3
  <2> QED
    BY <1>1, <1>2, <1>4, <2>1, <2>3, <2>4, LeaveKeeps
<1> QED
  BY <1>3, <1>4

----------------------------------------------------------------------------
(* The steps that begin a trajectory, a phase and a round                   *)
LEMMA AtEnter ==
  ASSUME IInv, phase \in {"begin", "joint", "audit", "done"}
  PROVE  step = "enter" /\ Ground = net /\ find = NoFind /\ search = NoSearch
BY DEF IInv, Staged, LongPhases, RoundPhases, Searches, Finds, Ground, Undecided, Found, Searched

LEMMA Measures ==
  ASSUME NEW n, WellFormed(n)
  PROVE  CutEdges(n) \in Nat /\ CutNets(n) \in Nat /\ HopNum(n) \in Nat /\ Cardinality(n.node) \in Nat
BY SlotsFinite, CutsTyped, ArrivalIs, VerticesFinite, FS_CardinalityType DEF WellFormed

LEMMA BeginKeeps ==
  ASSUME IInv, Begin
  PROVE  IInv'
<1>1. /\ phase = "begin" /\ tid < cfg.trajectories /\ net' = frame /\ used' = 0
      /\ frame' = frame /\ limits' = limits /\ cfg' = cfg /\ results' = results /\ step' = step
      /\ round' = round /\ stall' = stall /\ best' = best /\ progress' = progress
      /\ todo' = todo /\ sizes' = sizes /\ limit' = limit /\ saved' = saved /\ search' = search /\ find' = find
      /\ IF Within(frame, limits) THEN phase' \in {"relocate", "joint"} /\ tid' = tid
                                  ELSE phase' = "begin" /\ tid' = tid + 1
  BY DEF Begin, loop
<1>2. step = "enter" /\ find = NoFind /\ search = NoSearch
  BY <1>1, AtEnter
<1>3. Staged'
  BY <1>1, <1>2 DEF IInv, Staged, Entered, AllPhases, LongPhases, Searches, Finds
<1>4. Entered'
  BY <1>1 DEF IInv, Entered
<1>5. Settled'
  <2>1. Ground' = frame
    BY <1>1, <1>2 DEF Ground, Undecided, Searches, Finds
  <2>2. WellFormed(frame) /\ WellFormed(saved) /\ limits.budget \in Nat
    BY DEF IInv, Entered, Settled
  <2>3. CutEdges(frame) \in Nat /\ Cardinality(frame.node) \in Nat
    BY <2>2, Measures
  <2> QED
    BY <1>1, <1>2, <2>1, <2>2, <2>3 DEF Settled
<1>6. Sized' /\ Flagged'
  BY <1>1, <1>2 DEF IInv, Sized, Flagged
<1>7. Listing' /\ Searched' /\ Found'
  BY <1>1, <1>2 DEF Listing, Searched, Found, Searches, Finds
<1> QED
  BY <1>3, <1>4, <1>5, <1>6, <1>7 DEF IInv

LEMMA EnterKeeps ==
  ASSUME IInv, Enter
  PROVE  IInv'
<1>1. /\ step = "enter" /\ phase \in LongPhases /\ step' = "round" /\ phase' = phase
      /\ round' = 0 /\ stall' = 0 /\ progress' = FALSE /\ best' = CutEdges(net)
      /\ net' = net /\ used' = used /\ search' = search /\ find' = find
      /\ frame' = frame /\ limits' = limits /\ cfg' = cfg /\ results' = results /\ tid' = tid
      /\ saved' = (IF phase = "repair" THEN net ELSE frame)
  BY DEF Enter, LongPhases, entry
<1>2. IF phase \in {"relocate", "repair"}
      THEN sizes' = Sizes(net, limits.parts) /\ limit' = MaxAllowed(sizes', limits.pct)
      ELSE sizes' = sizes /\ limit' = limit
  BY DEF Enter
<1>3. phase \notin {"begin", "done"} /\ phase' \in AllPhases /\ Ground = net /\ search = NoSearch /\ find = NoFind
  BY <1>1 DEF LongPhases, AllPhases, Ground, Undecided, Searches, Finds, IInv, Found, Searched
<1>4. Ground' = net
  BY <1>1 DEF Ground, Undecided, Searches, Finds
<1>5. /\ WellFormed(net) /\ WellFormed(frame) /\ Within(net, limits) /\ CutEdges(net) <= CutEdges(frame)
      /\ CutEdges(net) \in Nat
  BY <1>3, GroundHolds
<1>6. Staged'
  BY <1>1, <1>3, <1>5 DEF IInv, Staged, Entered, Searches, Finds
<1>7. Entered'
  BY <1>1 DEF IInv, Entered
<1>8. Settled'
  BY <1>1, <1>3, <1>4, <1>5 DEF IInv, Settled
<1>9. Sized'
  <2>1. CASE phase \in {"relocate", "repair"}
    <3>1. limits.parts \in Nat /\ limits.parts >= 1 /\ limits.pct \in Nat
      BY DEF IInv, Entered
    <3>2. DOMAIN sizes' = 0 .. limits.parts - 1 /\ \A r \in 0 .. limits.parts - 1 : sizes'[r] \in Nat
      BY <1>2, <1>5, <2>1, <3>1, SizesAre DEF WellFormed
    <3>3. IsFiniteSet(0 .. limits.parts - 1) /\ 0 .. limits.parts - 1 # {}
      <4>1. limits.parts - 1 \in Int /\ 0 \in 0 .. limits.parts - 1
        BY <3>1
      <4>2. IsFiniteSet(0 .. limits.parts - 1)
        BY <4>1, FS_Interval
      <4> QED
        BY <4>1, <4>2
    <3>4. MaxAllowed(sizes', limits.pct) \in Nat
      BY <3>1, <3>2, <3>3, LimitNat
    <3> QED
      BY <1>1, <1>2, <2>1, <3>2, <3>4 DEF Sized
  <2>2. CASE phase \notin {"relocate", "repair"}
    BY <1>1, <1>2, <2>2 DEF IInv, Sized
  <2> QED
    BY <2>1, <2>2
<1>10. Listing' /\ Searched' /\ Found'
  BY <1>1, <1>3 DEF Listing, Searched, Found, Searches, Finds
<1>11. Flagged'
  BY <1>1 DEF Flagged
<1> QED
  BY <1>6, <1>7, <1>8, <1>9, <1>10, <1>11 DEF IInv

LEMMA CandidatesAre ==
  ASSUME NEW n, WellFormed(n)
  PROVE  /\ \A c \in Moves(n) : c.node \in n.node /\ n.part[c.node] # NoPart
         /\ \A c \in Pairs(n) : c.a \in n.node /\ c.b \in n.node
         /\ \A c \in CutCandidates(n) :
              c.node \in Nat /\ c.node < n.max /\ c.node \in n.node /\ <<c.node, c.slot>> \in CutSlots(n)
         /\ \A c \in Replications(n) : c.driver \in n.node /\ c.part \in Nat
<1>1. \A c \in Moves(n) : c.node \in n.node /\ n.part[c.node] # NoPart
  BY DEF Moves
<1>2. \A c \in Pairs(n) : c.a \in n.node /\ c.b \in n.node
  BY DEF Pairs
<1>3. ASSUME NEW c \in CutCandidates(n)
      PROVE  c.node \in Nat /\ c.node < n.max /\ c.node \in n.node /\ <<c.node, c.slot>> \in CutSlots(n)
  BY <1>3, CutCandidatesAre
<1>4. \A c \in Replications(n) : c.driver \in n.node /\ c.part \in Nat
  BY ReplicationsAre
<1> QED
  BY <1>1, <1>2, <1>3, <1>4

LEMMA StartRoundKeeps ==
  ASSUME IInv, StartRound
  PROVE  IInv'
<1>1. /\ step = "round" /\ phase \in RoundPhases /\ step' = "try" /\ phase' = phase /\ round # cfg.rounds
      /\ todo' = Candidates /\ progress' = FALSE
      /\ net' = net /\ used' = used /\ search' = search /\ find' = find
      /\ round' = round /\ stall' = stall /\ best' = best /\ sizes' = sizes /\ limit' = limit
      /\ frame' = frame /\ limits' = limits /\ cfg' = cfg /\ results' = results /\ tid' = tid
      /\ saved' = (IF phase = "resub" THEN net ELSE saved)
  BY DEF StartRound, NoRound, InRounds, RoundPhases, entry
<1>2. phase \notin {"begin", "done"} /\ Ground = net /\ search = NoSearch /\ find = NoFind
  BY <1>1 DEF RoundPhases, Ground, Undecided, Searches, Finds, IInv, Found, Searched
<1>3. Ground' = net
  BY <1>1 DEF Ground, Undecided, Searches, Finds, RoundPhases
<1>4. /\ WellFormed(net) /\ Within(net, limits) /\ CutEdges(net) \in Nat
  BY <1>2, GroundHolds
<1>5. Staged'
  BY <1>1 DEF IInv, Staged, Entered, Searches, Finds
<1>6. Entered'
  BY <1>1 DEF IInv, Entered
<1>7. Settled'
  BY <1>1, <1>2, <1>3, <1>4 DEF IInv, Settled, RoundPhases
<1>8. Sized'
  BY <1>1 DEF IInv, Sized, RoundPhases
<1>9. Listing'
  <2>1. CASE phase = "relocate"
    BY <1>1, <1>4, <2>1, CandidatesAre DEF Listing, Candidates, IsMovable
  <2>2. CASE phase = "swap"
    BY <1>1, <1>4, <2>2, CandidatesAre DEF Listing, Candidates, IsPair
  <2>3. CASE phase = "resub"
    BY <1>1, <1>4, <2>3, CandidatesAre DEF Listing, Candidates, IsCut
  <2>4. CASE phase = "replicate"
    BY <1>1, <1>3, <1>4, <2>4, CandidatesAre DEF Listing, Candidates, IsReplication
  <2> QED
    BY <1>1, <2>1, <2>2, <2>3, <2>4 DEF RoundPhases
<1>10. Searched' /\ Found'
  BY <1>1, <1>2 DEF Searched, Found, Searches, Finds
<1>11. Flagged'
  BY <1>1 DEF Flagged
<1> QED
  BY <1>5, <1>6, <1>7, <1>8, <1>9, <1>10, <1>11 DEF IInv

----------------------------------------------------------------------------
(* The end of a round *)
Holds(n, u) ==
  /\ WellFormed(n) /\ u \in 0 .. limits.budget /\ Within(n, limits) /\ CutEdges(n) <= CutEdges(frame)
  /\ Cardinality(n.node) <= Cardinality(frame.node) + u

LEMMA KeepRoundHolds ==
  ASSUME IInv, phase = "resub", step = "try", KeepRound
  PROVE  Holds(net', used') /\ saved' = frame
<1> DEFINE n == Cleaned(net)
           g == Growth
<1>1. /\ used <= limits.budget - g \/ ~(limits.budget - used < g)
      /\ Within(n, limits) /\ net' = n /\ used' = used + g /\ saved' = frame
  BY DEF KeepRound, RoundFails, Remaining, Audit
<1>2. Ground = saved /\ phase \notin {"begin", "done"}
  BY DEF Ground, Undecided
<1>3. /\ WellFormed(net) /\ WellFormed(saved) /\ CutEdges(net) \in Nat /\ CutEdges(saved) \in Nat
      /\ CutEdges(frame) \in Nat /\ CutEdges(saved) <= CutEdges(frame)
      /\ Cardinality(saved.node) <= Cardinality(frame.node) + used
      /\ Cardinality(saved.node) \in Nat /\ Cardinality(frame.node) \in Nat
      /\ used \in Nat /\ limits.budget \in Nat /\ used <= limits.budget
  BY <1>2, GroundHolds
<1>4. CutEdges(net) <= CutEdges(saved)
  BY DEF IInv, Settled
<1>5. WellFormed(n) /\ CutEdges(n) <= CutEdges(net)
  BY <1>3, CleanedWellFormed, CleanedCuts
<1>6. g = Max({0, Cardinality(n.node) - Cardinality(saved.node)})
  BY DEF Growth
<1> HIDE DEF n, g
<1>7. CutEdges(n) \in Nat /\ Cardinality(n.node) \in Nat
  BY <1>5, Measures
<1>8. g \in Int /\ g >= 0 /\ g >= Cardinality(n.node) - Cardinality(saved.node)
  <2> DEFINE d == Cardinality(n.node) - Cardinality(saved.node)
  <2>1. d \in Int
    BY <1>3, <1>7
  <2>2. g = Max({0, d})
    BY <1>6
  <2> HIDE DEF d
  <2>3. g \in Int /\ g >= 0 /\ g >= d
    BY <2>1, <2>2, MaxOfTwo
  <2> QED
    BY <2>3 DEF d
<1>9. CutEdges(n) <= CutEdges(frame)
  BY <1>3, <1>4, <1>5, <1>7
<1>10. used + g \in 0 .. limits.budget /\ Cardinality(n.node) <= Cardinality(frame.node) + (used + g)
  BY <1>1, <1>3, <1>7, <1>8
<1> QED
  BY <1>1, <1>5, <1>9, <1>10 DEF Holds

LEMMA EndRoundKeeps ==
  ASSUME IInv, EndRound
  PROVE  IInv'
<1> DEFINE better == IF phase = "replicate" THEN progress ELSE CutEdges(net') < best
           stuck  == (~better /\ stall + 1 >= cfg.stall) \/ (phase # "replicate" /\ ~progress)
<1>1. /\ step = "try" /\ phase \in RoundPhases /\ round' = round + 1 /\ todo' = {}
      /\ progress' = progress /\ sizes' = sizes /\ limit' = limit /\ search' = search /\ find' = find
      /\ frame' = frame /\ limits' = limits /\ cfg' = cfg /\ results' = results /\ tid' = tid
  BY DEF EndRound, InRounds, RoundPhases, entry
<1>2. /\ best' = (IF phase # "replicate" /\ better THEN CutEdges(net') ELSE best)
      /\ stall' = (IF better THEN 0 ELSE stall + 1)
      /\ step' = (IF stuck THEN "enter" ELSE "round")
      /\ phase' = (IF stuck THEN NextPhase ELSE phase)
  BY DEF EndRound
<1>3. phase \notin {"begin", "done"} /\ search = NoSearch /\ find = NoFind
  BY <1>1 DEF RoundPhases, Searches, Finds, IInv, Found, Searched
<1>4. Holds(net', used') /\ WellFormed(saved')
  <2>1. CASE phase = "resub"
    <3>1. KeepRound
      BY <2>1 DEF EndRound
    <3> QED
      BY <1>1, <2>1, <3>1, KeepRoundHolds DEF IInv, Entered
  <2>2. CASE phase # "resub"
    <3>1. net' = net /\ used' = used /\ saved' = saved
      BY <2>2 DEF EndRound
    <3>2. Ground = net
      BY <1>1, <2>2 DEF Ground, Undecided, Searches, Finds
    <3> QED
      BY <1>3, <3>1, <3>2, GroundHolds DEF Holds
  <2> QED
    BY <2>1, <2>2
<1>5. phase' \in AllPhases /\ phase' \notin {"begin", "done"} /\ (step' = "round" => phase' \in RoundPhases)
      /\ step' \in {"enter", "round"} /\ (step' = "round" => phase' = phase)
  <2>1. phase \in LongPhases
    BY <1>1 DEF RoundPhases, LongPhases
  <2>2. NextPhase \in (LongPhases \cup {"joint", "audit"}) \ {"relocate"}
    BY <2>1, NextPhaseIs
  <2>3. phase' = NextPhase \/ phase' = phase
    BY <1>2
  <2>4. step' \in {"enter", "round"} /\ (step' = "round" => phase' = phase)
    BY <1>2
  <2> HIDE DEF stuck
  <2> QED
    BY <1>1, <2>1, <2>2, <2>3, <2>4 DEF RoundPhases, LongPhases, AllPhases
<1>6. CutEdges(net') \in Nat /\ best \in Nat /\ best' \in Nat
  <2>1. CutEdges(net') \in Nat
    BY <1>4, Measures DEF Holds
  <2>2. best \in Nat
    BY DEF IInv, Staged
  <2> HIDE DEF better
  <2> QED
    BY <1>2, <2>1, <2>2
<1>7. stall' \in 0 .. cfg.stall /\ (step' # "enter" => stall' < cfg.stall)
  <2>1. stall \in Nat /\ stall < cfg.stall /\ cfg.stall \in Nat /\ cfg.stall > 0
    BY <1>1 DEF IInv, Staged, Entered
  <2>2. step' # "enter" => better \/ stall + 1 < cfg.stall
    <3>1. step' # "enter" => ~stuck
      BY <1>2
    <3>2. ~stuck => better \/ ~(stall + 1 >= cfg.stall)
      BY DEF stuck
    <3> HIDE DEF stuck, better
    <3> QED
      BY <2>1, <3>1, <3>2
  <2> HIDE DEF stuck, better
  <2> QED
    BY <1>2, <2>1, <2>2
<1>8. Staged'
  <2>1. round \in Nat /\ round < cfg.rounds /\ cfg.rounds \in Nat
    BY <1>1 DEF IInv, Staged, Entered
  <2>2. round' \in 0 .. cfg.rounds
    BY <1>1, <2>1
  <2>3. tid \in 0 .. cfg.trajectories /\ tid < cfg.trajectories
    BY <1>3 DEF IInv, Staged
  <2>4. step' = "round" => phase' \in LongPhases
    BY <1>5 DEF RoundPhases, LongPhases
  <2> QED
    BY <1>1, <1>5, <1>6, <1>7, <2>2, <2>3, <2>4 DEF Staged, Searches, Finds
<1>9. Entered'
  BY <1>1, <1>3 DEF IInv, Entered
<1>10. Settled'
  <2>1. Ground' = net'
    BY <1>5 DEF Ground, Undecided, Searches, Finds, RoundPhases
  <2> QED
    BY <1>1, <1>4, <1>5, <2>1 DEF Settled, Holds, RoundPhases
<1>11. Sized'
  BY <1>1, <1>2, <1>5 DEF IInv, Sized, RoundPhases, EndRound
<1>12. Listing' /\ Searched' /\ Found' /\ Flagged'
  BY <1>1, <1>3, <1>5 DEF IInv, Listing, Searched, Found, Flagged, Searches, Finds
<1> QED
  BY <1>8, <1>9, <1>10, <1>11, <1>12 DEF IInv

LEMMA RepairNodeKeeps ==
  ASSUME IInv, NEW v \in net.node, RepairNode(v)
  PROVE  IInv'
<1> DEFINE p == Under(sizes)
           q == net.part[v]
           D == 0 .. limits.parts - 1
<1>1. /\ phase = "repair" /\ step = "round" /\ v \in Movable(net, sizes, limit)
      /\ net' = Moved(net, v, p) /\ sizes' = SizesMoved(sizes, q, p)
      /\ phase' = phase /\ step' = step /\ used' = used /\ saved' = saved /\ search' = search /\ find' = find
      /\ limit' = limit /\ round' = round /\ stall' = stall /\ best' = best /\ progress' = progress
      /\ frame' = frame /\ limits' = limits /\ cfg' = cfg /\ results' = results /\ tid' = tid
  BY DEF RepairNode, entry, loop
<1>2. WellFormed(net) /\ WellFormed(saved) /\ limits.parts \in Nat /\ limits.parts >= 1
      /\ D = DOMAIN sizes /\ (\A r \in D : sizes[r] \in Nat) /\ limit \in Nat
  BY SMTT(30), <1>1 DEF IInv, Settled, Entered, Sized
<1>3. Over(sizes, limit) # {} /\ q = Min(Over(sizes, limit))
  BY <1>1 DEF Movable, NodesOf
<1>4. D \in SUBSET Nat /\ 0 \in D
  BY <1>2
<1> HIDE DEF D
<1>5. q \in D /\ sizes[q] >= 1
  BY <1>2, <1>3, <1>4, OverIs
<1>6. p \in D /\ p \in Nat
  BY <1>2, <1>4, UnderIs
<1> HIDE DEF p, q
<1>7. DOMAIN sizes' = D /\ \A r \in D : sizes'[r] \in Nat
  BY <1>1, <1>2, <1>5, SizesMovedTyped
<1>8. WellFormed(net') /\ net'.node = net.node
  <2>1. v \in Vertices(net)
    BY DEF Vertices
  <2> QED
    BY <1>1, <1>2, <1>6, <2>1, MovedFrom DEF IsReparted
<1>9. Ground' = saved /\ Ground = saved
  BY <1>1 DEF Ground, Undecided
<1>10. Staged' /\ Flagged'
  BY <1>1 DEF IInv, Staged, Flagged
<1>11. Entered'
  BY <1>1 DEF IInv, Entered
<1>12. Settled'
  BY <1>1, <1>2, <1>8, <1>9 DEF IInv, Settled
<1>13. Sized'
  BY <1>1, <1>2, <1>7 DEF Sized, D
<1>14. Listing' /\ Searched' /\ Found'
  BY <1>1 DEF IInv, Listing, Searched, Found, Searches, Finds
<1> QED
  BY <1>10, <1>11, <1>12, <1>13, <1>14 DEF IInv

LEMMA EndTrajectoryKeeps ==
  ASSUME IInv, EndTrajectory
  PROVE  IInv'
<1> DEFINE r == [net |-> net, tid |-> tid]
<1>1. /\ phase = "audit" /\ phase' = "begin" /\ tid' = tid + 1
      /\ results' = (IF Audit(net) THEN results \cup {r} ELSE results)
      /\ step' = step /\ net' = net /\ used' = used /\ saved' = saved /\ search' = search /\ find' = find
      /\ sizes' = sizes
      /\ limit' = limit /\ round' = round /\ stall' = stall /\ best' = best /\ progress' = progress
      /\ frame' = frame /\ limits' = limits /\ cfg' = cfg
  BY DEF EndTrajectory, loop
<1>2. step = "enter" /\ Ground = net /\ find = NoFind /\ search = NoSearch
  BY <1>1, AtEnter
<1>3. Staged' /\ Flagged'
  BY <1>1, <1>2 DEF IInv, Staged, Flagged, Entered, Searches, Finds, AllPhases
<1>4. Entered'
  <2>1. r.net = net /\ r.tid = tid /\ tid \in Nat
    BY DEF IInv, Staged
  <2>2. WellFormed(net) /\ Within(net, limits) /\ CutEdges(net) <= CutEdges(frame)
    BY <1>1, <1>2, GroundHolds
  <2> HIDE DEF r
  <2>3. IsFiniteSet(results')
    BY <1>1, FS_AddElement DEF IInv, Entered
  <2>4. \A x \in results : WellFormed(x.net) /\ x.tid \in Nat /\ Within(x.net, limits) /\ CutEdges(x.net) <= CutEdges(frame)
    BY <1>1 DEF IInv, Entered
  <2>5. \A x \in results' : WellFormed(x.net) /\ x.tid \in Nat /\ Within(x.net, limits) /\ CutEdges(x.net) <= CutEdges(frame)
    BY <1>1, <2>1, <2>2, <2>4
  <2> QED
    BY <1>1, <2>3, <2>5 DEF IInv, Entered
<1>5. Settled'
  BY <1>1, <1>2 DEF IInv, Settled
<1>6. Sized'
  BY <1>1, <1>2 DEF IInv, Sized
<1>7. Listing' /\ Searched' /\ Found'
  BY <1>1, <1>2 DEF Listing, Searched, Found, Searches, Finds
<1> QED
  BY <1>3, <1>4, <1>5, <1>6, <1>7 DEF IInv

LEMMA SelectKeeps ==
  ASSUME IInv, Select
  PROVE  IInv' /\ (frame' = frame \/ \E r \in results : frame' = r.net)
<1> DEFINE key == [r \in results |-> ResultKey(r)]
<1>1. /\ phase = "begin" /\ phase' = "done"
      /\ frame' = (IF results = {} THEN frame ELSE FirstBy(key).net)
      /\ tid' = tid /\ results' = results
      /\ step' = step /\ net' = net /\ used' = used /\ saved' = saved /\ search' = search /\ find' = find
      /\ sizes' = sizes
      /\ limit' = limit /\ round' = round /\ stall' = stall /\ best' = best /\ progress' = progress
      /\ limits' = limits /\ cfg' = cfg
  BY DEF Select, loop
<1>2. step = "enter" /\ Ground = net /\ find = NoFind /\ search = NoSearch
  BY <1>1, AtEnter
<1>3. IsFiniteSet(results) /\ \A r \in results : WellFormed(r.net) /\ r.tid \in Nat
  BY DEF IInv, Entered
<1>4. \A r \in results : ResultKey(r) \in Seq(Int)
  BY <1>3, Measures DEF ResultKey
<1>5. frame' = frame \/ \E r \in results : frame' = r.net
  <2>1. DOMAIN key = results /\ \A r \in DOMAIN key : key[r] \in Seq(Int)
    BY <1>4
  <2> HIDE DEF key
  <2>2. results # {} => FirstBy(key) \in results
    BY <1>3, <2>1, FirstByIs
  <2> QED
    BY <1>1, <2>2
<1>6. WellFormed(frame')
  BY <1>3, <1>5 DEF IInv, Entered
<1>7. Staged' /\ Flagged'
  BY <1>1, <1>2 DEF IInv, Staged, Flagged, Searches, Finds, AllPhases
<1>8. Entered'
  BY <1>1, <1>3, <1>6 DEF IInv, Entered
<1>9. Settled'
  BY <1>1, <1>2 DEF IInv, Settled
<1>10. Sized'
  BY <1>1, <1>2 DEF IInv, Sized
<1>11. Listing' /\ Searched' /\ Found'
  BY <1>1, <1>2 DEF Listing, Searched, Found, Searches, Finds
<1> QED
  BY <1>5, <1>7, <1>8, <1>9, <1>10, <1>11 DEF IInv

----------------------------------------------------------------------------
(* The search for relocations *)
LEMMA SearchingFrame ==
  ASSUME IInv, NEW from \in {"round", "search", "open"}, NEW to \in Searches, Searching(from, to),
         round' = round, round < cfg.rounds, saved' = Ground, WellFormed(net')
  PROVE  /\ Staged' /\ Flagged' /\ Entered' /\ Settled' /\ Sized' /\ Listing' /\ Found'
<1>1. /\ phase = "compound" /\ step = from /\ step' = to /\ step # "enter" /\ phase' = phase
      /\ stall' = stall /\ best' = best /\ progress' = progress /\ sizes' = sizes /\ limit' = limit
      /\ used' = used /\ find' = find
      /\ frame' = frame /\ limits' = limits /\ cfg' = cfg /\ results' = results /\ tid' = tid
  BY DEF Searching, entry
<1>2. find = NoFind /\ phase \notin {"begin", "done"} /\ step \notin Finds
  BY <1>1 DEF IInv, Found, Finds
<1>3. Ground' = saved' /\ step' \in Searches /\ step' \notin {"enter", "round", "try"} /\ step' \notin Finds
  BY <1>1 DEF Ground, Undecided, Searches, Finds
<1>4. Staged' /\ Flagged'
  BY <1>1, <1>3 DEF IInv, Staged, Flagged
<1>5. Entered'
  BY <1>1 DEF IInv, Entered
<1>6. Settled'
  BY <1>1, <1>2, <1>3, GroundHolds DEF IInv, Settled
<1>7. Sized' /\ Listing' /\ Found'
  BY <1>1, <1>2, <1>3 DEF IInv, Sized, Listing, Found
<1> QED
  BY <1>4, <1>5, <1>6, <1>7

LEMMA OneBeam ==
  ASSUME NEW x
  PROVE  /\ IsFiniteSet({}) /\ IsFiniteSet({x}) /\ Cardinality({}) <= Max({1, BeamWidth})
         /\ Cardinality({x}) <= Max({1, BeamWidth}) /\ BeamWidth <= Max({1, BeamWidth})
         /\ Max({1, BeamWidth}) \in Nat
<1>1. BeamWidth \in Int /\ BeamWidth >= 0
  BY BoundsAssumption
<1> DEFINE m == Max({1, BeamWidth})
<1>2. m \in Int /\ m >= 1 /\ m >= BeamWidth
  <2>1. 1 \in Int /\ m = Max({1, BeamWidth})
    OBVIOUS
  <2> HIDE DEF m
  <2> QED
    BY <1>1, <2>1, MaxOfTwo
<1> HIDE DEF m
<1>3. IsFiniteSet({}) /\ Cardinality({}) = 0
  BY FS_EmptySet
<1>4. IsFiniteSet({x}) /\ Cardinality({x}) = 1
  BY FS_Singleton
<1> QED
  BY <1>1, <1>2, <1>3, <1>4 DEF m

LEMMA StartSearchKeeps ==
  ASSUME IInv, StartSearch
  PROVE  IInv'
<1>1. /\ Searching("round", "search") /\ round < cfg.rounds /\ round' = round /\ saved' = net /\ net' = net
      /\ search' = [NoSearch EXCEPT !.beam = IF Audit(net) THEN {NoPlan} ELSE {}]
  BY DEF StartSearch
<1>2. phase = "compound" /\ step = "round" /\ step' = "search" /\ limits' = limits
  BY <1>1 DEF Searching, entry
<1>3. Ground = net /\ phase \notin {"begin", "done"}
  BY <1>2 DEF Ground, Undecided, Searches, Finds
<1>4. WellFormed(net) /\ Within(net, limits)
  BY <1>3, GroundHolds
<1>5. /\ Staged' /\ Flagged' /\ Entered' /\ Settled' /\ Sized' /\ Listing' /\ Found'
  BY <1>1, <1>3, <1>4, SearchingFrame DEF Searches
<1>6. IsPlan(net, limits, NoPlan)
  BY <1>4, NoPlanIs
<1>7. Searched'
  <2>1. /\ DOMAIN search' = SearchFields /\ (search'.beam = {NoPlan} \/ search'.beam = {})
        /\ search'.next = {} /\ search'.best = NoPlan /\ search'.depth = 0
    BY <1>1 DEF NoSearch, SearchFields
  <2>2. SearchTyped'
    <3>1. IsBest(search.best)'
      BY <1>1, <1>2, <1>6, <2>1 DEF IsBest
    <3>2. \A p \in search'.beam \cup search'.next : IsPlan(saved', limits', p)
      BY <1>1, <1>2, <1>6, <2>1
    <3>3. MaxDepth \in Nat /\ MaxDepth > 0
      BY BoundsAssumption
    <3>4. IsFiniteSet(search'.beam) /\ IsFiniteSet(search'.next) /\ Cardinality(search'.beam) <= Max({1, BeamWidth})
      BY <2>1, OneBeam
    <3> QED
      BY <2>1, <3>1, <3>2, <3>3, <3>4 DEF SearchTyped
  <2> QED
    BY <1>1, <1>2, <2>2 DEF Searched, Searches
<1> QED
  BY <1>5, <1>7 DEF IInv

LEMMA AtSearch ==
  ASSUME IInv, step \in Searches
  PROVE  /\ phase = "compound" /\ phase \notin {"begin", "done"} /\ Ground = saved /\ round < cfg.rounds
         /\ WellFormed(net) /\ WellFormed(saved) /\ Within(saved, limits) /\ SearchTyped
         /\ step = "search" => net = saved
         /\ step = "open" => IsPlan(saved, limits, search.open) /\ net = Relocated(saved, search.open.steps)
<1>1. phase = "compound" /\ Ground = saved /\ round < cfg.rounds
  BY DEF IInv, Staged, Ground, Undecided, Searches
<1>2. /\ SearchTyped
      /\ step = "search" => net = saved
      /\ step = "open" => IsPlan(saved, limits, search.open) /\ net = Relocated(saved, search.open.steps)
  BY DEF IInv, Searched
<1>3. phase \notin {"begin", "done"}
  BY <1>1
<1> QED
  BY <1>1, <1>2, <1>3, GroundHolds

LEMMA FirstPlan ==
  ASSUME NEW n, WellFormed(n), NEW l, NEW S, IsFiniteSet(S), S # {}, \A p \in S : IsPlan(n, l, p)
  PROVE  FirstBy([p \in S |-> PlanKey(p)]) \in S
<1> DEFINE key == [p \in S |-> PlanKey(p)]
<1>1. DOMAIN key = S /\ \A p \in S : key[p] \in Seq(Int)
  BY PlanKeyIs
<1> HIDE DEF key
<1>2. FirstBy(key) \in S
  BY <1>1, FirstByIs
<1> QED
  BY <1>2 DEF key

LEMMA OpenParentKeeps ==
  ASSUME IInv, OpenParent
  PROVE  IInv'
<1> DEFINE p == FirstBy([p \in search.beam |-> PlanKey(p)])
<1>1. /\ Searching("search", "open") /\ search.beam # {} /\ round' = round /\ saved' = saved
      /\ search' = [search EXCEPT !.open = p] /\ net' = Relocated(net, search'.open.steps)
  BY DEF OpenParent
<1>2. step = "search" /\ step' = "open" /\ limits' = limits
  BY <1>1 DEF Searching, entry
<1>3. /\ Ground = saved /\ round < cfg.rounds /\ WellFormed(saved) /\ SearchTyped /\ net = saved
  BY <1>2, AtSearch DEF Searches
<1>4. p \in search.beam
  <2>1. IsFiniteSet(search.beam) /\ \A q \in search.beam : IsPlan(saved, limits, q)
    BY <1>3 DEF SearchTyped
  <2> QED
    BY <1>1, <1>3, <2>1, FirstPlan
<1> HIDE DEF p
<1>5. IsPlan(saved, limits, p)
  BY <1>3, <1>4 DEF SearchTyped
<1>6. /\ DOMAIN search' = SearchFields /\ search'.open = p /\ search'.beam = search.beam
      /\ search'.next = search.next /\ search'.best = search.best /\ search'.depth = search.depth
  BY <1>1, <1>3 DEF SearchTyped, SearchFields
<1>7. net' = Relocated(saved, p.steps) /\ WellFormed(net')
  <2>1. net' = Relocated(saved, p.steps)
    BY <1>1, <1>3, <1>6
  <2> QED
    BY <1>3, <1>5, <2>1, RelocatedIs DEF IsPlan
<1>8. /\ Staged' /\ Flagged' /\ Entered' /\ Settled' /\ Sized' /\ Listing' /\ Found'
  BY <1>1, <1>3, <1>7, SearchingFrame DEF Searches
<1>9. SearchTyped'
  BY <1>1, <1>2, <1>3, <1>4, <1>6 DEF SearchTyped, IsBest
<1>10. Searched'
  BY <1>1, <1>2, <1>5, <1>6, <1>7, <1>9 DEF Searched, Searches
<1> QED
  BY <1>8, <1>10 DEF IInv

LEMMA CloseParentKeeps ==
  ASSUME IInv, CloseParent
  PROVE  IInv'
<1> DEFINE p == search.open
           K == Children(net, limits, tid, p)
<1>1. /\ Searching("open", "search") /\ round' = round /\ saved' = saved
      /\ search' = [search EXCEPT !.beam = @ \ {p}, !.open = NoPlan, !.next = @ \cup K]
      /\ net' = RelocationUndone(net, p.steps)
  BY DEF CloseParent
<1>2. step = "open" /\ step' = "search" /\ limits' = limits
  BY <1>1 DEF Searching, entry
<1>3. /\ Ground = saved /\ round < cfg.rounds /\ WellFormed(saved) /\ SearchTyped
      /\ IsPlan(saved, limits, p) /\ net = Relocated(saved, p.steps)
  BY <1>2, AtSearch DEF Searches
<1> HIDE DEF p
<1>4. net' = saved
  BY <1>1, <1>3, RelocationUndoneIs DEF IsPlan
<1>5. IsFiniteSet(K) /\ \A q \in K : IsPlan(saved, limits, q)
  BY <1>3, ChildrenAre
<1> HIDE DEF K
<1>6. /\ DOMAIN search' = SearchFields /\ search'.beam = search.beam \ {p}
      /\ search'.next = search.next \cup K /\ search'.best = search.best /\ search'.depth = search.depth
  BY <1>1, <1>3 DEF SearchTyped, SearchFields
<1>7. /\ Staged' /\ Flagged' /\ Entered' /\ Settled' /\ Sized' /\ Listing' /\ Found'
  BY <1>1, <1>3, <1>4, SearchingFrame DEF Searches
<1>8. SearchTyped'
  <2>1. /\ IsFiniteSet(search.beam) /\ IsFiniteSet(search.next) /\ search.depth < MaxDepth
        /\ Cardinality(search.beam) <= Max({1, BeamWidth})
    BY <1>2, <1>3 DEF SearchTyped
  <2>2. IsFiniteSet(search'.beam) /\ Cardinality(search'.beam) <= Cardinality(search.beam)
    BY <1>6, <2>1, FS_Subset
  <2>3. IsFiniteSet(search'.next)
    <3>1. IsFiniteSet(search.next \cup K)
      BY <1>5, <2>1, FS_Union
    <3> QED
      BY <1>6, <3>1
  <2>4. Cardinality(search'.beam) \in Nat /\ Cardinality(search.beam) \in Nat /\ Max({1, BeamWidth}) \in Nat
    BY <2>1, <2>2, FS_CardinalityType, OneBeam
  <2>5. Cardinality(search'.beam) <= Max({1, BeamWidth})
    BY <2>1, <2>2, <2>4
  <2>6. \A q \in search'.beam \cup search'.next : IsPlan(saved', limits', q)
    BY <1>1, <1>2, <1>3, <1>5, <1>6 DEF SearchTyped
  <2>7. IsBest(search.best)'
    BY <1>1, <1>2, <1>3, <1>6 DEF SearchTyped, IsBest
  <2> QED
    BY <1>3, <1>6, <2>1, <2>2, <2>3, <2>5, <2>6, <2>7 DEF SearchTyped
<1>9. Searched'
  BY <1>1, <1>2, <1>4, <1>8 DEF Searched, Searches
<1> QED
  BY <1>7, <1>9 DEF IInv

LEMMA KeptPlans ==
  ASSUME NEW n, WellFormed(n), NEW l, NEW S, IsFiniteSet(S), \A p \in S : IsPlan(n, l, p),
         NEW T, T = FirstsBy([p \in S |-> PlanKey(p)], BeamWidth)
  PROVE  T \subseteq S /\ Cardinality(T) <= BeamWidth
<1> DEFINE key == [p \in S |-> PlanKey(p)]
<1>1. DOMAIN key = S /\ \A p \in S : key[p] \in Seq(Int)
  BY PlanKeyIs
<1>2. \A p, q \in S : key[p] = key[q] => p = q
  BY PlanKeyInjective
<1>3. T = FirstsBy(key, BeamWidth) /\ BeamWidth \in Nat
  BY BoundsAssumption
<1> HIDE DEF key
<1> QED
  BY <1>1, <1>2, <1>3, FirstsByFew

LEMMA DeepenBeamKeeps ==
  ASSUME IInv, DeepenBeam
  PROVE  IInv'
<1> DEFINE kept == FirstsBy([p \in search.next |-> PlanKey(p)], BeamWidth)
           good == {p \in kept \cup {search.best} : p.delta < 0}
           first == IF good = {} THEN NoPlan ELSE FirstBy([p \in good |-> PlanKey(p)])
           beam == IF search.depth + 1 < MaxDepth THEN kept ELSE {}
<1>1. /\ Searching("search", "search") /\ search.beam = {} /\ search.next # {} /\ round' = round
      /\ saved' = saved /\ net' = net
      /\ search' = [search EXCEPT !.next = {}, !.depth = @ + 1, !.beam = beam, !.best = first]
  BY DEF DeepenBeam
<1>2. step = "search" /\ step' = "search" /\ limits' = limits
  BY <1>1 DEF Searching, entry
<1>3. /\ Ground = saved /\ round < cfg.rounds /\ WellFormed(saved) /\ SearchTyped /\ net = saved
      /\ Within(saved, limits)
  BY <1>2, AtSearch DEF Searches
<1>4. /\ IsFiniteSet(search.next) /\ (\A p \in search.next : IsPlan(saved, limits, p))
      /\ IsPlan(saved, limits, search.best) /\ search.depth \in Nat /\ search.depth < MaxDepth /\ MaxDepth \in Nat
  BY <1>1, <1>3, BoundsAssumption DEF SearchTyped, IsBest
<1>5. kept \subseteq search.next /\ Cardinality(kept) <= BeamWidth
  BY <1>3, <1>4, KeptPlans
<1> HIDE DEF kept
<1>6. IsFiniteSet(kept)
  BY <1>4, <1>5, FS_Subset
<1>7. IsFiniteSet(good) /\ \A p \in good : IsPlan(saved, limits, p) /\ p.delta < 0
  <2>1. IsFiniteSet(kept \cup {search.best})
    BY <1>6, FS_Singleton, FS_Union
  <2>2. good \subseteq kept \cup {search.best}
    OBVIOUS
  <2>3. \A p \in good : IsPlan(saved, limits, p) /\ p.delta < 0
    BY <1>4, <1>5
  <2> HIDE DEF good
  <2> QED
    BY <2>1, <2>2, <2>3, FS_Subset
<1> HIDE DEF good
<1>8. IsPlan(saved, limits, first) /\ (first = NoPlan \/ first.delta < 0)
  <2>1. CASE good = {}
    BY <1>3, <2>1, NoPlanIs
  <2>2. CASE good # {}
    BY <1>3, <1>7, <2>2, FirstPlan
  <2> QED
    BY <2>1, <2>2
<1> HIDE DEF first
<1>9. /\ IsFiniteSet(beam) /\ beam \subseteq search.next /\ Cardinality(beam) <= Max({1, BeamWidth})
      /\ (beam = {} \/ search.depth + 1 < MaxDepth)
  <2>1. Cardinality(kept) \in Nat /\ BeamWidth \in Nat
    BY <1>6, FS_CardinalityType, BoundsAssumption
  <2>2. Max({1, BeamWidth}) \in Nat /\ BeamWidth <= Max({1, BeamWidth})
    BY OneBeam
  <2>3. Cardinality(kept) <= Max({1, BeamWidth})
    BY <1>5, <2>1, <2>2
  <2> QED
    BY <1>5, <1>6, <2>3, OneBeam
<1> HIDE DEF beam
<1>10. /\ DOMAIN search' = SearchFields /\ search'.beam = beam
       /\ search'.next = {} /\ search'.best = first /\ search'.depth = search.depth + 1
  BY <1>1, <1>3 DEF SearchTyped, SearchFields
<1>11. /\ Staged' /\ Flagged' /\ Entered' /\ Settled' /\ Sized' /\ Listing' /\ Found'
  <2>1. WellFormed(net') /\ saved' = Ground
    BY <1>1, <1>3
  <2> QED
    BY <1>1, <1>3, <2>1, SearchingFrame DEF Searches
<1>12. SearchTyped'
  <2>1. search'.depth \in 0 .. MaxDepth
    BY <1>4, <1>10
  <2>2. IsFiniteSet(search'.next)
    BY <1>10, FS_EmptySet
  <2>3. \A q \in search'.beam \cup search'.next : IsPlan(saved', limits', q)
    BY <1>1, <1>2, <1>4, <1>9, <1>10
  <2>4. IsBest(search.best)'
    BY <1>1, <1>2, <1>8, <1>10 DEF IsBest
  <2> QED
    BY <1>2, <1>9, <1>10, <2>1, <2>2, <2>3, <2>4 DEF SearchTyped
<1>13. Searched'
  BY <1>1, <1>2, <1>3, <1>12 DEF Searched, Searches
<1> QED
  BY <1>11, <1>13 DEF IInv

(* What the search found is what is applied. *)
LEMMA SequenceHolds ==
  ASSUME IInv, SearchOver
  PROVE  /\ net = saved /\ phase = "compound" /\ step = "search" /\ Ground = saved
         /\ WellFormed(saved) /\ WellFormed(Sequence) /\ Sequence.node = net.node
         /\ Within(Sequence, limits)
         /\ CutEdges(Sequence) - CutEdges(net) = search.best.delta
         /\ search.best # NoPlan => Applies(Sequence) /\ CutEdges(Sequence) < CutEdges(net)
<1>1. step = "search" /\ step \in Searches
  BY DEF SearchOver, Searches
<1>2. /\ phase = "compound" /\ Ground = saved /\ WellFormed(saved) /\ SearchTyped /\ net = saved
      /\ phase \notin {"begin", "done"}
  BY <1>1, AtSearch
<1>3. IsPlan(net, limits, search.best) /\ (search.best = NoPlan \/ search.best.delta < 0)
  BY <1>2 DEF SearchTyped, IsBest
<1>4. Sequence = Relocated(net, search.best.steps)
  BY DEF Sequence
<1>5. WellFormed(Sequence) /\ Sequence.node = net.node
  BY <1>2, <1>3, <1>4, RelocatedIs DEF IsPlan, IsReparted
<1>6. Within(Sequence, limits) /\ search.best.delta = CutEdges(Sequence) - CutEdges(net)
  BY <1>3, <1>4 DEF IsPlan
<1>7. used <= limits.budget
  BY <1>2, GroundHolds
<1>8. CutEdges(Sequence) \in Nat /\ CutEdges(net) \in Nat
  BY <1>2, <1>5, Measures
<1>9. search.best # NoPlan => Applies(Sequence) /\ CutEdges(Sequence) < CutEdges(net)
  BY <1>3, <1>6, <1>7, <1>8 DEF Applies, Audit
<1> QED
  BY <1>1, <1>2, <1>5, <1>6, <1>9

LEMMA ApplySequenceKeeps ==
  ASSUME IInv, ApplySequence
  PROVE  IInv' /\ CutEdges(net') < CutEdges(net) /\ CutEdges(net') - CutEdges(net) = search.best.delta
<1>1. /\ SearchOver /\ search.best # NoPlan /\ Searching("search", "round")
      /\ net' = Sequence /\ round' = round + 1 /\ search' = NoSearch /\ saved' = frame
  BY DEF ApplySequence
<1>2. /\ phase = "compound" /\ step = "search" /\ step' = "round" /\ phase' = phase
      /\ stall' = stall /\ best' = best /\ progress' = progress /\ sizes' = sizes /\ limit' = limit
      /\ used' = used /\ find' = find
      /\ frame' = frame /\ limits' = limits /\ cfg' = cfg /\ results' = results /\ tid' = tid
  BY <1>1 DEF Searching, entry
<1>3. /\ net = saved /\ Ground = saved
      /\ WellFormed(net') /\ net'.node = net.node
      /\ Within(net', limits)
      /\ CutEdges(net') - CutEdges(net) = search.best.delta
      /\ CutEdges(net') < CutEdges(net)
  BY <1>1, SequenceHolds
<1>4. find = NoFind /\ phase \notin {"begin", "done"} /\ round < cfg.rounds /\ round \in Nat /\ cfg.rounds \in Nat
  BY <1>2 DEF IInv, Found, Finds, Staged, Entered
<1>5. Ground' = net'
  BY <1>2 DEF Ground, Undecided, Searches, Finds
<1>6. Staged' /\ Flagged'
  BY <1>1, <1>2, <1>4 DEF IInv, Staged, Flagged, Searches, Finds, LongPhases
<1>7. Entered'
  BY <1>2 DEF IInv, Entered
<1>8. Settled'
  <2>1. /\ WellFormed(frame) /\ CutEdges(net) \in Nat /\ CutEdges(frame) \in Nat /\ CutEdges(net) <= CutEdges(frame)
        /\ Cardinality(net.node) <= Cardinality(frame.node) + used
    BY <1>3, <1>4, GroundHolds
  <2>2. CutEdges(net') \in Nat
    BY <1>3, Measures
  <2>3. CutEdges(net') <= CutEdges(frame)
    BY <1>3, <2>1, <2>2
  <2> QED
    BY <1>1, <1>2, <1>3, <1>4, <1>5, <2>1, <2>3 DEF IInv, Settled
<1>9. Sized' /\ Listing' /\ Searched' /\ Found'
  BY <1>1, <1>2, <1>4 DEF IInv, Sized, Listing, Searched, Found, Searches, Finds
<1> QED
  BY <1>3, <1>6, <1>7, <1>8, <1>9 DEF IInv

----------------------------------------------------------------------------
(* The search for a cluster *)
LEMMA ReplicateFrame ==
  ASSUME IInv, phase = "replicate", step \in {"try", "find", "judge"}, step' \in {"try", "find", "judge"},
         UNCHANGED <<entry, phase, round, stall, best, sizes, limit, search>>
  PROVE  Staged' /\ Entered' /\ Sized' /\ Searched'
<1>1. /\ phase' = phase /\ search' = search /\ round' = round /\ stall' = stall /\ best' = best
      /\ sizes' = sizes /\ limit' = limit
      /\ frame' = frame /\ limits' = limits /\ cfg' = cfg /\ results' = results /\ tid' = tid
  BY DEF entry
<1>2. Staged'
  BY <1>1 DEF IInv, Staged, Searches, Finds, RoundPhases
<1>3. Entered'
  BY <1>1 DEF IInv, Entered
<1>4. Sized' /\ Searched'
  BY <1>1 DEF IInv, Sized, Searched, Searches
<1> QED
  BY <1>2, <1>3, <1>4

LEMMA FindingFrame ==
  ASSUME IInv, step \in Finds, NEW to \in Finds, Finding(step, to),
         used' = used, saved' = saved, progress' = progress, WellFormed(net')
  PROVE  Staged' /\ Flagged' /\ Entered' /\ Settled' /\ Sized' /\ Listing' /\ Searched'
<1>1. /\ phase = "replicate" /\ step' = to /\ phase' = phase /\ todo' = todo
      /\ frame' = frame /\ limits' = limits
      /\ UNCHANGED <<entry, phase, round, stall, best, sizes, limit, search>>
  BY DEF Finding, entry
<1>2. Staged' /\ Entered' /\ Sized' /\ Searched'
  BY <1>1, ReplicateFrame DEF Finds
<1>3. Ground' = saved /\ Ground = saved
  BY <1>1 DEF Ground, Undecided
<1>4. Flagged'
  BY DEF IInv, Flagged
<1>5. Settled'
  BY <1>1, <1>3 DEF IInv, Settled, Finds
<1>6. Listing'
  BY <1>1, <1>3 DEF IInv, Listing, IsReplication, Finds
<1> QED
  BY <1>2, <1>4, <1>5, <1>6

LEMMA AtFind ==
  ASSUME IInv, step \in Finds
  PROVE  /\ phase = "replicate" /\ phase \notin {"begin", "done"} /\ Ground = saved
         /\ WellFormed(net) /\ WellFormed(saved) /\ Within(saved, limits) /\ FindTyped
         /\ step = "find" => Same(net, saved)
         /\ step = "judge" => /\ find.frontier # <<>> /\ ~TooLarge(Evaluated)
                              /\ \E k \in saved.max .. net.max : BuiltOn(k)
<1>1. phase = "replicate" /\ Ground = saved
  BY DEF IInv, Staged, Ground, Undecided
<1>2. /\ FindTyped
      /\ step = "find" => Same(net, saved)
      /\ step = "judge" => /\ find.frontier # <<>> /\ ~TooLarge(Evaluated)
                           /\ \E k \in saved.max .. net.max : BuiltOn(k)
  BY DEF IInv, Found
<1>3. phase \notin {"begin", "done"}
  BY <1>1
<1> QED
  BY <1>1, <1>2, <1>3, GroundHolds

LEMMA LaterIs ==
  ASSUME NEW n, NEW m, WellFormed(n), WellFormed(m), Same(m, n)
  PROVE  [n EXCEPT !.max = m.max] = m
<1> DEFINE k == [n EXCEPT !.max = m.max]
<1>1. n = [x \in Fields |-> n[x]] /\ m = [x \in Fields |-> m[x]] /\ DOMAIN n = Fields
  BY NetworkFields DEF WellFormed
<1>2. /\ k = [x \in Fields |-> k[x]] /\ k.max = m.max /\ k.pi = n.pi /\ k.node = n.node
      /\ k.fanin = n.fanin /\ k.truth = n.truth /\ k.part = n.part /\ k.po = n.po
  BY <1>1 DEF Fields
<1>3. m.pi = n.pi /\ m.node = n.node /\ m.fanin = n.fanin /\ m.truth = n.truth /\ m.part = n.part /\ m.po = n.po
  BY DEF Same
<1> HIDE DEF k
<1>4. k = m
  BY <1>1, <1>2, <1>3, SameFields
<1> QED
  BY <1>4 DEF k

LEMMA StartFindKeeps ==
  ASSUME IInv, NEW c \in todo, StartFind(c)
  PROVE  IInv'
<1> DEFINE f == [NoFind EXCEPT !.driver = c.driver, !.part = c.part, !.frontier = <<{c.driver}>>]
<1>1. /\ Try("replicate", c) /\ step' = "find" /\ saved' = net /\ find' = f
      /\ net' = net /\ progress' = progress /\ sizes' = sizes
  BY DEF StartFind
<1>2. /\ phase = "replicate" /\ step = "try" /\ phase' = phase /\ used' = used /\ todo' \subseteq todo
      /\ frame' = frame /\ limits' = limits
      /\ UNCHANGED <<entry, phase, round, stall, best, sizes, limit, search>>
  BY <1>1 DEF Try, entry
<1>3. Ground = net /\ Ground' = net /\ phase \notin {"begin", "done"}
  BY <1>1, <1>2 DEF Ground, Undecided, Searches, Finds
<1>4. Staged' /\ Entered' /\ Sized' /\ Searched'
  BY <1>1, <1>2, ReplicateFrame
<1>5. WellFormed(net) /\ Within(net, limits)
  BY <1>3, GroundHolds
<1>6. Flagged'
  BY <1>1 DEF IInv, Flagged
<1>7. Settled'
  BY <1>1, <1>2, <1>3, <1>5 DEF IInv, Settled
<1>8. Listing'
  BY <1>1, <1>2, <1>3 DEF IInv, Listing, IsReplication
<1>9. c.driver \in net.node /\ c.part \in Nat
  BY <1>2, <1>3 DEF IInv, Listing, IsReplication
<1>10. /\ DOMAIN f = FindFields /\ f.driver = c.driver /\ f.part = c.part /\ f.frontier = <<{c.driver}>>
       /\ f.next = <<>> /\ f.depth = 0 /\ f.best = NoCluster
  BY DEF NoFind, FindFields
<1> HIDE DEF f
<1>11. FindTyped'
  <2> DEFINE K == Clusters(net, c.driver)
  <2>1. {c.driver} \in K
    BY <1>9 DEF Clusters
  <2> HIDE DEF K
  <2>2. <<{c.driver}>> \in Seq(K) /\ <<>> \in Seq(K)
    BY <2>1
  <2>3. f.frontier \in Seq(Clusters(net, f.driver)) /\ f.next \in Seq(Clusters(net, f.driver))
    BY <1>10, <2>2 DEF K
  <2>4. MaxClusterDepth \in Nat /\ net.max \in Nat
    BY <1>5, BoundsAssumption, Typed DEF WellFormed
  <2> QED
    BY <1>1, <1>9, <1>10, <2>3, <2>4 DEF FindTyped
<1>12. Found'
  <2>1. Same(net, net)
    BY <1>5, SameRefl DEF WellFormed
  <2> QED
    BY <1>1, <1>11, <2>1 DEF Found, Finds
<1> QED
  BY <1>4, <1>6, <1>7, <1>8, <1>12 DEF IInv

LEMMA SameClusters ==
  ASSUME NEW m, NEW n, m.node = n.node
  PROVE  \A u : Clusters(m, u) = Clusters(n, u)
BY DEF Clusters

LEMMA HeadIn ==
  ASSUME NEW K, NEW s \in Seq(K), s # <<>>
  PROVE  Head(s) \in K
OBVIOUS

LEMMA BuildNextKeeps ==
  ASSUME IInv, BuildNext
  PROVE  IInv'
<1>0. PICK C, u, p, k : C = Evaluated /\ u = find.driver /\ p = find.part /\ k = net.max
  OBVIOUS
<1>t. PICK t : t = Txn(net, C, u, p)
  OBVIOUS
<1>1. /\ Finding(step, "judge") /\ step = "find" /\ find.frontier # <<>> /\ ~TooLarge(C)
      /\ net' = Built(net, C, u, p) /\ find' = [find EXCEPT !.txn = t]
      /\ used' = used /\ saved' = saved /\ progress' = progress
  BY <1>0, <1>t DEF BuildNext, Buildable, Finding
<1>2. step' = "judge" /\ limits' = limits
  BY <1>1 DEF Finding, entry
<1>3. /\ phase = "replicate" /\ Ground = saved /\ WellFormed(net) /\ WellFormed(saved) /\ FindTyped
      /\ Same(net, saved)
  BY <1>1, AtFind DEF Finds
<1>4. net.node = saved.node
  BY <1>3 DEF Same
<1>5. C \in SUBSET net.node /\ u \in C /\ p \in Nat
  <2>1. C \in Clusters(saved, u)
    BY <1>0, <1>1, <1>3, HeadIn DEF FindTyped, Evaluated
  <2> QED
    BY <1>0, <1>3, <1>4, <2>1 DEF Clusters, FindTyped
<1>6. /\ DOMAIN find' = FindFields /\ find'.driver = u /\ find'.part = p /\ find'.frontier = find.frontier
      /\ find'.next = find.next /\ find'.depth = find.depth /\ find'.best = find.best /\ find'.txn = t
      /\ Evaluated' = C
  BY <1>0, <1>1, <1>3 DEF FindTyped, FindFields, Evaluated
<1>7. WellFormed(net') /\ net'.max = net.max + Cardinality(C)
  BY <1>1, <1>3, <1>5, BuiltWellFormed, BuiltIs DEF IsBuilt
<1>8. Staged' /\ Flagged' /\ Entered' /\ Settled' /\ Sized' /\ Listing' /\ Searched'
  BY <1>1, <1>7, FindingFrame DEF Finds
<1>9. net.max \in Nat /\ saved.max \in Nat /\ net.max >= saved.max /\ Cardinality(C) \in Nat
  BY <1>3, <1>5, Typed, DupsAre DEF WellFormed, FindTyped
<1>10. FindTyped'
  <2>1. (find.best = NoCluster \/ IsFoundBest(find.best))'
    BY <1>0, <1>1, <1>2, <1>3, <1>6 DEF FindTyped, IsFoundBest, TooLarge, Remaining
  <2>2. net'.max >= saved.max
    BY <1>7, <1>9
  <2> QED
    BY <1>0, <1>1, <1>3, <1>6, <2>1, <2>2 DEF FindTyped
<1>11. BuiltOn(k)'
  <2>1. [saved EXCEPT !.max = k] = net
    BY <1>0, <1>3, LaterIs
  <2>2. [saved' EXCEPT !.max = k] = net
    BY <1>1, <2>1
  <2> QED
    BY <1>1, <1>6, <1>t, <2>2 DEF BuiltOn, Later
<1>12. Found'
  <2>1. k \in saved.max .. net'.max
    BY <1>0, <1>7, <1>9
  <2>2. \E j \in saved'.max .. net'.max : BuiltOn(j)'
    BY <1>1, <1>11, <2>1
  <2>3. find'.frontier # <<>> /\ ~TooLarge(C)'
    BY <1>1, <1>2, <1>6 DEF TooLarge, Remaining
  <2>4. ~TooLarge(Evaluated)'
    BY <1>6, <2>3 DEF TooLarge
  <2> QED
    BY <1>2, <1>10, <2>2, <2>3, <2>4 DEF Found, Finds
<1> QED
  BY <1>8, <1>12 DEF IInv

----------------------------------------------------------------------------
(* An advance to the next cluster, with the best found so far *)
LEMMA AdvanceKeeps ==
  ASSUME IInv, step \in Finds, Finding(step, "find"), find.frontier # <<>>,
         used' = used, saved' = saved, progress' = progress,
         WellFormed(net'), Same(net', saved), net'.max >= saved.max,
         NEW b, b = NoCluster \/ IsFoundBest(b), find' = [Advanced(find, net') EXCEPT !.best = b]
  PROVE  IInv'
<1>1. WellFormed(saved) /\ FindTyped
  BY AtFind
<1>2. step' = "find" /\ limits' = limits
  BY DEF Finding, entry
<1>3. Staged' /\ Flagged' /\ Entered' /\ Settled' /\ Sized' /\ Listing' /\ Searched'
  BY FindingFrame DEF Finds
<1>4. \A u : Clusters(net', u) = Clusters(saved, u)
  BY SameClusters DEF Same
<1>5. PICK a : a = Advanced(find, net')
  OBVIOUS
<1>6. /\ DOMAIN a = FindFields /\ a.driver = find.driver /\ a.part = find.part /\ a.depth = find.depth
      /\ a.frontier \in Seq(Clusters(net', find.driver)) /\ a.next \in Seq(Clusters(net', find.driver))
      /\ a.next # <<>> => find.next # <<>> \/ find.depth # MaxClusterDepth
  <2>1. find.frontier \in Seq(Clusters(net', find.driver)) /\ find.next \in Seq(Clusters(net', find.driver))
    BY <1>1, <1>4 DEF FindTyped
  <2> QED
    BY <1>1, <1>5, <2>1, AdvancedIs DEF FindTyped
<1>7. /\ DOMAIN find' = FindFields /\ find'.driver = find.driver /\ find'.part = find.part
      /\ find'.depth = find.depth /\ find'.frontier = a.frontier /\ find'.next = a.next /\ find'.best = b
  BY <1>5, <1>6 DEF FindFields
<1>8. FindTyped'
  <2>1. (find.best = NoCluster \/ IsFoundBest(find.best))'
    BY <1>2, <1>7 DEF IsFoundBest, TooLarge, Remaining
  <2>2. find'.next # <<>> => find'.depth < MaxClusterDepth
    <3>1. find.depth \in 0 .. MaxClusterDepth /\ MaxClusterDepth \in Nat
      BY <1>1, BoundsAssumption DEF FindTyped
    <3>2. find.next # <<>> => find.depth < MaxClusterDepth
      BY <1>1 DEF FindTyped
    <3> QED
      BY <1>6, <1>7, <3>1, <3>2
  <2>3. find'.frontier \in Seq(Clusters(saved', find'.driver)) /\ find'.next \in Seq(Clusters(saved', find'.driver))
    BY <1>4, <1>6, <1>7
  <2>4. find'.driver \in saved'.node /\ find'.part \in Nat /\ find'.depth \in 0 .. MaxClusterDepth
    BY <1>1, <1>7 DEF FindTyped
  <2>5. net'.max >= saved'.max
    OBVIOUS
  <2> QED
    BY <1>7, <2>1, <2>2, <2>3, <2>4, <2>5 DEF FindTyped
<1>9. Found'
  BY <1>2, <1>8 DEF Found, Finds
<1> QED
  BY <1>3, <1>9 DEF IInv

LEMMA SkipClusterKeeps ==
  ASSUME IInv, SkipCluster
  PROVE  IInv'
<1>1. /\ Finding(step, "find") /\ step = "find" /\ find.frontier # <<>> /\ find' = Advanced(find, net)
      /\ net' = net /\ used' = used /\ saved' = saved /\ progress' = progress
  BY DEF SkipCluster, Finding
<1>2. step \in Finds /\ WellFormed(net) /\ Same(net, saved) /\ FindTyped
  BY <1>1, AtFind DEF Finds
<1>3. PICK b : b = find.best
  OBVIOUS
<1>4. (b = NoCluster \/ IsFoundBest(b)) /\ net.max >= saved.max
  BY <1>2, <1>3 DEF FindTyped
<1>5. find' = [Advanced(find, net') EXCEPT !.best = b]
  <2>1. PICK a : a = Advanced(find, net')
    OBVIOUS
  <2>2. DOMAIN find = FindFields
    BY <1>2 DEF FindTyped
  <2>3. a.best = find.best
    BY <2>1, <2>2 DEF Advanced, FindFields
  <2>4. a = [a EXCEPT !.best = b]
    <3>1. a = [x \in DOMAIN a |-> a[x]]
      BY <2>1 DEF Advanced
    <3> QED
      BY <1>3, <2>3, <3>1
  <2> QED
    BY <1>1, <2>1, <2>4
<1>6. WellFormed(net') /\ Same(net', saved) /\ net'.max >= saved.max
  BY <1>1, <1>2, <1>4
<1> QED
  BY <1>1, <1>2, <1>4, <1>5, <1>6, AdvanceKeeps

(* What was built on the network is what would be built on the saved one. *)
LEMMA BuiltOnIs ==
  ASSUME NEW s, WellFormed(s), NEW k \in Nat, k >= s.max, NEW n, n = [s EXCEPT !.max = k],
         NEW C \in SUBSET s.node, NEW u \in C, NEW p \in Nat
  PROVE  /\ Alike(Built(n, C, u, p), Built(s, C, u, p))
         /\ WellFormed(ClusterUndone(Built(n, C, u, p), Txn(n, C, u, p)))
         /\ Same(ClusterUndone(Built(n, C, u, p), Txn(n, C, u, p)), s)
         /\ ClusterUndone(Built(n, C, u, p), Txn(n, C, u, p)).max >= s.max
<1>1. Same(n, s) /\ n.max = k
  BY LaterSame DEF WellFormed
<1>2. WellFormed(n)
  BY <1>1, SameWellFormed
<1>3. C \in SUBSET n.node /\ p \in Nat \cup {NoPart} /\ s.max \in Nat
  BY <1>1, Typed DEF Same, WellFormed
<1>4. Alike(Built(n, C, u, p), Built(s, C, u, p))
  BY <1>1, <1>2, <1>3, BuiltAlike
<1>5. PICK m : m = ClusterUndone(Built(n, C, u, p), Txn(n, C, u, p))
  OBVIOUS
<1>6. Same(m, n) /\ m.max = k + Cardinality(C)
  BY <1>1, <1>2, <1>3, <1>5, UndoneSame
<1>7. Same(m, s)
  BY <1>1, <1>6, SameTwice
<1>8. m.max \in Nat /\ m.max >= s.max
  <2>1. Cardinality(C) \in Nat
    BY DupsAre
  <2> QED
    BY <1>3, <1>6, <2>1
<1>9. WellFormed(m)
  BY <1>7, <1>8, SameWellFormed
<1> QED
  BY <1>4, <1>5, <1>7, <1>8, <1>9

LEMMA JudgeClusterKeeps ==
  ASSUME IInv, JudgeCluster
  PROVE  IInv'
<1>1. /\ Finding(step, "find") /\ step = "judge" /\ net' = ClusterUndone(net, find.txn)
      /\ used' = used /\ saved' = saved /\ progress' = progress
  BY DEF JudgeCluster, Finding
<1>2. /\ step \in Finds /\ WellFormed(net) /\ WellFormed(saved) /\ FindTyped
      /\ find.frontier # <<>> /\ ~TooLarge(Evaluated)
  BY <1>1, AtFind DEF Finds
<1>3. PICK k \in saved.max .. net.max : BuiltOn(k)
  BY <1>1, AtFind DEF Finds
<1>4. PICK C, u, p, n : C = Evaluated /\ u = find.driver /\ p = find.part /\ n = Later(k)
  OBVIOUS
<1>5. C \in Clusters(saved, u) /\ C \in SUBSET saved.node /\ u \in C /\ p \in Nat
  <2>1. C \in Clusters(saved, u)
    BY <1>2, <1>4, HeadIn DEF FindTyped, Evaluated
  <2> QED
    BY <1>2, <1>4, <2>1 DEF Clusters, FindTyped
<1>6. net = Built(n, C, u, p) /\ find.txn = Txn(n, C, u, p)
  BY <1>3, <1>4 DEF BuiltOn
<1>7. k \in Nat /\ k >= saved.max
  BY <1>2, Typed DEF WellFormed
<1>8. Alike(net, Built(saved, C, u, p)) /\ WellFormed(net') /\ Same(net', saved) /\ net'.max >= saved.max
  <2>1. n = [saved EXCEPT !.max = k]
    BY <1>4 DEF Later
  <2> QED
    BY <1>1, <1>2, <1>5, <1>6, <1>7, <2>1, BuiltOnIs
<1>9. PICK c : c = [nodes |-> C, edges |-> CutEdges(net) - CutEdges(saved), nets |-> CutNets(net) - CutNets(saved)]
  OBVIOUS
<1>10. c.edges < 0 /\ Within(net, limits) => IsFoundBest(c)
  <2>1. limits.parts \in Nat
    BY DEF IInv, Entered
  <2>2. Within(net, limits) <=> Within(Built(saved, C, u, p), limits)
    BY <1>8, <2>1, AlikeWithin
  <2>3. c.nodes = C /\ c.edges = CutEdges(net) - CutEdges(saved) /\ c.nets = CutNets(net) - CutNets(saved)
    BY <1>9
  <2> QED
    BY <1>2, <1>4, <1>5, <1>8, <2>2, <2>3 DEF IsFoundBest, Alike
<1>11. PICK b : b = (IF (c.edges < 0 /\ Within(net, limits)) /\ Better(c, find.best) THEN c ELSE find.best)
  OBVIOUS
<1>12. b = NoCluster \/ IsFoundBest(b)
  BY <1>2, <1>10, <1>11 DEF FindTyped
<1>13. find' = [Advanced(find, net') EXCEPT !.best = b]
  <2>1. PICK a : a = Advanced(find, net')
    OBVIOUS
  <2>2. a.best = find.best /\ DOMAIN a = FindFields
    BY <1>2, <2>1 DEF Advanced, FindFields, FindTyped
  <2>3. find' = [a EXCEPT !.best = IF (c.edges < 0 /\ Within(net, limits)) /\ Better(c, a.best) THEN c ELSE a.best]
    BY <1>4, <1>9, <2>1 DEF JudgeCluster
  <2> QED
    BY <1>11, <2>1, <2>2, <2>3
<1> QED
  BY <1>1, <1>2, <1>8, <1>12, <1>13, AdvanceKeeps

LEMMA DeepenClusterKeeps ==
  ASSUME IInv, DeepenCluster
  PROVE  IInv'
<1>1. /\ Finding(step, "find") /\ step = "find" /\ find.next # <<>>
      /\ find' = [find EXCEPT !.frontier = find.next, !.next = <<>>, !.depth = @ + 1]
      /\ net' = net /\ used' = used /\ saved' = saved /\ progress' = progress
  BY DEF DeepenCluster, Finding
<1>2. step \in Finds /\ WellFormed(net) /\ Same(net, saved) /\ FindTyped
  BY <1>1, AtFind DEF Finds
<1>3. step' = "find" /\ limits' = limits
  BY <1>1 DEF Finding, entry
<1>4. Staged' /\ Flagged' /\ Entered' /\ Settled' /\ Sized' /\ Listing' /\ Searched'
  BY <1>1, <1>2, FindingFrame DEF Finds
<1>5. /\ DOMAIN find' = FindFields /\ find'.driver = find.driver /\ find'.part = find.part
      /\ find'.depth = find.depth + 1 /\ find'.frontier = find.next /\ find'.next = <<>> /\ find'.best = find.best
  BY <1>1, <1>2 DEF FindFields, FindTyped
<1>6. FindTyped'
  <2>1. (find.best = NoCluster \/ IsFoundBest(find.best))'
    BY <1>1, <1>2, <1>3, <1>5 DEF FindTyped, IsFoundBest, TooLarge, Remaining
  <2>2. find'.depth \in 0 .. MaxClusterDepth
    <3>1. find.depth \in 0 .. MaxClusterDepth /\ MaxClusterDepth \in Nat /\ find.depth < MaxClusterDepth
      BY <1>1, <1>2, BoundsAssumption DEF FindTyped
    <3> QED
      BY <1>5, <3>1
  <2>3. find'.frontier \in Seq(Clusters(saved', find'.driver)) /\ find'.next \in Seq(Clusters(saved', find'.driver))
    <3>1. PICK K : K = Clusters(saved, find.driver)
      OBVIOUS
    <3>2. find.next \in Seq(K) /\ <<>> \in Seq(K)
      BY <1>2, <3>1 DEF FindTyped
    <3> QED
      BY <1>1, <1>5, <3>1, <3>2
  <2>4. find'.driver \in saved'.node /\ find'.part \in Nat /\ net'.max >= saved'.max
    BY <1>1, <1>2, <1>5 DEF FindTyped
  <2> QED
    BY <1>5, <2>1, <2>2, <2>3, <2>4 DEF FindTyped
<1>7. Found'
  BY <1>1, <1>2, <1>3, <1>6 DEF Found, Finds
<1> QED
  BY <1>4, <1>7 DEF IInv

(* What was found is what is applied. *)
LEMMA FoundHolds ==
  ASSUME IInv, step = "find", find.best # NoCluster, NEW n, n = Built(net, find.best.nodes, find.driver, find.part)
  PROVE  /\ Accepts(n) /\ WellFormed(n) /\ CutEdges(n) < CutEdges(net) /\ net.node \subseteq n.node
         /\ Cardinality(n.node) = Cardinality(net.node) + Cardinality(find.best.nodes)
         /\ Cardinality(find.best.nodes) \in Nat
<1>1. /\ step \in Finds /\ WellFormed(net) /\ WellFormed(saved) /\ Same(net, saved) /\ FindTyped
      /\ phase \notin {"begin", "done"}
  BY AtFind DEF Finds
<1>2. PICK C, u, p, b : C = find.best.nodes /\ u = find.driver /\ p = find.part /\ b = Built(saved, C, u, p)
  OBVIOUS
<1>3. /\ C \in Clusters(saved, u) /\ p \in Nat /\ ~TooLarge(C) /\ Within(b, limits) /\ find.best.edges < 0
      /\ find.best.edges = CutEdges(b) - CutEdges(saved) /\ find.best.nets = CutNets(b) - CutNets(saved)
  BY <1>1, <1>2 DEF FindTyped, IsFoundBest
<1>4. C \in SUBSET saved.node /\ u \in C /\ net.node = saved.node /\ p \in Nat \cup {NoPart} /\ C \in SUBSET net.node
  BY <1>1, <1>3 DEF Clusters, Same
<1>5. n = Built(net, C, u, p)
  BY <1>2
<1>6. Alike(n, b)
  <2>1. Alike(Built(net, C, u, p), Built(saved, C, u, p))
    BY <1>1, <1>4, BuiltAlike
  <2> QED
    BY <1>2, <1>5, <2>1
<1>7. Alike(net, saved)
  BY <1>1, SameAlike
<1>8. WellFormed(n) /\ IsBuilt(n, net, C, u, p)
  BY <1>1, <1>4, <1>5, BuiltWellFormed, BuiltIs
<1>9. limits.parts \in Nat /\ used <= limits.budget
  BY <1>1, GroundHolds DEF IInv, Entered
<1>10. Within(n, limits)
  BY <1>3, <1>6, <1>9, AlikeWithin
<1>11. CutEdges(n) - CutEdges(net) = find.best.edges /\ CutNets(n) - CutNets(net) = find.best.nets
  BY <1>3, <1>6, <1>7 DEF Alike
<1>12. CutEdges(n) \in Nat /\ CutEdges(net) \in Nat
  BY <1>1, <1>8, Measures
<1>13. CutEdges(n) < CutEdges(net)
  BY <1>3, <1>11, <1>12
<1>14. Cardinality(n.node) = Cardinality(net.node) + Cardinality(C) /\ Cardinality(C) \in Nat
  <2>1. NewIds(net, C) \cap net.node = {} /\ IsFiniteSet(C) /\ Cardinality(C) \in Nat /\ net.max \in Nat
    BY <1>1, <1>4, DupsAre, Typed DEF Vertices, WellFormed
  <2>2. n.node = net.node \cup NewIds(net, C)
    BY <1>8 DEF IsBuilt
  <2>3. NewIds(net, C) = net.max .. net.max + Cardinality(C) - 1
    BY DEF NewIds
  <2>4. IsFiniteSet(NewIds(net, C)) /\ Cardinality(NewIds(net, C)) = Cardinality(C)
    <3>1. PICK lo, hi : lo = net.max /\ hi = net.max + Cardinality(C) - 1
      OBVIOUS
    <3>2. lo \in Int /\ hi \in Int
      BY <2>1, <3>1
    <3>3. IsFiniteSet(lo .. hi) /\ Cardinality(lo .. hi) = IF lo > hi THEN 0 ELSE hi - lo + 1
      BY <3>2, FS_Interval
    <3>4. (IF lo > hi THEN 0 ELSE hi - lo + 1) = Cardinality(C)
      BY <2>1, <3>1
    <3> QED
      BY <2>3, <3>1, <3>3, <3>4
  <2>5. IsFiniteSet(net.node)
    BY <1>1, VerticesFinite DEF WellFormed
  <2>6. net.node \cap NewIds(net, C) = {}
    BY <2>1
  <2>7. Cardinality(net.node \cup NewIds(net, C)) = Cardinality(net.node) + Cardinality(NewIds(net, C))
    BY <2>4, <2>5, <2>6, CountApart
  <2> QED
    BY <2>1, <2>2, <2>4, <2>7
<1>15. net.node \subseteq n.node
  BY <1>8 DEF IsBuilt
<1> QED
  BY <1>2, <1>3, <1>8, <1>9, <1>10, <1>11, <1>13, <1>14, <1>15 DEF Accepts, Audit

LEMMA FindEnds ==
  ASSUME IInv, step = "find", Finding("find", "try"), find' = NoFind, saved' = frame, progress' \in BOOLEAN,
         WellFormed(net'), used' \in 0 .. limits.budget, Within(net', limits), CutEdges(net') <= CutEdges(frame),
         Cardinality(net'.node) <= Cardinality(frame.node) + used', net.node \subseteq net'.node
  PROVE  IInv'
<1>1. /\ phase = "replicate" /\ step' = "try" /\ phase' = phase /\ todo' = todo
      /\ frame' = frame /\ limits' = limits
      /\ UNCHANGED <<entry, phase, round, stall, best, sizes, limit, search>>
  BY DEF Finding, entry
<1>2. /\ Same(net, saved) /\ Ground = saved
  BY AtFind DEF Finds
<1>3. Staged' /\ Entered' /\ Sized' /\ Searched'
  BY <1>1, ReplicateFrame
<1>4. Ground' = net'
  BY <1>1 DEF Ground, Undecided, Searches, Finds
<1>5. Flagged'
  BY DEF Flagged
<1>6. Settled'
  BY <1>1, <1>4 DEF IInv, Entered, Settled
<1>7. Listing'
  <2>1. \A c \in todo : c.driver \in saved.node /\ c.part \in Nat
    BY <1>1, <1>2 DEF IInv, Listing, IsReplication
  <2>2. saved.node \subseteq net'.node
    BY <1>2 DEF Same
  <2> QED
    BY <1>1, <1>4, <2>1, <2>2 DEF Listing, IsReplication
<1>8. Found'
  BY <1>1 DEF Found, Finds
<1> QED
  BY <1>3, <1>5, <1>6, <1>7, <1>8 DEF IInv

LEMMA AlikeFound ==
  ASSUME IInv, step = "find"
  PROVE  /\ WellFormed(net) /\ Within(net, limits) /\ CutEdges(net) <= CutEdges(frame)
         /\ Cardinality(net.node) <= Cardinality(frame.node) + used
<1>1. /\ WellFormed(net) /\ WellFormed(saved) /\ Same(net, saved) /\ phase \notin {"begin", "done"} /\ Ground = saved
  BY AtFind DEF Finds
<1>2. Alike(net, saved)
  BY <1>1, SameAlike
<1>3. /\ Within(saved, limits) /\ CutEdges(saved) <= CutEdges(frame)
      /\ Cardinality(saved.node) <= Cardinality(frame.node) + used
  BY <1>1, GroundHolds
<1>4. limits.parts \in Nat
  BY DEF IInv, Entered
<1>5. Within(net, limits)
  BY <1>2, <1>3, <1>4, AlikeWithin
<1> QED
  BY <1>1, <1>2, <1>3, <1>5 DEF Alike

LEMMA TryClusterKeeps ==
  ASSUME IInv, TryCluster
  PROVE  IInv' /\ CutEdges(net') < CutEdges(net) /\ CutEdges(net') - CutEdges(net) = find.best.edges
<1>1. PICK n : n = Built(net, find.best.nodes, find.driver, find.part)
  OBVIOUS
<1>2. /\ Finding("find", "try") /\ step = "find" /\ find.best # NoCluster /\ find' = NoFind /\ saved' = frame
      /\ phase = "replicate"
  BY DEF TryCluster, Finding
<1>3. /\ Accepts(n) /\ WellFormed(n) /\ CutEdges(n) < CutEdges(net) /\ net.node \subseteq n.node
      /\ Cardinality(n.node) = Cardinality(net.node) + Cardinality(find.best.nodes)
      /\ Cardinality(find.best.nodes) \in Nat
  BY <1>1, <1>2, FoundHolds
<1>4. net' = n /\ progress' = TRUE /\ used' = used + Cardinality(find.best.nodes)
  BY <1>1, <1>3 DEF TryCluster
<1>5. /\ CutEdges(net) <= CutEdges(frame) /\ Cardinality(net.node) <= Cardinality(frame.node) + used
  BY <1>2, AlikeFound
<1>6. /\ CutEdges(net) \in Nat /\ CutEdges(frame) \in Nat
      /\ Cardinality(net.node) \in Nat /\ Cardinality(frame.node) \in Nat
      /\ used \in Nat /\ limits.budget \in Nat /\ used <= limits.budget
  <2>1. phase \notin {"begin", "done"}
    BY <1>2
  <2> QED
    BY <2>1, GroundHolds
<1>7. CutEdges(n) \in Nat
  BY <1>3, Measures
<1>8. Within(n, limits) /\ ~(Cardinality(find.best.nodes) > limits.budget - used)
  BY <1>3 DEF Accepts, Audit, TooLarge, Remaining
<1>9. used' \in 0 .. limits.budget /\ Cardinality(net'.node) <= Cardinality(frame.node) + used'
  BY <1>3, <1>4, <1>5, <1>6, <1>8
<1>10. CutEdges(net') <= CutEdges(frame)
  BY <1>3, <1>4, <1>5, <1>6, <1>7
<1>11. IInv'
  BY <1>2, <1>3, <1>4, <1>8, <1>9, <1>10, FindEnds
<1>12. CutEdges(net') - CutEdges(net) = find.best.edges
  BY <1>3, <1>4 DEF Accepts
<1> QED
  BY <1>3, <1>4, <1>11, <1>12

LEMMA DropFindKeeps ==
  ASSUME IInv, DropFind
  PROVE  IInv'
<1>1. /\ Finding("find", "try") /\ step = "find" /\ find' = NoFind /\ saved' = frame
      /\ net' = net /\ used' = used /\ progress' = progress
  BY DEF DropFind, Finding
<1>2. /\ WellFormed(net) /\ Within(net, limits) /\ CutEdges(net) <= CutEdges(frame)
      /\ Cardinality(net.node) <= Cardinality(frame.node) + used
  BY <1>1, AlikeFound
<1>3. used \in 0 .. limits.budget /\ progress \in BOOLEAN
  BY DEF IInv, Settled, Flagged
<1> QED
  BY <1>1, <1>2, <1>3, FindEnds

----------------------------------------------------------------------------
(* Every step keeps the invariant. *)
LEMMA StutterKeeps ==
  ASSUME IInv, UNCHANGED vars
  PROVE  IInv'
<1>1. /\ frame' = frame /\ limits' = limits /\ cfg' = cfg /\ results' = results /\ tid' = tid
      /\ net' = net /\ used' = used /\ phase' = phase /\ step' = step /\ round' = round /\ stall' = stall
      /\ best' = best /\ progress' = progress /\ todo' = todo /\ sizes' = sizes /\ limit' = limit
      /\ saved' = saved /\ search' = search /\ find' = find
  BY DEF vars, entry, loop
<1>2. Staged' /\ Flagged' /\ Entered' /\ Sized'
  BY <1>1 DEF IInv, Staged, Flagged, Entered, Sized
<1>3. Ground' = Ground
  BY <1>1 DEF Ground, Undecided
<1>4. Settled'
  BY <1>1, <1>3 DEF IInv, Settled
<1>5. Listing'
  BY <1>1, <1>3 DEF IInv, Listing, IsMovable, IsPair, IsCut, IsReplication
<1>6. Searched'
  BY <1>1 DEF IInv, Searched, SearchTyped, IsBest
<1>7. Found'
  BY <1>1 DEF IInv, Found, FindTyped, IsFoundBest, BuiltOn, Later, Evaluated, TooLarge, Remaining
<1> QED
  BY <1>2, <1>4, <1>5, <1>6, <1>7 DEF IInv

LEMMA TakingKeeps ==
  ASSUME IInv, NEW c \in todo,
         \/ MoveNode(c) \/ KeepNode(c) \/ SwapPair(c) \/ KeepPair(c)
         \/ ResubNode(c) \/ SkipNode(c) \/ StartFind(c)
  PROVE  IInv'
<1>1. CASE MoveNode(c)
  BY <1>1, MoveNodeKeeps
<1>2. CASE KeepNode(c)
  BY <1>2, TryKeeps DEF KeepNode
<1>3. CASE SwapPair(c)
  BY <1>3, SwapPairKeeps
<1>4. CASE KeepPair(c)
  BY <1>4, TryKeeps DEF KeepPair
<1>5. CASE ResubNode(c)
  BY <1>5, ResubNodeKeeps
<1>6. CASE SkipNode(c)
  BY <1>6, TryKeeps DEF SkipNode
<1>7. CASE StartFind(c)
  BY <1>7, StartFindKeeps
<1> QED
  BY <1>1, <1>2, <1>3, <1>4, <1>5, <1>6, <1>7

LEMMA StepKeeps ==
  IInv /\ [Next]_vars => IInv'
<1> SUFFICES ASSUME IInv, [Next]_vars
             PROVE  IInv'
  OBVIOUS
<1>1. CASE Begin
  BY <1>1, BeginKeeps
<1>2. CASE Enter
  BY <1>2, EnterKeeps
<1>3. CASE StartRound
  BY <1>3, StartRoundKeeps
<1>4. CASE LeavePhase
  BY <1>4, LeavePhaseKeeps
<1>5. CASE RollRoundBack
  BY <1>5, RollRoundBackKeeps
<1>6. CASE EndRound
  BY <1>6, EndRoundKeeps
<1>7. CASE \E c \in todo : \/ MoveNode(c) \/ KeepNode(c) \/ SwapPair(c) \/ KeepPair(c)
                           \/ ResubNode(c) \/ SkipNode(c) \/ StartFind(c)
  BY <1>7, TakingKeeps
<1>8. CASE StartSearch
  BY <1>8, StartSearchKeeps
<1>9. CASE OpenParent
  BY <1>9, OpenParentKeeps
<1>10. CASE CloseParent
  BY <1>10, CloseParentKeeps
<1>11. CASE DeepenBeam
  BY <1>11, DeepenBeamKeeps
<1>12. CASE ApplySequence
  BY <1>12, ApplySequenceKeeps
<1>13. CASE EndSearch
  BY <1>13, EndSearchKeeps
<1>14. CASE EndCompound
  BY <1>14, EndCompoundKeeps
<1>15. CASE \E j \in net.node \X net.node : JoinNode(j)
  BY <1>15, JoinNodeKeeps
<1>16. CASE JoinNone
  BY <1>16, JoinNoneKeeps
<1>17. CASE BuildNext
  BY <1>17, BuildNextKeeps
<1>18. CASE SkipCluster
  BY <1>18, SkipClusterKeeps
<1>19. CASE JudgeCluster
  BY <1>19, JudgeClusterKeeps
<1>20. CASE DeepenCluster
  BY <1>20, DeepenClusterKeeps
<1>21. CASE TryCluster
  BY <1>21, TryClusterKeeps
<1>22. CASE DropFind
  BY <1>22, DropFindKeeps
<1>23. CASE \E v \in net.node : RepairNode(v)
  BY <1>23, RepairNodeKeeps
<1>24. CASE EndRepair
  BY <1>24, EndRepairKeeps
<1>25. CASE EndTrajectory
  BY <1>25, EndTrajectoryKeeps
<1>26. CASE Select
  BY <1>26, SelectKeeps
<1>27. CASE Done \/ UNCHANGED vars
  BY <1>27, StutterKeeps DEF Done
<1> QED
  BY <1>1, <1>2, <1>3, <1>4, <1>5, <1>6, <1>7, <1>8, <1>9, <1>10, <1>11, <1>12, <1>13, <1>14, <1>15,
     <1>16, <1>17, <1>18, <1>19, <1>20, <1>21, <1>22, <1>23, <1>24, <1>25, <1>26, <1>27 DEF Next

LEMMA Invariant == Spec => []IInv
BY InitInv, StepKeeps, PTL DEF Spec

LEMMA Types == IInv => TypeOK
<1> SUFFICES ASSUME IInv
             PROVE  TypeOK
  OBVIOUS
<1>1. WellFormed(net) /\ WellFormed(saved) /\ WellFormed(frame)
  BY DEF IInv, Settled, Entered
<1>2. \A v \in net.node : \A u \in Fanins(net, v) : v \notin Cone(net, u)
  BY <1>1, ConeOf DEF Vertices
<1>3. phase \in ToSet(Phases)
  <2>1. DOMAIN Phases = 1 .. 10
    BY DEF Phases
  <2>2. /\ Phases[1] = "begin" /\ Phases[2] = "relocate" /\ Phases[3] = "swap" /\ Phases[4] = "compound"
        /\ Phases[5] = "joint" /\ Phases[6] = "resub" /\ Phases[7] = "replicate" /\ Phases[8] = "repair"
        /\ Phases[9] = "audit" /\ Phases[10] = "done"
    BY DEF Phases
  <2>3. \A i \in 1 .. 10 : Phases[i] \in ToSet(Phases)
    BY <2>1 DEF ToSet
  <2>4. 1 \in 1 .. 10 /\ 2 \in 1 .. 10 /\ 3 \in 1 .. 10 /\ 4 \in 1 .. 10 /\ 5 \in 1 .. 10 /\ 6 \in 1 .. 10
        /\ 7 \in 1 .. 10 /\ 8 \in 1 .. 10 /\ 9 \in 1 .. 10 /\ 10 \in 1 .. 10
    OBVIOUS
  <2>5. phase \in AllPhases
    BY DEF IInv, Staged
  <2> QED
    BY <2>2, <2>3, <2>4, <2>5 DEF AllPhases, LongPhases
<1>4. search.depth \in 0 .. MaxDepth /\ Cardinality(search.beam) <= Max({1, BeamWidth})
  <2>1. CASE step \in Searches
    BY <2>1 DEF IInv, Searched, SearchTyped
  <2>2. CASE step \notin Searches
    <3>1. search.depth = 0 /\ search.beam = {}
      BY <2>2 DEF IInv, Searched, NoSearch
    <3>2. Cardinality({}) <= Max({1, BeamWidth})
      BY OneBeam
    <3>3. 0 \in 0 .. MaxDepth
      BY BoundsAssumption
    <3> QED
      BY <3>1, <3>2, <3>3
  <2> QED
    BY <2>1, <2>2
<1>5. find.depth \in 0 .. MaxClusterDepth
  <2>1. CASE step \in Finds
    BY <2>1 DEF IInv, Found, FindTyped
  <2>2. CASE step \notin Finds
    <3>1. find.depth = 0
      BY <2>2 DEF IInv, Found, NoFind
    <3> QED
      BY <3>1, BoundsAssumption
  <2> QED
    BY <2>1, <2>2
<1>6. /\ step \in {"enter", "round", "try", "search", "open", "find", "judge"}
      /\ tid \in 0 .. cfg.trajectories /\ round \in 0 .. cfg.rounds /\ stall \in 0 .. cfg.stall /\ best \in Nat
  BY DEF IInv, Staged, Searches, Finds
<1>7. used \in 0 .. limits.budget /\ limit \in Nat /\ \A p \in DOMAIN sizes : sizes[p] \in Nat
  BY DEF IInv, Settled, Sized
<1>8. progress \in BOOLEAN
  BY DEF IInv, Flagged
<1> QED
  BY <1>1, <1>2, <1>3, <1>4, <1>5, <1>6, <1>7, <1>8 DEF TypeOK, WellFormed

LEMMA LimitsHold == IInv => LimitsHeld
<1> SUFFICES ASSUME IInv
             PROVE  LimitsHeld
  OBVIOUS
<1>1. TypeOK
  BY Types
<1>2. ASSUME ~Unsettled
      PROVE  /\ Within(net, limits)
             /\ step # "open" => CutEdges(net) <= CutEdges(frame)
             /\ Cardinality(net.node) <= Cardinality(frame.node) + used /\ used <= limits.budget
  <2>1. phase \notin {"begin", "done"} /\ step # "judge" /\ (phase \in {"resub", "repair"} => step = "enter")
    BY <1>2 DEF Unsettled
  <2>2. /\ Within(Ground, limits) /\ CutEdges(Ground) <= CutEdges(frame)
        /\ Cardinality(Ground.node) <= Cardinality(frame.node) + used /\ used <= limits.budget
    BY <2>1, GroundHolds
  <2>3. CASE step \in Searches
    <3>1. /\ Ground = saved /\ WellFormed(saved)
          /\ step = "search" => net = saved
          /\ step = "open" => IsPlan(saved, limits, search.open) /\ net = Relocated(saved, search.open.steps)
      BY <2>3, AtSearch
    <3>2. CASE step = "search"
      BY <2>2, <3>1, <3>2
    <3>3. CASE step = "open"
      <4>1. Within(net, limits) /\ net.node = saved.node
        BY <3>1, <3>3, RelocatedIs DEF IsPlan, IsReparted
      <4> QED
        BY <2>2, <3>1, <3>3, <4>1
    <3> QED
      BY <2>3, <3>2, <3>3 DEF Searches
  <2>4. CASE step = "find"
    BY <2>2, <2>4, AlikeFound
  <2>5. CASE step \notin Searches /\ step # "find"
    <3>1. Ground = net
      BY <2>1, <2>5 DEF Ground, Undecided, Finds
    <3> QED
      BY <2>2, <3>1
  <2> QED
    BY <2>3, <2>4, <2>5
<1> QED
  BY <1>1, <1>2 DEF LimitsHeld

(* For every network without cycles and every setting: at each settled      *)
(* point of a trajectory, and at every node of its beam search, the network *)
(* is within the limits taken at the entry, has no more cut-edges than the  *)
(* frame's and no more nodes than the growth that was charged; and every    *)
(* variable has its type, the network staying without cycles.               *)
THEOREM Csr2Limits == Spec => []LimitsHeld
BY LimitsHold, Invariant, PTL

LEMMA Undone == IInv => NoTrace
<1> SUFFICES ASSUME IInv, step \in {"search", "find"}
             PROVE  Circuit(net) = Circuit(saved)
  BY DEF NoTrace
<1>1. CASE step = "search"
  BY <1>1, AtSearch DEF Searches
<1>2. CASE step = "find"
  BY <1>2, AtFind, SameCircuit DEF Finds
<1> QED
  BY <1>1, <1>2

(* For every network without cycles: between two trials of a search the     *)
(* network is what it was at its start, so the rollback of a log of         *)
(* relocations and that of a cluster's transaction are exact.               *)
THEOREM Csr2NoTrace == Spec => []NoTrace
BY Undone, Invariant, PTL

LEMMA Foretold == IInv => PredictionsExact
<1> SUFFICES ASSUME IInv
             PROVE  PredictionsExact
  OBVIOUS
<1>1. WellFormed(net)
  BY DEF IInv, Settled
<1>2. ASSUME NEW c \in Replications(net)
      PROVE  LET n == Built(net, {c.driver}, c.driver, c.part)
             IN SubSeq(c.key, 1, 2) = <<CutEdges(n) - CutEdges(net), CutNets(n) - CutNets(net)>>
  BY <1>1, ReplicationPredicted
<1>3. ASSUME NEW j \in Joints(net)
      PROVE  CutNets(Joined(net, j)) - CutNets(net) = JointNetDelta(net, j[1], net.fanin[j[1]], <<j[2]>>)
  BY <1>1, JointsAre
<1> QED
  BY <1>2, <1>3 DEF PredictionsExact

(* For every network without cycles: the cut-edges and cut-nets that are    *)
(* predicted of a replication and of a joint replacement from the           *)
(* neighbourhood alone are those of the whole network once it is changed.   *)
THEOREM Csr2Predictions == Spec => []PredictionsExact
BY Foretold, Invariant, PTL

AsFound ==
  /\ step = "search" /\ step' \notin {"search", "open"} =>
       CutEdges(net') - CutEdges(net) = search.best.delta
  /\ step = "find" /\ step' = "try" =>
       CutEdges(net') - CutEdges(net) = find.best.edges

LEMMA EndsOfSearch ==
  ASSUME IInv, [Next]_vars, step = "search", step' \notin {"search", "open"}
  PROVE  ApplySequence \/ EndSearch
<1>1. phase = "compound" /\ phase # "joint"
  BY DEF IInv, Staged, Searches
<1>2. step' # step
  OBVIOUS
<1> QED
  BY <1>1, <1>2 DEF Next, vars, Begin, Enter, StartRound, LeavePhase, RollRoundBack, EndRound,
     MoveNode, KeepNode, SwapPair, KeepPair, ResubNode, SkipNode, StartFind, Try, StartSearch, OpenParent,
     CloseParent, DeepenBeam, Searching, EndCompound, JoinNode, JoinNone, BuildNext, SkipCluster,
     JudgeCluster, DeepenCluster, TryCluster, DropFind, Finding, RepairNode, EndRepair, EndTrajectory,
     Select, Done

LEMMA EndsOfFind ==
  ASSUME IInv, [Next]_vars, step = "find", step' = "try"
  PROVE  TryCluster \/ DropFind
<1>1. phase = "replicate" /\ phase # "joint"
  BY DEF IInv, Staged, Finds
<1>2. step' # step
  OBVIOUS
<1> QED
  BY <1>1, <1>2 DEF Next, vars, Begin, Enter, StartRound, LeavePhase, RollRoundBack, EndRound,
     MoveNode, KeepNode, SwapPair, KeepPair, ResubNode, SkipNode, StartFind, Try, StartSearch, OpenParent,
     CloseParent, DeepenBeam, Searching, EndCompound, JoinNode, JoinNone, BuildNext, SkipCluster,
     JudgeCluster, DeepenCluster, ApplySequence, EndSearch, SearchOver, Finding, RepairNode, EndRepair, EndTrajectory,
     Select, Done

LEMMA Applied == IInv /\ [Next]_vars => AsFound
<1> SUFFICES ASSUME IInv, [Next]_vars
             PROVE  AsFound
  OBVIOUS
<1>1. ASSUME step = "search", step' \notin {"search", "open"}
      PROVE  CutEdges(net') - CutEdges(net) = search.best.delta
  <2>1. CASE ApplySequence
    BY <2>1, ApplySequenceKeeps
  <2>2. CASE EndSearch
    <3>1. SearchOver /\ (search.best = NoPlan \/ ~Applies(Sequence)) /\ net' = net
      BY <2>2 DEF EndSearch, LeaveWith
    <3>2. search.best = NoPlan
      BY <3>1, SequenceHolds
    <3>3. search.best.delta = 0
      BY <3>2 DEF NoPlan
    <3>4. CutEdges(net) \in Nat
      BY Measures DEF IInv, Settled
    <3> QED
      BY <3>1, <3>3, <3>4
  <2> QED
    BY <1>1, <2>1, <2>2, EndsOfSearch
<1>2. ASSUME step = "find", step' = "try"
      PROVE  CutEdges(net') - CutEdges(net) = find.best.edges
  <2>1. CASE TryCluster
    BY <2>1, TryClusterKeeps
  <2>2. CASE DropFind
    <3>1. find.best = NoCluster /\ net' = net
      BY <2>2 DEF DropFind
    <3>2. find.best.edges = 0
      BY <3>1 DEF NoCluster
    <3>3. CutEdges(net) \in Nat
      BY Measures DEF IInv, Settled
    <3> QED
      BY <3>1, <3>2, <3>3
  <2> QED
    BY <1>2, <2>1, <2>2, EndsOfFind
<1> QED
  BY <1>1, <1>2 DEF AsFound

(* For every network without cycles: what a search for relocations or for a *)
(* cluster returns can always be applied, and brings exactly the change of  *)
(* the cut-edges that the search measured.                                  *)
THEOREM Csr2Found == Spec => AppliedAsFound
<1>1. IInv /\ [Next]_vars => [AsFound]_vars
  BY Applied
<1>2. [][AsFound]_vars <=> AppliedAsFound
  BY DEF AsFound, AppliedAsFound
<1> QED
  BY <1>1, <1>2, Invariant, PTL DEF Spec

Accepting ==
  <<step, step'>> \in {<<"try", "try">>, <<"find", "try">>, <<"search", "round">>} \/ phase = "joint"

LEMMA AcceptingSteps ==
  ASSUME IInv, [Next]_vars, Accepting
  PROVE  \/ net' = net
         \/ \E c \in todo : MoveNode(c) \/ SwapPair(c) \/ ResubNode(c)
         \/ \E j : JoinNode(j)
         \/ TryCluster \/ ApplySequence
<1>1. CASE <<step, step'>> = <<"try", "try">>
  <2>1. step = "try" /\ step' = "try" /\ phase # "joint" /\ phase \notin {"begin", "audit"}
    BY <1>1 DEF IInv, Staged, RoundPhases
  <2> QED
    BY <2>1 DEF Next, vars, Begin, Enter, StartRound, LeavePhase, RollRoundBack, LeaveWith, EndRound,
     KeepNode, KeepPair, SkipNode, Keep, StartFind, StartSearch, OpenParent,
     CloseParent, DeepenBeam, EndSearch, SearchOver, Searching, EndCompound, JoinNode, JoinNone, BuildNext, SkipCluster,
     JudgeCluster, DeepenCluster, DropFind, Finding, RepairNode, EndRepair, EndTrajectory,
     Select, Done
<1>2. CASE <<step, step'>> = <<"find", "try">>
  BY <1>2, EndsOfFind DEF DropFind
<1>3. CASE <<step, step'>> = <<"search", "round">>
  BY <1>3, EndsOfSearch DEF EndSearch, LeaveWith
<1>4. CASE phase = "joint"
  <2>1. step = "enter"
    BY <1>4, AtJoint
  <2> QED
    BY <1>4, <2>1 DEF Next, vars, Begin, Enter, StartRound, LeavePhase, RollRoundBack, LeaveWith, EndRound,
     MoveNode, KeepNode, SwapPair, KeepPair, ResubNode, SkipNode, StartFind, Try, StartSearch, OpenParent,
     CloseParent, DeepenBeam, EndSearch, SearchOver, Searching, EndCompound, JoinNone, BuildNext, SkipCluster,
     JudgeCluster, DeepenCluster, DropFind, Finding, RepairNode, EndRepair, EndTrajectory,
     Select, Done
<1> QED
  BY <1>1, <1>2, <1>3, <1>4 DEF Accepting

Drops == Circuit(net') # Circuit(net) /\ Accepting => CutEdges(net') < CutEdges(net)

LEMMA Dropping == IInv /\ [Next]_vars => Drops
<1> SUFFICES ASSUME IInv, [Next]_vars, Circuit(net') # Circuit(net), Accepting
             PROVE  CutEdges(net') < CutEdges(net)
  BY DEF Drops
<1>1. net' # net
  OBVIOUS
<1>2. \/ \E c \in todo : MoveNode(c) \/ SwapPair(c) \/ ResubNode(c)
      \/ \E j : JoinNode(j)
      \/ TryCluster \/ ApplySequence
  BY <1>1, AcceptingSteps
<1> QED
  BY <1>2, MoveNodeKeeps, SwapPairKeeps, ResubNodeKeeps, JoinNodeKeeps, TryClusterKeeps, ApplySequenceKeeps

(* For every network without cycles: a change that is accepted -- a move, a *)
(* swap, a sequence of relocations, a replacement, a resubstitution, a      *)
(* cluster -- lowers the cut-edges strictly.                                *)
THEOREM Csr2Drops == Spec => CutDrops
<1>1. IInv /\ [Next]_vars => [Drops]_vars
  BY Dropping
<1>2. [][Drops]_vars <=> CutDrops
  BY DEF Drops, Accepting, CutDrops
<1> QED
  BY <1>1, <1>2, Invariant, PTL DEF Spec

Improves == frame' # frame => Within(frame', limits) /\ CutEdges(frame') <= CutEdges(frame)

LEMMA Improving == IInv /\ [Next]_vars => Improves
<1> SUFFICES ASSUME IInv, [Next]_vars, frame' # frame
             PROVE  Within(frame', limits) /\ CutEdges(frame') <= CutEdges(frame)
  BY DEF Improves
<1>1. Select
  BY DEF Next, vars, entry, Begin, Enter, StartRound, LeavePhase, RollRoundBack, LeaveWith, EndRound,
     MoveNode, KeepNode, SwapPair, KeepPair, ResubNode, SkipNode, StartFind, Try, StartSearch, OpenParent,
     CloseParent, DeepenBeam, ApplySequence, EndSearch, Searching, EndCompound, JoinNode, JoinNone, BuildNext,
     SkipCluster, JudgeCluster, DeepenCluster, TryCluster, DropFind, Finding, RepairNode, EndRepair, EndTrajectory,
     Done
<1>2. PICK r \in results : frame' = r.net
  BY <1>1, SelectKeeps
<1>3. phase # "done"
  BY <1>1 DEF Select
<1> QED
  BY <1>2, <1>3 DEF IInv, Entered

(* For every network without cycles: what takes the place of the frame's    *)
(* network is within the limits taken from it at the entry and has no more  *)
(* cut-edges.  (That it has the same outputs is the part of the promise     *)
(* that the order of equal resubstitutions can break.)                      *)
THEOREM Csr2Improves == Spec => [][Improves]_vars
<1>1. IInv /\ [Next]_vars => [Improves]_vars
  BY Improving
<1> QED
  BY <1>1, Invariant, PTL DEF Spec

=============================================================================
