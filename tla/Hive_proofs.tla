------------------------------ MODULE Hive_proofs ------------------------------
(****************************************************************************)
(* Proofs about Hive, for every network: ranks rise along the edges, every  *)
(* region grown is convex, the counts kept by Add are those of a scan, and  *)
(* what is reported is what a report promises.                              *)
(****************************************************************************)
EXTENDS Hive, NetTheorems

----------------------------------------------------------------------------
(* Least closed sets *)

LEMMA ReachedIsClosed ==
  ASSUME NEW n, NEW S \in SUBSET n.node, NEW next \in [n.node -> SUBSET n.node]
  PROVE  /\ Reached(n, S, next) \subseteq n.node
         /\ S \subseteq Reached(n, S, next)
         /\ Closed(Reached(n, S, next), next)
BY DEF Reached, Closed

LEMMA ReachedIsLeast ==
  ASSUME NEW n, NEW S, NEW next, NEW D \in SUBSET n.node, S \subseteq D, Closed(D, next)
  PROVE  Reached(n, S, next) \subseteq D
BY DEF Reached

LEMMA NextTypes ==
  ASSUME NEW n, NEW r, NEW S
  PROVE  /\ Forward(n) \in [n.node -> SUBSET n.node]
         /\ Backward(n) \in [n.node -> SUBSET n.node]
         /\ UpTo(n, r, S) \in [n.node -> SUBSET n.node]
         /\ DownTo(n, r, S) \in [n.node -> SUBSET n.node]
BY DEF Forward, Backward, UpTo, DownTo, Succs, Preds

RankRises(n, r) == \A v \in n.node : \A p \in Preds(n, v) : r[p] < r[v]

(* The nodes on a path that leaves S and comes back have ranks strictly     *)
(* between those of S, so that the search in the band finds them all, and   *)
(* adding them opens no new detour.                                         *)
LEMMA ClosureConvex ==
  ASSUME NEW n, NEW r \in [n.node -> Nat], RankRises(n, r), NEW S \in SUBSET n.node
  PROVE  /\ Violators(n, r, S) \in SUBSET n.node
         /\ Convex(n, S \cup Violators(n, r, S))
<1> DEFINE V  == Violators(n, r, S)
           FD == Reached(n, S, Forward(n))
           FA == Reached(n, S, Backward(n))
           PD == Reached(n, S, UpTo(n, r, S))
           PA == Reached(n, S, DownTo(n, r, S))
<1>1. /\ FD \subseteq n.node /\ S \subseteq FD /\ Closed(FD, Forward(n))
      /\ FA \subseteq n.node /\ S \subseteq FA /\ Closed(FA, Backward(n))
      /\ PD \subseteq n.node /\ S \subseteq PD /\ Closed(PD, UpTo(n, r, S))
      /\ PA \subseteq n.node /\ S \subseteq PA /\ Closed(PA, DownTo(n, r, S))
  BY NextTypes, ReachedIsClosed
<1>2. V = (PD \ S) \cap (PA \ S)
  BY DEF Violators, Desc, Anc
<1> HIDE DEF FD, FA, PD, PA, V
<1>3. PD \subseteq FD
  <2>1. Closed(FD, UpTo(n, r, S))
    BY <1>1 DEF Closed, UpTo, Forward
  <2> QED BY <1>1, <2>1, ReachedIsLeast DEF PD
<1>4. PA \subseteq FA
  <2>1. Closed(FA, DownTo(n, r, S))
    BY <1>1 DEF Closed, DownTo, Backward
  <2> QED BY <1>1, <2>1, ReachedIsLeast DEF PA
<1>5. Reached(n, S \cup V, Forward(n)) \subseteq FD
  <2>1. S \cup V \subseteq FD
    BY <1>1, <1>2, <1>3
  <2> QED BY <1>1, <2>1, ReachedIsLeast
<1>6. Reached(n, S \cup V, Backward(n)) \subseteq FA
  <2>1. S \cup V \subseteq FA
    BY <1>1, <1>2, <1>4
  <2> QED BY <1>1, <2>1, ReachedIsLeast
<1>7. FA \subseteq {y \in n.node : y \in S \/ BelowSome(r, S, y)}
  <2> DEFINE D == {y \in n.node : y \in S \/ BelowSome(r, S, y)}
  <2>1. ASSUME NEW y \in D, NEW p \in Preds(n, y) PROVE p \in D
    <3>1. p \in n.node /\ y \in n.node /\ r[p] < r[y] /\ r[p] \in Nat /\ r[y] \in Nat
      BY DEF RankRises, Preds
    <3>2. CASE y \in S BY <3>1, <3>2 DEF BelowSome
    <3>3. CASE BelowSome(r, S, y)
      <4>1. PICK u \in S : r[y] < r[u]
        BY <3>3 DEF BelowSome
      <4>2. r[u] \in Nat
        OBVIOUS
      <4>3. r[p] < r[u]
        BY <3>1, <4>1, <4>2
      <4> QED BY <3>1, <4>3 DEF BelowSome
    <3> QED BY <3>2, <3>3
  <2>2. Closed(D, Backward(n))
    BY <2>1 DEF Closed, Backward
  <2>3. S \subseteq D /\ D \in SUBSET n.node
    OBVIOUS
  <2> HIDE DEF D
  <2>4. FA \subseteq D
    BY <2>2, <2>3, ReachedIsLeast DEF FA
  <2> QED BY <2>4 DEF D
<1>8. FD \subseteq {y \in n.node : y \in S \/ AboveSome(r, S, y)}
  <2> DEFINE D == {y \in n.node : y \in S \/ AboveSome(r, S, y)}
  <2>1. ASSUME NEW y \in D, NEW s \in Succs(n, y) PROVE s \in D
    <3>1. s \in n.node /\ y \in n.node /\ r[y] < r[s] /\ r[s] \in Nat /\ r[y] \in Nat
      BY DEF RankRises, Succs
    <3>2. CASE y \in S BY <3>1, <3>2 DEF AboveSome
    <3>3. CASE AboveSome(r, S, y)
      <4>1. PICK u \in S : r[y] > r[u]
        BY <3>3 DEF AboveSome
      <4>2. r[u] \in Nat
        OBVIOUS
      <4>3. r[s] > r[u]
        BY <3>1, <4>1, <4>2
      <4> QED BY <3>1, <4>3 DEF AboveSome
    <3> QED BY <3>2, <3>3
  <2>2. Closed(D, Forward(n))
    BY <2>1 DEF Closed, Forward
  <2>3. S \subseteq D /\ D \in SUBSET n.node
    OBVIOUS
  <2> HIDE DEF D
  <2>4. FD \subseteq D
    BY <2>2, <2>3, ReachedIsLeast DEF FD
  <2> QED BY <2>4 DEF D
<1>9. FD \subseteq PD \cup {y \in n.node : ~BelowSome(r, S, y)}
  <2> DEFINE D == PD \cup {y \in n.node : ~BelowSome(r, S, y)}
  <2>1. ASSUME NEW y \in D, NEW s \in Succs(n, y), BelowSome(r, S, s) PROVE s \in D
    <3>1. s \in n.node /\ y \in n.node /\ r[y] < r[s] /\ r[s] \in Nat /\ r[y] \in Nat
      BY <1>1 DEF RankRises, Succs
    <3>2. PICK u \in S : r[s] < r[u]
      BY <2>1 DEF BelowSome
    <3>3. r[u] \in Nat
      OBVIOUS
    <3>4. BelowSome(r, S, y)
      BY <3>1, <3>2, <3>3 DEF BelowSome
    <3>5. y \in PD
      BY <3>4
    <3>6. CASE s \in S BY <3>6, <1>1
    <3>7. CASE s \notin S
      <4>1. s \in UpTo(n, r, S)[y]
        BY <3>1, <3>7, <2>1 DEF UpTo
      <4> QED BY <4>1, <3>5, <1>1 DEF Closed
    <3> QED BY <3>6, <3>7
  <2>2. Closed(D, Forward(n))
    BY <2>1, <1>1 DEF Closed, Forward, Succs
  <2>3. S \subseteq D /\ D \in SUBSET n.node
    BY <1>1
  <2> HIDE DEF D
  <2>4. FD \subseteq D
    BY <2>2, <2>3, ReachedIsLeast DEF FD
  <2> QED BY <2>4 DEF D
<1>10. FA \subseteq PA \cup {y \in n.node : ~AboveSome(r, S, y)}
  <2> DEFINE D == PA \cup {y \in n.node : ~AboveSome(r, S, y)}
  <2>1. ASSUME NEW y \in D, NEW p \in Preds(n, y), AboveSome(r, S, p) PROVE p \in D
    <3>1. p \in n.node /\ y \in n.node /\ r[p] < r[y] /\ r[p] \in Nat /\ r[y] \in Nat
      BY <1>1 DEF RankRises, Preds
    <3>2. PICK u \in S : r[p] > r[u]
      BY <2>1 DEF AboveSome
    <3>3. r[u] \in Nat
      OBVIOUS
    <3>4. AboveSome(r, S, y)
      BY <3>1, <3>2, <3>3 DEF AboveSome
    <3>5. y \in PA
      BY <3>4
    <3>6. CASE p \in S BY <3>6, <1>1
    <3>7. CASE p \notin S
      <4>1. p \in DownTo(n, r, S)[y]
        BY <3>1, <3>7, <2>1 DEF DownTo
      <4> QED BY <4>1, <3>5, <1>1 DEF Closed
    <3> QED BY <3>6, <3>7
  <2>2. Closed(D, Backward(n))
    BY <2>1, <1>1 DEF Closed, Backward, Preds
  <2>3. S \subseteq D /\ D \in SUBSET n.node
    BY <1>1
  <2> HIDE DEF D
  <2>4. FA \subseteq D
    BY <2>2, <2>3, ReachedIsLeast DEF FA
  <2> QED BY <2>4 DEF D
<1>11. FD \cap FA \subseteq S \cup V
  BY <1>2, <1>7, <1>8, <1>9, <1>10
<1> QED BY <1>1, <1>2, <1>5, <1>6, <1>11 DEF Convex, V

(* A cone is left only at its root, and from there ranks rise above those   *)
(* of the cone.                                                             *)
LEMMA MffcConvex ==
  ASSUME NEW n, NEW r \in [n.node -> Nat], RankRises(n, r), NEW seed \in n.node
  PROVE  /\ Mffc(n, seed) \in SUBSET n.node
         /\ Convex(n, Mffc(n, seed))
<1> DEFINE M == Mffc(n, seed)
<1>1. M \in SUBSET n.node /\ seed \in M
  BY DEF Mffc
<1>2. ASSUME NEW D \in SUBSET n.node, seed \in D, Absorbs(n, D) PROVE M \subseteq D
  BY <1>2 DEF Mffc
<1>3. Absorbs(n, M)
  <2> SUFFICES ASSUME NEW v \in n.node, v \notin n.co, Succs(n, v) # {}, Succs(n, v) \subseteq M
               PROVE  v \in M
    BY DEF Absorbs
  <2> SUFFICES ASSUME NEW D \in SUBSET n.node, seed \in D, Absorbs(n, D) PROVE v \in D
    BY DEF Mffc
  <2>1. Succs(n, v) \subseteq D
    BY <1>2
  <2> QED BY <2>1 DEF Absorbs
<1> HIDE DEF M
<1>4. ASSUME NEW x \in M, x # seed PROVE Succs(n, x) \subseteq M
  <2> SUFFICES ASSUME ~(Succs(n, x) \subseteq M) PROVE FALSE
    OBVIOUS
  <2> DEFINE D == M \ {x}
  <2>1. Absorbs(n, D)
    <3> SUFFICES ASSUME NEW v \in n.node, v \notin n.co, Succs(n, v) # {}, Succs(n, v) \subseteq D
                 PROVE  v \in D
      BY DEF Absorbs
    <3>1. v \in M
      BY <1>3 DEF Absorbs
    <3>2. v # x
      OBVIOUS
    <3> QED BY <3>1, <3>2
  <2>2. D \in SUBSET n.node /\ seed \in D
    BY <1>1, <1>4
  <2> HIDE DEF D
  <2>3. M \subseteq D
    BY <2>1, <2>2, <1>2
  <2> QED BY <2>3 DEF D
<1>5. M \subseteq {y \in n.node : y = seed \/ r[y] < r[seed]}
  <2> DEFINE D == {y \in n.node : y = seed \/ r[y] < r[seed]}
  <2>1. Absorbs(n, D)
    <3> SUFFICES ASSUME NEW v \in n.node, Succs(n, v) # {}, Succs(n, v) \subseteq D PROVE v \in D
      BY DEF Absorbs
    <3>1. PICK s \in Succs(n, v) : s \in D
      OBVIOUS
    <3>2. s \in n.node /\ r[v] < r[s] /\ r[s] \in Nat /\ r[v] \in Nat /\ r[seed] \in Nat
      BY DEF RankRises, Succs
    <3>3. s = seed \/ r[s] < r[seed]
      BY <3>1
    <3>4. r[v] < r[seed]
      BY <3>2, <3>3
    <3> QED BY <3>4
  <2>2. D \in SUBSET n.node /\ seed \in D
    OBVIOUS
  <2> HIDE DEF D
  <2>3. M \subseteq D
    BY <2>1, <2>2, <1>2
  <2> QED BY <2>3 DEF D
<1>6. Reached(n, M, Forward(n)) \subseteq M \cup {y \in n.node : r[seed] < r[y]}
  <2> DEFINE D == M \cup {y \in n.node : r[seed] < r[y]}
  <2>1. ASSUME NEW y \in D, NEW s \in Succs(n, y) PROVE s \in D
    <3>1. /\ s \in n.node /\ y \in n.node /\ r[y] < r[s]
          /\ r[s] \in Nat /\ r[y] \in Nat /\ r[seed] \in Nat
      BY <1>1 DEF RankRises, Succs
    <3>2. CASE y \in M /\ y # seed BY <3>2, <1>4
    <3>3. CASE y = seed BY <3>1, <3>3
    <3>4. CASE r[seed] < r[y]
      <4>1. r[seed] < r[s]
        BY <3>1, <3>4
      <4> QED BY <4>1, <3>1
    <3> QED BY <3>2, <3>3, <3>4
  <2>2. Closed(D, Forward(n))
    BY <2>1, <1>1 DEF Closed, Forward
  <2>3. D \in SUBSET n.node /\ M \subseteq D
    BY <1>1
  <2> HIDE DEF D
  <2>4. Reached(n, M, Forward(n)) \subseteq D
    BY <2>2, <2>3, ReachedIsLeast
  <2> QED BY <2>4 DEF D
<1>7. Reached(n, M, Backward(n)) \subseteq {y \in n.node : r[y] <= r[seed]}
  <2> DEFINE D == {y \in n.node : r[y] <= r[seed]}
  <2>1. ASSUME NEW y \in D, NEW p \in Preds(n, y) PROVE p \in D
    <3>1. /\ p \in n.node /\ y \in n.node /\ r[p] < r[y] /\ r[y] <= r[seed]
          /\ r[p] \in Nat /\ r[y] \in Nat /\ r[seed] \in Nat
      BY DEF RankRises, Preds
    <3>2. r[p] <= r[seed]
      BY <3>1
    <3> QED BY <3>1, <3>2
  <2>2. Closed(D, Backward(n))
    BY <2>1 DEF Closed, Backward
  <2>3. M \subseteq D
    <3>1. r[seed] <= r[seed] /\ \A y \in n.node : r[y] < r[seed] => r[y] <= r[seed]
      OBVIOUS
    <3> QED BY <1>5, <3>1
  <2>4. D \in SUBSET n.node
    OBVIOUS
  <2> HIDE DEF D
  <2>5. Reached(n, M, Backward(n)) \subseteq D
    BY <2>2, <2>3, <2>4, ReachedIsLeast
  <2> QED BY <2>5 DEF D
<1>8. \A y \in n.node : ~(r[seed] < r[y] /\ r[y] <= r[seed])
  OBVIOUS
<1>9. Reached(n, M, Forward(n)) \cap Reached(n, M, Backward(n)) \subseteq M
  BY <1>6, <1>7, <1>8
<1> QED BY <1>1, <1>9 DEF Convex, M

LEMMA EmptyConvex == \A n : Convex(n, {})
<1> TAKE n
<1>1. Closed({}, Forward(n))
  BY DEF Closed
<1>2. Reached(n, {}, Forward(n)) \subseteq {}
  BY <1>1, ReachedIsLeast
<1> QED BY <1>2 DEF Convex

----------------------------------------------------------------------------
(* The counts *)

LEMMA NetFinite ==
  ASSUME NEW n, IsNet(n), NEW M \in SUBSET n.node
  PROVE  /\ IsFiniteSet(M) /\ IsFiniteSet(Outs(n, M)) /\ IsFiniteSet(Drivers(n, M))
         /\ \A d : IsFiniteSet(Fed(n, M, d))
         /\ \A v \in n.node : IsFiniteSet(Succs(n, v)) /\ IsFiniteSet(Preds(n, v))
         /\ \A v \in n.node : ExtIns(n, v) \subseteq n.ci
<1>1. IsFiniteSet(n.node \cup n.ci)
  BY FS_Union DEF IsNet
<1>2. IsFiniteSet(n.node)
  BY DEF IsNet
<1>3. \A T \in SUBSET n.node : IsFiniteSet(T)
  BY <1>2, FS_Subset
<1>4. \A v \in n.node : ExtIns(n, v) \subseteq n.ci /\ Preds(n, v) \subseteq n.node /\ Succs(n, v) \subseteq n.node
  BY DEF ExtIns, Preds, Succs
<1>5. Outs(n, M) \subseteq n.node /\ \A d : Fed(n, M, d) \subseteq n.node
  BY DEF Outs, Fed
<1>6. Drivers(n, M) \subseteq n.node \cup n.ci
  BY <1>4 DEF Drivers
<1>7. IsFiniteSet(Drivers(n, M))
  BY <1>1, <1>6, FS_Subset
<1> QED BY <1>3, <1>4, <1>5, <1>7

(* The cardinality of a set that loses its part A and gains B *)
LEMMA Exchanged ==
  ASSUME NEW S, NEW A \in SUBSET S, NEW B, IsFiniteSet(S), IsFiniteSet(B), B \cap (S \ A) = {}
  PROVE  Cardinality((S \ A) \cup B) = Cardinality(S) - Cardinality(A) + Cardinality(B)
<1>1. IsFiniteSet(A)
  BY FS_Subset
<1>2. IsFiniteSet(S \ A) /\ Cardinality(S \ A) = Cardinality(S) - Cardinality(S \cap A)
  BY FS_Difference
<1>3. S \cap A = A
  OBVIOUS
<1>4. Cardinality((S \ A) \cup B) = Cardinality(S \ A) + Cardinality(B) - Cardinality((S \ A) \cap B)
  BY <1>2, FS_Union
<1>5. (S \ A) \cap B = {}
  OBVIOUS
<1>6. Cardinality((S \ A) \cap B) = 0
  BY <1>5, FS_EmptySet
<1>7. /\ Cardinality(S) \in Nat /\ Cardinality(A) \in Nat /\ Cardinality(B) \in Nat
  BY <1>1, FS_CardinalityType
<1>8. Cardinality(S \ A) = Cardinality(S) - Cardinality(A)
  BY <1>2, <1>3
<1>9. Cardinality((S \ A) \cup B) = Cardinality(S \ A) + Cardinality(B) - 0
  BY <1>4, <1>6
<1>10. ASSUME NEW a \in Nat, NEW b \in Nat, NEW c \in Nat
       PROVE  (a - b) + c - 0 = a - b + c
  OBVIOUS
<1> QED BY <1>7, <1>8, <1>9, <1>10

(* Region::add keeps the counts exact, whatever the order of additions. *)
LEMMA AddExact ==
  ASSUME NEW n, IsNet(n), NEW r, r.members \in SUBSET n.node, Exact(n, r),
         NEW id \in n.node \ r.members
  PROVE  /\ Add(n, r, id).members = r.members \cup {id}
         /\ Exact(n, Add(n, r, id))
<1> DEFINE O     == r.members
           M     == r.members \cup {id}
           D     == Drivers(n, O)
           fed   == (Preds(n, id) \ M) \cup ExtIns(n, id)
           known == DOMAIN r.driven \ {id}
           mine  == Preds(n, id) \cap O
           cnt   == Cardinality(Succs(n, id) \ M)
           inner == {p \in mine : r.ext[p] = 1 /\ p \notin n.co}
<1>1. /\ r.driven = [d \in D |-> Cardinality(Fed(n, O, d))]
      /\ r.ext = [m \in O |-> Cardinality(Succs(n, m) \ O)]
      /\ r.in = Cardinality(D)
      /\ r.out = Cardinality(Outs(n, O))
  BY DEF Exact
<1>2. /\ O \in SUBSET n.node /\ M \in SUBSET n.node
      /\ id \notin n.ci
      /\ \A v \in n.node : ToSet(n.fanin[v]) \subseteq n.node \cup n.ci
  <2>1. \A v \in n.node : ToSet(n.fanin[v]) \subseteq n.node \cup n.ci
    BY DEF IsNet, ToSet
  <2> QED BY <2>1 DEF IsNet
<1>3. /\ IsFiniteSet(O) /\ IsFiniteSet(M) /\ IsFiniteSet(D) /\ IsFiniteSet(Drivers(n, M))
      /\ IsFiniteSet(Outs(n, O)) /\ IsFiniteSet(Outs(n, M))
      /\ \A d : IsFiniteSet(Fed(n, O, d)) /\ IsFiniteSet(Fed(n, M, d))
      /\ \A v \in n.node : IsFiniteSet(Succs(n, v)) /\ IsFiniteSet(Preds(n, v))
  BY <1>2, NetFinite
<1>4. known = D \ {id}
  BY <1>1
<1>5. Drivers(n, M) = known \cup fed
  <2>1. \A m \in O : id \notin ExtIns(n, m)
    BY <1>2 DEF ExtIns
  <2>2. \A d : d \in Drivers(n, M) <=> \E m \in M : d \in (Preds(n, m) \ M) \cup ExtIns(n, m)
    BY DEF Drivers
  <2>3. \A d : d \in D <=> \E m \in O : d \in (Preds(n, m) \ O) \cup ExtIns(n, m)
    BY DEF Drivers
  <2>4. ASSUME NEW d \in Drivers(n, M) PROVE d \in known \cup fed
    <3> HIDE DEF D
    <3>1. PICK m \in M : d \in (Preds(n, m) \ M) \cup ExtIns(n, m)
      BY <2>2
    <3>2. CASE m = id BY <3>1, <3>2
    <3>3. CASE m \in O
      <4>1. d \in D
        BY <2>3, <3>1, <3>3
      <4>2. d # id
        BY <2>1, <3>1, <3>3
      <4> QED BY <1>4, <4>1, <4>2
    <3> QED BY <3>2, <3>3
  <2>5. ASSUME NEW d \in known PROVE d \in Drivers(n, M)
    <3> HIDE DEF D
    <3>1. PICK m \in O : d \in (Preds(n, m) \ O) \cup ExtIns(n, m)
      BY <1>4, <2>3
    <3>2. d # id
      BY <1>4
    <3> QED BY <2>2, <3>1, <3>2
  <2>6. ASSUME NEW d \in fed PROVE d \in Drivers(n, M)
    BY <2>2
  <2> QED BY <2>4, <2>5, <2>6
<1>6. \A d \in known \cup fed :
        At(r.driven, d) + Count(d \in fed) = Cardinality(Fed(n, M, d))
  <2> SUFFICES ASSUME NEW d \in known \cup fed
               PROVE  At(r.driven, d) + Count(d \in fed) = Cardinality(Fed(n, M, d))
    OBVIOUS
  <2>1. d \notin M /\ d \in n.node \cup n.ci
    <3>1. D \cap O = {} /\ D \subseteq n.node \cup n.ci
      BY <1>2 DEF Drivers, Preds, ExtIns, IsNet
    <3>2. d \in fed => d \notin M /\ d \in n.node \cup n.ci
      BY <1>2 DEF Preds, ExtIns, IsNet
    <3> QED BY <1>4, <3>1, <3>2
  <2>2. d \in fed <=> d \in ToSet(n.fanin[id])
    BY <2>1, <1>2 DEF Preds, ExtIns
  <2>3. At(r.driven, d) = Cardinality(Fed(n, O, d))
    <3>1. CASE d \in D BY <1>1, <3>1 DEF At
    <3>2. CASE d \notin D
      <4>1. Fed(n, O, d) = {}
        BY <3>2, <2>1, <1>2 DEF Fed, Drivers, Preds, ExtIns
      <4>2. At(r.driven, d) = 0
        BY <3>2, <1>1 DEF At
      <4> QED BY <4>1, <4>2, FS_EmptySet
    <3> QED BY <3>1, <3>2
  <2>4. CASE d \in fed
    <3>1. Fed(n, M, d) = Fed(n, O, d) \cup {id} /\ id \notin Fed(n, O, d)
      BY <2>2, <2>4 DEF Fed
    <3>2. Cardinality(Fed(n, M, d)) = Cardinality(Fed(n, O, d)) + 1
      BY <3>1, <1>3, FS_AddElement
    <3> QED BY <3>2, <2>3, <2>4 DEF Count
  <2>5. CASE d \notin fed
    <3>1. Fed(n, M, d) = Fed(n, O, d)
      BY <2>2, <2>5 DEF Fed
    <3>2. Cardinality(Fed(n, O, d)) \in Nat
      BY <1>3, FS_CardinalityType
    <3> QED BY <3>1, <3>2, <2>3, <2>5 DEF Count
  <2> QED BY <2>4, <2>5
<1>7. \A m \in O : r.ext[m] - Count(m \in mine) = Cardinality(Succs(n, m) \ M)
  <2> SUFFICES ASSUME NEW m \in O
               PROVE  r.ext[m] - Count(m \in mine) = Cardinality(Succs(n, m) \ M)
    OBVIOUS
  <2>1. m \in mine <=> id \in Succs(n, m) \ O
    BY <1>2 DEF Succs, Preds
  <2>2. Succs(n, m) \ M = (Succs(n, m) \ O) \ {id}
    OBVIOUS
  <2>3. IsFiniteSet(Succs(n, m) \ O)
    BY <1>2, <1>3, FS_Difference
  <2>4. Cardinality(Succs(n, m) \ M)
          = IF id \in Succs(n, m) \ O THEN Cardinality(Succs(n, m) \ O) - 1
                                      ELSE Cardinality(Succs(n, m) \ O)
    BY <2>2, <2>3, FS_RemoveElement
  <2>5. r.ext[m] = Cardinality(Succs(n, m) \ O) /\ r.ext[m] \in Nat
    BY <1>1, <2>3, FS_CardinalityType
  <2> QED BY <2>1, <2>4, <2>5 DEF Count
<1>8. r.in - Cardinality(DOMAIN r.driven \ known) + Cardinality(fed \ known)
        = Cardinality(Drivers(n, M))
  <2>1. DOMAIN r.driven = D
    BY <1>1
  <2>2. Drivers(n, M) = (D \ (D \ known)) \cup (fed \ known)
    BY <1>4, <1>5
  <2>3. IsFiniteSet(fed \ known)
    <3>1. fed \ known \in SUBSET Drivers(n, M)
      BY <1>5
    <3> QED BY <3>1, <1>3, FS_Subset
  <2>4. (fed \ known) \cap (D \ (D \ known)) = {}
    OBVIOUS
  <2>5. Cardinality((D \ (D \ known)) \cup (fed \ known))
          = Cardinality(D) - Cardinality(D \ known) + Cardinality(fed \ known)
    <3>1. D \ known \in SUBSET D
      OBVIOUS
    <3> HIDE DEF D, known, fed
    <3> QED BY <1>3, <2>3, <2>4, <3>1, Exchanged
  <2> QED BY <1>1, <2>1, <2>2, <2>5
<1>9. inner \in SUBSET Outs(n, O) /\ inner = {m \in O : m \in Outs(n, O) /\ m \notin Outs(n, M)}
  <2>1. ASSUME NEW m \in O PROVE m \in inner <=> m \in Outs(n, O) /\ m \notin Outs(n, M)
    <3>1. m \in mine <=> id \in Succs(n, m)
      BY <1>2 DEF Succs, Preds
    <3>2. IsFiniteSet(Succs(n, m) \ O)
      BY <1>2, <1>3, FS_Difference
    <3>3. r.ext[m] = Cardinality(Succs(n, m) \ O)
      BY <1>1
    <3>4. r.ext[m] = 1 <=> \E x : Succs(n, m) \ O = {x}
      BY <3>2, <3>3, FS_Singleton
    <3>5. ASSUME m \in mine PROVE r.ext[m] = 1 <=> Succs(n, m) \ M = {}
      <4>1. Succs(n, m) \ M = (Succs(n, m) \ O) \ {id}
        OBVIOUS
      <4>2. id \in Succs(n, m) \ O
        BY <3>1, <3>5
      <4> HIDE DEF O, M, mine
      <4>3. ASSUME NEW x, Succs(n, m) \ O = {x} PROVE Succs(n, m) \ M = {}
        BY <4>1, <4>2, <4>3
      <4>4. ASSUME Succs(n, m) \ M = {} PROVE Succs(n, m) \ O = {id}
        BY <4>1, <4>2, <4>4
      <4> QED BY <3>4, <4>3, <4>4
    <3>6. m \notin mine => Succs(n, m) \ M = Succs(n, m) \ O
      BY <3>1
    <3> QED BY <3>1, <3>5, <3>6 DEF Outs
  <2> QED BY <2>1
<1>10. r.out - Cardinality(inner) + Count(id \in n.co \/ cnt > 0) = Cardinality(Outs(n, M))
  <2> DEFINE own == {x \in {id} : id \in n.co \/ Succs(n, id) \ M # {}}
  <2>1. Outs(n, M) = (Outs(n, O) \ inner) \cup own
    <3>1. \A m \in O : m \in Outs(n, M) => m \in Outs(n, O)
      BY DEF Outs
    <3>2. \A m : m \in Outs(n, M) => m \in M
      BY DEF Outs
    <3>3. id \in Outs(n, M) <=> id \in own
      BY DEF Outs
    <3>4. Outs(n, O) \subseteq O
      BY DEF Outs
    <3> QED BY <1>9, <3>1, <3>2, <3>3, <3>4
  <2>2. own \cap (Outs(n, O) \ inner) = {}
    BY DEF Outs
  <2>3. IsFiniteSet(Succs(n, id) \ M)
    BY <1>3, FS_Difference
  <2>4. cnt \in Nat /\ (cnt = 0 <=> Succs(n, id) \ M = {})
    BY <2>3, FS_CardinalityType, FS_EmptySet
  <2>5. IsFiniteSet(own) /\ Cardinality(own) = Count(id \in n.co \/ cnt > 0)
    <3>1. CASE id \in n.co \/ cnt > 0
      <4>1. own = {id}
        BY <3>1, <2>4
      <4> QED BY <4>1, <3>1, FS_Singleton DEF Count
    <3>2. CASE ~(id \in n.co \/ cnt > 0)
      <4>1. own = {}
        BY <3>2, <2>4
      <4> QED BY <4>1, <3>2, FS_EmptySet DEF Count
    <3> QED BY <3>1, <3>2
  <2>6. Cardinality((Outs(n, O) \ inner) \cup own)
          = Cardinality(Outs(n, O)) - Cardinality(inner) + Cardinality(own)
    <3> HIDE DEF inner, own
    <3>1. inner \in SUBSET Outs(n, O) /\ IsFiniteSet(Outs(n, O)) /\ IsFiniteSet(own)
      BY <1>3, <1>9, <2>5
    <3> HIDE DEF O
    <3> QED BY <2>2, <3>1, Exchanged
  <2> QED BY <1>1, <2>1, <2>5, <2>6
<1>11. Add(n, r, id) =
         [ members |-> M,
           driven  |-> [d \in known \cup fed |-> At(r.driven, d) + Count(d \in fed)],
           ext     |-> [m \in M |-> IF m = id THEN cnt ELSE r.ext[m] - Count(m \in mine)],
           in      |-> r.in - Cardinality(DOMAIN r.driven \ known) + Cardinality(fed \ known),
           out     |-> r.out - Cardinality(inner) + Count(id \in n.co \/ cnt > 0) ]
  BY DEF Add, StillDriving
<1>12. [d \in known \cup fed |-> At(r.driven, d) + Count(d \in fed)]
         = [d \in Drivers(n, M) |-> Cardinality(Fed(n, M, d))]
  BY <1>5, <1>6
<1>13. [m \in M |-> IF m = id THEN cnt ELSE r.ext[m] - Count(m \in mine)]
         = [m \in M |-> Cardinality(Succs(n, m) \ M)]
  BY <1>7
<1> HIDE DEF O, M, D, fed, known, mine, cnt, inner
<1> DEFINE a == Add(n, r, id)
<1>14. /\ a.members = M
       /\ a.driven = [d \in Drivers(n, M) |-> Cardinality(Fed(n, M, d))]
       /\ a.ext = [m \in M |-> Cardinality(Succs(n, m) \ M)]
       /\ a.in = Cardinality(Drivers(n, M))
       /\ a.out = Cardinality(Outs(n, M))
  BY <1>8, <1>10, <1>11, <1>12, <1>13
<1> HIDE DEF a
<1>15. Exact(n, a)
  BY <1>14 DEF Exact
<1> QED BY <1>14, <1>15 DEF a, M, O

LEMMA EmptyExact == ASSUME NEW n PROVE Exact(n, EmptyRegion)
<1>1. EmptyRegion.members = {} /\ Drivers(n, {}) = {} /\ Outs(n, {}) = {}
  BY DEF EmptyRegion, Drivers, Outs
<1>2. /\ EmptyRegion.driven = [d \in {} |-> Cardinality(Fed(n, {}, d))]
      /\ EmptyRegion.ext = [m \in {} |-> Cardinality(Succs(n, m) \ {})]
  BY DEF EmptyRegion, Nothing
<1>3. EmptyRegion.in = 0 /\ EmptyRegion.out = 0
  BY DEF EmptyRegion
<1> QED BY <1>1, <1>2, <1>3, FS_EmptySet DEF Exact

----------------------------------------------------------------------------
(* Ranking.  processed is closed under predecessors, the queue holds what   *)
(* could be processed next, and the ranks rise out of what is processed.    *)
Kahn ==
  /\ rank \in [net.node -> Nat]
  /\ processed \subseteq net.node
  /\ indeg = [s \in net.node |-> Cardinality(Preds(net, s) \ processed)]
  /\ queue = {v \in net.node \ processed : Preds(net, v) \subseteq processed}
  /\ \A v \in processed : Preds(net, v) \subseteq processed
  /\ \A v \in processed : \A s \in Succs(net, v) : rank[v] < rank[s]
  /\ pc \notin {"rank", "loop"} => processed = net.node
  /\ pc = "loop" => queue = {} /\ processed # net.node

KnownNet == net \in Networks

LEMMA NetIsNet == ASSUME KnownNet PROVE IsNet(net)
BY NetworkAssumption DEF KnownNet, NetworkAssumption

LEMMA KahnInit == ASSUME Init PROVE Kahn
<1>1. \A v \in net.node : Preds(net, v) \ {} = Preds(net, v)
  OBVIOUS
<1>2. indeg = [s \in net.node |-> Cardinality(Preds(net, s) \ processed)]
  BY <1>1 DEF Init
<1> QED BY <1>2 DEF Init, Kahn, Sources

LEMMA KahnRank ==
  ASSUME KnownNet, Kahn, NEW v \in queue, Rank(v)
  PROVE  Kahn'
<1> USE DEF Kahn, Rank
<1>1. /\ v \in net.node /\ v \notin processed /\ Preds(net, v) \subseteq processed
      /\ net' = net /\ pc = "rank" /\ pc' = "rank"
  OBVIOUS
<1>2. \A s \in net.node : s \in Succs(net, v) <=> v \in Preds(net, s)
  BY <1>1 DEF Succs
<1>3. v \notin Succs(net, v) /\ Succs(net, v) \cap processed = {}
  BY <1>1, <1>2
<1>4. ASSUME NEW s \in net.node
      PROVE  /\ IsFiniteSet(Preds(net, s) \ processed)
             /\ Preds(net, s) \ processed' = (Preds(net, s) \ processed) \ {v}
             /\ indeg[s] \in Nat
  <2>1. IsFiniteSet(Preds(net, s))
    BY <1>1, NetIsNet, NetFinite
  <2>2. IsFiniteSet(Preds(net, s) \ processed)
    BY <2>1, FS_Difference
  <2> QED BY <2>2, FS_CardinalityType
<1>5. indeg' = [s \in net.node |-> Cardinality(Preds(net, s) \ processed')]
  <2>1. ASSUME NEW s \in net.node
        PROVE  indeg[s] - Count(s \in Succs(net, v)) = Cardinality(Preds(net, s) \ processed')
    <3>1. Cardinality((Preds(net, s) \ processed) \ {v})
            = IF v \in Preds(net, s) \ processed THEN Cardinality(Preds(net, s) \ processed) - 1
                                                 ELSE Cardinality(Preds(net, s) \ processed)
      BY <1>4, FS_RemoveElement
    <3>2. s \in Succs(net, v) <=> v \in Preds(net, s) \ processed
      BY <1>1, <1>2
    <3>3. indeg[s] = Cardinality(Preds(net, s) \ processed)
      OBVIOUS
    <3>4. indeg[s] \in Nat /\ Preds(net, s) \ processed' = (Preds(net, s) \ processed) \ {v}
      BY <1>4
    <3> HIDE DEF Kahn, Rank
    <3>5. Cardinality(Preds(net, s) \ processed')
            = IF s \in Succs(net, v) THEN indeg[s] - 1 ELSE indeg[s]
      BY <3>1, <3>2, <3>3, <3>4
    <3>6. CASE s \in Succs(net, v) BY <3>5, <3>6 DEF Count
    <3>7. CASE s \notin Succs(net, v) BY <3>4, <3>5, <3>7 DEF Count
    <3> QED BY <3>6, <3>7
  <2> QED BY <2>1
<1>6. queue' = {x \in net.node \ processed' : Preds(net, x) \subseteq processed'}
  <2>1. ASSUME NEW s \in Succs(net, v)
        PROVE  indeg[s] = 1 <=> Preds(net, s) \subseteq processed'
    <3>1. s \in net.node /\ v \in Preds(net, s) \ processed
      BY <1>1 DEF Succs
    <3>2. Cardinality(Preds(net, s) \ processed) = 1 <=> \E x : Preds(net, s) \ processed = {x}
      BY <3>1, <1>4, FS_Singleton
    <3>3. (\E x : Preds(net, s) \ processed = {x}) <=> Preds(net, s) \subseteq processed'
      BY <3>1
    <3> QED BY <3>1, <3>2, <3>3
  <2>2. Succs(net, v) \subseteq net.node
    BY DEF Succs
  <2>3. ASSUME NEW x \in net.node, x \notin Succs(net, v)
        PROVE  Preds(net, x) \subseteq processed' <=> Preds(net, x) \subseteq processed
    BY <1>2, <2>3
  <2>4. queue' = (queue \ {v}) \cup {s \in Succs(net, v) : indeg[s] = 1}
    BY DEF Ready
  <2>5. ASSUME NEW x \in Succs(net, v)
        PROVE  x \in queue' <=> x \in net.node \ processed' /\ Preds(net, x) \subseteq processed'
    <3>1. x \notin processed' /\ x \in net.node /\ x \notin queue
      BY <1>1, <1>2, <1>3, <2>2
    <3> QED BY <2>1, <2>4, <3>1
  <2>6. ASSUME NEW x, x \notin Succs(net, v)
        PROVE  x \in queue' <=> x \in net.node \ processed' /\ Preds(net, x) \subseteq processed'
    BY <2>3, <2>4, <2>6
  <2> QED BY <2>5, <2>6
<1>7. rank' \in [net.node -> Nat] /\ \A s \in net.node : rank[s] <= rank'[s]
  BY <1>1 DEF Raised
<1>8. \A u \in processed' : rank'[u] = rank[u]
  BY <1>1, <1>3
<1>9. ASSUME NEW u \in processed', NEW s \in Succs(net, u) PROVE rank'[u] < rank'[s]
  <2>1. s \in net.node /\ u \in net.node
    BY DEF Succs
  <2>2. rank[s] \in Nat /\ rank[u] \in Nat /\ rank'[s] \in Nat /\ rank[s] <= rank'[s]
    BY <2>1, <1>7
  <2>3. CASE u = v
    <3>1. rank'[s] = Raised(v, s)
      BY <2>1, <2>3
    <3> QED BY <3>1, <2>2, <2>3, <1>8 DEF Raised
  <2>4. CASE u \in processed
    BY <2>2, <2>4, <1>8
  <2> QED BY <2>3, <2>4
<1>10. \A u \in processed' : Preds(net, u) \subseteq processed'
  BY <1>1
<1>11. processed' \subseteq net.node
  BY <1>1
<1> HIDE DEF Kahn, Rank
<1>12. \A u \in processed' : \A s \in Succs(net, u) : rank'[u] < rank'[s]
  BY <1>9
<1> QED BY <1>1, <1>5, <1>6, <1>7, <1>10, <1>11, <1>12 DEF Kahn

(* No other action changes the graph. *)
LEMMA KahnStep ==
  ASSUME KnownNet, Kahn, [Next]_vars
  PROVE  Kahn'
<1>1. CASE \E v \in queue : Rank(v)
  BY <1>1, KahnRank
<1>2. CASE Ranked
  BY <1>2 DEF Ranked, Kahn, graphVars
<1>3. CASE /\ UNCHANGED <<net, graphVars>>
           /\ pc' \in {"rank", "loop"} => pc' = pc
           /\ pc \in {"rank", "loop"} => pc' = pc
  BY <1>3 DEF Kahn, graphVars
<1>4. CASE \E v \in seeds : NextSeed(v)
  BY <1>4, <1>3 DEF NextSeed
<1>5. CASE \E v \in pending : InitAdd(v) \/ AddViolator(v)
  BY <1>5, <1>3 DEF InitAdd, AddViolator
<1>6. CASE SkipSeed \/ StartGrowth
  BY <1>6, <1>3 DEF SkipSeed, StartGrowth
<1>7. CASE List \/ (\E m \in outs : ListExits(m)) \/ StartStep
  BY <1>7, <1>3 DEF List, ListExits, StartStep
<1>8. CASE \E c \in top : RejectCandidate(c) \/ TryCandidate(c)
  BY <1>8, <1>3 DEF RejectCandidate, TryCandidate
<1>9. CASE JudgeTrial \/ StopGrowing \/ Report \/ AllGrown
  BY <1>9, <1>3 DEF JudgeTrial, StopGrowing, Report, AllGrown
<1>10. CASE Grow
  BY <1>10, <1>3 DEF Grow
<1>11. CASE \E c \in cands : Select(c)
  BY <1>11, <1>3 DEF Select
<1>12. CASE Done \/ UNCHANGED vars
  BY <1>12, <1>3 DEF Done, vars
<1> QED BY <1>1, <1>2, <1>4, <1>5, <1>6, <1>7, <1>8, <1>9, <1>10, <1>11, <1>12 DEF Next

LEMMA NetStep == ASSUME KnownNet, [Next]_vars PROVE KnownNet'
<1>1. net' = net
  BY DEF Next, vars, Rank, Ranked, NextSeed, InitAdd, AddViolator, SkipSeed, StartGrowth, List,
         ListExits, StartStep, RejectCandidate, TryCandidate, JudgeTrial, Grow, StopGrowing,
         Report, AllGrown, Select, Done
<1> QED BY <1>1 DEF KnownNet

LEMMA KahnRises == ASSUME Kahn, pc \notin {"rank", "loop"} PROVE RankRises(net, rank)
BY DEF Kahn, RankRises, Succs, Preds

(* What is refused, and no more, is a network with a loop, and the ranks of *)
(* one that is taken rise along every edge (CombGraph's constructor).       *)
THEOREM RanksRightHolds == Spec => []RanksRight
<1>1. Init => Kahn /\ KnownNet
  BY KahnInit DEF Init, KnownNet
<1>2. Kahn /\ KnownNet /\ [Next]_vars => (Kahn /\ KnownNet)'
  BY KahnStep, NetStep
<1>3. Kahn => RanksRight
  <2> SUFFICES ASSUME Kahn PROVE RanksRight
    OBVIOUS
  <2>1. ASSUME pc = "loop" PROVE Looped
    <3> DEFINE D == net.node \ processed
    <3>1. D # {} /\ D \in SUBSET net.node
      BY <2>1 DEF Kahn
    <3>2. \A v \in D : Preds(net, v) \cap D # {}
      BY <2>1 DEF Kahn, Preds
    <3> QED BY <3>1, <3>2 DEF Looped
  <2>2. ASSUME pc \notin {"rank", "loop"}
        PROVE  \A v \in net.node : \A p \in Preds(net, v) : rank[p] < rank[v]
    BY <2>2, KahnRises DEF RankRises
  <2> QED BY <2>1, <2>2 DEF RanksRight
<1> QED BY <1>1, <1>2, <1>3, PTL DEF Spec

----------------------------------------------------------------------------
(* The growth.  What is about to be added is not in the region yet.         *)
Kept ==
  /\ region.members \subseteq net.node /\ best.members \subseteq net.node
  /\ trial.members \subseteq net.node /\ nextR.members \subseteq net.node
  /\ seeds \subseteq net.node /\ listed \subseteq net.node /\ top \subseteq listed
  /\ pending \subseteq net.node
  /\ pc \in {"init", "try"} => pending \cap trial.members = {}
  /\ pc \in {"list", "pick", "try"} => listed \cap region.members = {}
  /\ pc \notin {"pick", "try"} => top = {}

LEMMA SubsetFacts ==
  ASSUME NEW n, NEW S \in SUBSET n.node, NEW r
  PROVE  /\ Violators(n, r, S) \in SUBSET n.node /\ Violators(n, r, S) \cap S = {}
         /\ \A v : Mffc(n, v) \in SUBSET n.node
BY DEF Violators, Desc, Anc, Reached, Mffc

LEMMA AddMembers == \A n, r, id : Add(n, r, id).members = r.members \cup {id}
BY DEF Add

LEMMA EmptyMembers == EmptyRegion.members = {}
BY DEF EmptyRegion

(* The drivers of a region that counts exactly lie outside it. *)
LEMMA EntrancesOutside ==
  ASSUME NEW n, IsNet(n), NEW r, Exact(n, r)
  PROVE  EntranceCandidates(n, r) \subseteq n.node \ r.members
<1>1. DOMAIN r.driven = Drivers(n, r.members)
  BY DEF Exact
<1>2. Drivers(n, r.members) \cap n.node \cap r.members = {}
  BY DEF Drivers, ExtIns, IsNet
<1> QED BY <1>1, <1>2 DEF EntranceCandidates

LEMMA KeptStep ==
  ASSUME KnownNet, Kept, CountsExact, [Next]_vars
  PROVE  Kept'
<1> USE DEF Kept
<1>1. IsNet(net)
  BY NetIsNet
<1>2. CASE \/ (\E v \in queue : Rank(v)) \/ Ranked \/ SkipSeed \/ AllGrown
           \/ (\E c \in cands : Select(c)) \/ Done \/ UNCHANGED vars
  BY <1>2 DEF Rank, Ranked, SkipSeed, AllGrown, Select, Done, vars, growVars, listVars, trialVars, Seeds
<1>3. ASSUME NEW v \in seeds, NextSeed(v) PROVE Kept'
  BY <1>3, SubsetFacts, EmptyMembers DEF NextSeed, growVars, listVars
<1>4. ASSUME NEW v \in pending, InitAdd(v) \/ AddViolator(v) PROVE Kept'
  <2>1. trial'.members = trial.members \cup {v}
    BY <1>4, AddMembers DEF InitAdd, AddViolator
  <2> QED BY <1>4, <2>1 DEF InitAdd, AddViolator, growVars, listVars
<1>5. CASE StartGrowth
  BY <1>5 DEF StartGrowth, listVars, trialVars
<1>6. CASE List
  <2>1. EntranceCandidates(net, region) \subseteq net.node \ region.members
    BY <1>1, EntrancesOutside DEF CountsExact
  <2> QED BY <1>6, <2>1 DEF List, growVars, trialVars
<1>7. ASSUME NEW m \in outs, ListExits(m) PROVE Kept'
  <2>1. Sampled(NewSuccs(m)) \subseteq net.node \ region.members
    BY DEF Sampled, NewSuccs, Succs
  <2> QED BY <1>7, <2>1 DEF ListExits, growVars, trialVars
<1>8. CASE StartStep
  <2>1. top' \subseteq listed
    BY <1>8 DEF StartStep, TopSets
  <2> QED BY <1>8, <2>1, EmptyMembers DEF StartStep, growVars, listVars, trialVars
<1>9. ASSUME NEW c \in top, RejectCandidate(c) PROVE Kept'
  BY <1>9 DEF RejectCandidate, growVars, listVars, trialVars
<1>10. ASSUME NEW c \in top, TryCandidate(c) PROVE Kept'
  <2>1. trial'.members = region.members \cup {c}
    BY <1>10, AddMembers DEF TryCandidate
  <2>2. region.members \cup {c} \in SUBSET net.node
    OBVIOUS
  <2>3. pending' \subseteq net.node /\ pending' \cap (region.members \cup {c}) = {}
    BY <1>10, <2>2, SubsetFacts DEF TryCandidate
  <2> QED BY <1>10, <2>1, <2>2, <2>3 DEF TryCandidate, growVars, listVars
<1>11. CASE JudgeTrial
  BY <1>11 DEF JudgeTrial, growVars, listVars, trialVars
<1>12. CASE Grow
  BY <1>12 DEF Grow, listVars, trialVars
<1>13. CASE StopGrowing \/ Report
  BY <1>13 DEF StopGrowing, Report, growVars, listVars, trialVars
<1> QED BY <1>2, <1>3, <1>4, <1>5, <1>6, <1>7, <1>8, <1>9, <1>10, <1>11, <1>12, <1>13 DEF Next

LEMMA ExactStep ==
  ASSUME KnownNet, Kept, CountsExact, [Next]_vars
  PROVE  CountsExact'
<1>1. /\ IsNet(net) /\ net' = net
      /\ Exact(net, region) /\ Exact(net, best) /\ Exact(net, trial) /\ Exact(net, nextR)
      /\ Exact(net, EmptyRegion)
  <2>1. net' = net
    BY DEF Next, vars, Rank, Ranked, NextSeed, InitAdd, AddViolator, SkipSeed, StartGrowth, List,
           ListExits, StartStep, RejectCandidate, TryCandidate, JudgeTrial, Grow, StopGrowing,
           Report, AllGrown, Select, Done
  <2> QED BY <2>1, NetIsNet, EmptyExact DEF CountsExact
<1>2. CASE UNCHANGED <<region, best, trial, nextR>>
  BY <1>1, <1>2 DEF CountsExact
<1>3. CASE \/ (\E v \in queue : Rank(v)) \/ Ranked \/ SkipSeed \/ AllGrown \/ List
           \/ (\E m \in outs : ListExits(m)) \/ (\E c \in top : RejectCandidate(c))
           \/ StopGrowing \/ Report \/ (\E c \in cands : Select(c)) \/ Done \/ UNCHANGED vars
  BY <1>2, <1>3 DEF Rank, Ranked, SkipSeed, AllGrown, List, ListExits, RejectCandidate, StopGrowing,
     Report, Select, Done, vars, growVars, trialVars
<1>4. CASE (\E v \in seeds : NextSeed(v)) \/ StartGrowth \/ StartStep \/ JudgeTrial \/ Grow
  <2>1. /\ region' \in {region, best, trial, nextR, EmptyRegion}
        /\ best' \in {region, best, trial, nextR, EmptyRegion}
        /\ trial' \in {region, best, trial, nextR, EmptyRegion}
        /\ nextR' \in {region, best, trial, nextR, EmptyRegion}
    BY <1>4 DEF NextSeed, StartGrowth, StartStep, JudgeTrial, Grow, growVars, trialVars
  <2> QED BY <1>1, <2>1 DEF CountsExact
<1>5. ASSUME NEW v \in pending, InitAdd(v) \/ AddViolator(v) PROVE CountsExact'
  <2>1. v \in net.node \ trial.members /\ trial.members \in SUBSET net.node
    BY <1>5 DEF Kept, InitAdd, AddViolator
  <2>2. Exact(net, Add(net, trial, v))
    BY <1>1, <2>1, AddExact
  <2>3. trial' = Add(net, trial, v) /\ UNCHANGED <<region, best, nextR>>
    BY <1>5 DEF InitAdd, AddViolator, growVars
  <2> QED BY <1>1, <2>2, <2>3 DEF CountsExact
<1>6. ASSUME NEW c \in top, TryCandidate(c) PROVE CountsExact'
  <2>1. c \in net.node \ region.members /\ region.members \in SUBSET net.node
    BY <1>6 DEF Kept, TryCandidate
  <2>2. Exact(net, Add(net, region, c))
    BY <1>1, <2>1, AddExact
  <2>3. trial' = Add(net, region, c) /\ UNCHANGED <<region, best, nextR>>
    BY <1>6 DEF TryCandidate, growVars
  <2> QED BY <1>1, <2>2, <2>3 DEF CountsExact
<1> QED BY <1>3, <1>4, <1>5, <1>6 DEF Next

(* Convexity.  A trial need not be convex between two additions: what is    *)
(* still to be added completes it.                                          *)
Completed == pc \in {"init", "try"} => Convex(net, trial.members \cup pending)
Shapes ==
  /\ Convex(net, region.members) /\ Convex(net, best.members) /\ Convex(net, nextR.members)
  /\ Completed
  /\ \A c \in cands : Convex(net, c.members)
  /\ regions \in Seq(ToSet(regions)) /\ \A c \in ToSet(regions) : Convex(net, c.members)

LEMMA ShapesStep ==
  ASSUME Kahn, KnownNet, Kept, Shapes, [Next]_vars
  PROVE  Shapes'
<1>1. net' = net
  BY DEF Next, vars, Rank, Ranked, NextSeed, InitAdd, AddViolator, SkipSeed, StartGrowth, List,
         ListExits, StartStep, RejectCandidate, TryCandidate, JudgeTrial, Grow, StopGrowing,
         Report, AllGrown, Select, Done
<1>2. Convex(net, EmptyRegion.members)
  BY EmptyConvex, EmptyMembers
<1>3. ASSUME NEW v \in queue, Rank(v) PROVE Shapes'
  BY <1>3 DEF Rank, Shapes, Completed, growVars, trialVars, reportVars
<1>4. CASE \/ Ranked \/ SkipSeed \/ AllGrown \/ List \/ StartStep \/ StopGrowing \/ Done \/ UNCHANGED vars
           \/ (\E m \in outs : ListExits(m)) \/ (\E c \in top : RejectCandidate(c))
  BY <1>1, <1>2, <1>4 DEF Ranked, SkipSeed, AllGrown, List, StartStep, StopGrowing, Done, vars,
     ListExits, RejectCandidate, Shapes, Completed, growVars, trialVars, reportVars
<1>5. ASSUME NEW v \in seeds, NextSeed(v) PROVE Shapes'
  <2>1. RankRises(net, rank) /\ rank \in [net.node -> Nat] /\ v \in net.node
    BY <1>5, KahnRises DEF NextSeed, Kahn, Kept
  <2>2. Convex(net, Mffc(net, v))
    BY <2>1, MffcConvex
  <2>3. trial'.members \cup pending' = Mffc(net, v)
    BY <1>5, EmptyMembers DEF NextSeed
  <2>4. Completed'
    BY <1>1, <2>2, <2>3 DEF Completed
  <2> QED BY <1>1, <1>5, <2>4 DEF NextSeed, Shapes, growVars, reportVars
<1>6. ASSUME NEW v \in pending, InitAdd(v) \/ AddViolator(v) PROVE Shapes'
  <2>1. trial'.members \cup pending' = trial.members \cup pending
    BY <1>6, AddMembers DEF InitAdd, AddViolator
  <2>2. Completed'
    BY <1>1, <1>6, <2>1 DEF Completed, InitAdd, AddViolator, Shapes
  <2> QED BY <1>1, <1>6, <2>2 DEF InitAdd, AddViolator, Shapes, growVars, reportVars
<1>7. CASE StartGrowth
  <2>1. trial.members \cup pending = trial.members
    BY <1>7 DEF StartGrowth
  <2>2. Convex(net, trial.members)
    BY <1>7, <2>1 DEF StartGrowth, Shapes, Completed
  <2> QED BY <1>1, <1>7, <2>2 DEF StartGrowth, Shapes, Completed, reportVars
<1>8. ASSUME NEW c \in top, TryCandidate(c) PROVE Shapes'
  <2> DEFINE S == region.members \cup {c}
  <2>1. /\ RankRises(net, rank) /\ rank \in [net.node -> Nat] /\ S \in SUBSET net.node
    BY <1>8, KahnRises DEF TryCandidate, Kahn, Kept
  <2>2. Convex(net, S \cup Violators(net, rank, S))
    BY <2>1, ClosureConvex
  <2>3. trial'.members \cup pending' = S \cup Violators(net, rank, S)
    BY <1>8, AddMembers DEF TryCandidate
  <2>4. Completed'
    BY <1>1, <2>2, <2>3 DEF Completed
  <2> QED BY <1>1, <1>8, <2>4 DEF TryCandidate, Shapes, growVars, reportVars
<1>9. CASE JudgeTrial
  <2>1. trial.members \cup pending = trial.members
    BY <1>9 DEF JudgeTrial
  <2>2. Convex(net, trial.members)
    BY <1>9, <2>1 DEF JudgeTrial, Shapes, Completed
  <2>3. nextR' = trial \/ nextR' = nextR
    BY <1>9 DEF JudgeTrial
  <2> QED BY <1>1, <1>9, <2>2, <2>3 DEF JudgeTrial, Shapes, Completed, growVars, reportVars
<1>10. CASE Grow
  <2>1. best' = nextR \/ best' = best
    BY <1>10 DEF Grow
  <2>2. pc' \in {"report", "grow"}
    BY <1>10 DEF Grow
  <2> QED BY <1>1, <1>10, <2>1, <2>2 DEF Grow, Shapes, Completed, reportVars
<1>11. CASE Report
  <2>1. \A c \in cands' : c \in cands \/ c.members = best.members
    BY <1>11 DEF Report
  <2> QED BY <1>1, <1>11, <2>1 DEF Report, Shapes, Completed, growVars, trialVars
<1>12. ASSUME NEW c \in cands, Select(c) PROVE Shapes'
  <2>1. regions' = regions \/ regions' = Append(regions, c)
    BY <1>12 DEF Select
  <2>2. regions \in Seq(ToSet(regions) \cup {c})
    BY DEF Shapes
  <2>3. ASSUME regions' = Append(regions, c)
        PROVE  /\ regions' \in Seq(ToSet(regions'))
               /\ ToSet(regions') \subseteq ToSet(regions) \cup {c}
    BY <2>2, <2>3 DEF ToSet
  <2>4. regions' \in Seq(ToSet(regions')) /\ \A d \in ToSet(regions') : Convex(net, d.members)
    BY <2>1, <2>3 DEF Shapes, ToSet
  <2>5. cands' \subseteq cands /\ UNCHANGED <<pc, trial, pending, region, best, nextR>>
    BY <1>12 DEF Select, growVars, trialVars
  <2> QED BY <1>1, <2>4, <2>5 DEF Shapes, Completed
<1> QED BY <1>3, <1>4, <1>5, <1>6, <1>7, <1>8, <1>9, <1>10, <1>11, <1>12 DEF Next

----------------------------------------------------------------------------
LEMMA GrowthInit == ASSUME Init PROVE Kept /\ CountsExact /\ Shapes
<1>1. Kept
  BY EmptyMembers DEF Init, Kept
<1>2. CountsExact
  BY EmptyExact DEF Init, CountsExact
<1>3. regions \in Seq(ToSet(regions)) /\ ToSet(regions) = {}
  BY DEF Init, ToSet
<1>4. Shapes
  BY <1>3, EmptyMembers, EmptyConvex DEF Init, Shapes, Completed
<1> QED BY <1>1, <1>2, <1>4

(* Region's counts are those of a scan of its members, at every moment and  *)
(* in every network (Region::add, Region::recompute).                       *)
THEOREM CountsExactHolds == Spec => []CountsExact
<1>1. Init => KnownNet /\ Kept /\ CountsExact
  BY GrowthInit DEF Init, KnownNet
<1>2. KnownNet /\ Kept /\ CountsExact /\ [Next]_vars => (KnownNet /\ Kept /\ CountsExact)'
  BY NetStep, KeptStep, ExactStep
<1> QED BY <1>1, <1>2, PTL DEF Spec

(* Every region that is grown or reported is convex: the closure in the     *)
(* band of ranks misses no detour, and one closure per addition is enough   *)
(* (ComputeClosure, Abc_NodeMffcLabel).                                     *)
THEOREM RegionsConvexHolds == Spec => []RegionsConvex
<1> DEFINE I == KnownNet /\ Kahn /\ Kept /\ CountsExact /\ Shapes
<1>1. Init => I
  BY GrowthInit, KahnInit DEF Init, KnownNet
<1>2. I /\ [Next]_vars => I'
  BY NetStep, KahnStep, KeptStep, ExactStep, ShapesStep
<1>3. I => RegionsConvex
  BY DEF Shapes, Completed, RegionsConvex
<1> QED BY <1>1, <1>2, <1>3, PTL DEF Spec

----------------------------------------------------------------------------
(* The reports.  First, the lower bound on the LUTs of a region is at most  *)
(* its number of nodes: every node of the region that is no output of it    *)
(* takes one of the fanins that its nodes have, so the others, which its    *)
(* drivers take, are few.                                                   *)
LEMMA UnionSmall ==
  ASSUME NEW C, IsFiniteSet(C), NEW k \in Nat, NEW f,
         \A x \in C : IsFiniteSet(f[x]) /\ Cardinality(f[x]) <= k
  PROVE  /\ IsFiniteSet(UNION {f[x] : x \in C})
         /\ Cardinality(UNION {f[x] : x \in C}) <= k * Cardinality(C)
<1> DEFINE U(T) == UNION {f[x] : x \in T}
           I == {T \in SUBSET C : IsFiniteSet(U(T)) /\ Cardinality(U(T)) <= k * Cardinality(T)}
<1>1. ASSUME NEW T \in SUBSET C, \A x \in T : T \ {x} \in I PROVE T \in I
  <2>1. IsFiniteSet(T) /\ Cardinality(T) \in Nat
    BY FS_Subset, FS_CardinalityType
  <2>2. CASE T = {}
    <3>1. U(T) = {}
      BY <2>2
    <3>2. IsFiniteSet(U(T)) /\ Cardinality(U(T)) = 0 /\ Cardinality(T) = 0
      BY <2>2, <3>1, FS_EmptySet
    <3> HIDE DEF U
    <3> QED BY <3>2
  <2>3. CASE T # {}
    <3>1. PICK x \in T : TRUE
      BY <2>3
    <3> DEFINE R == T \ {x}
    <3>2. U(T) = U(R) \cup f[x]
      OBVIOUS
    <3>3. R \in I
      BY <1>1
    <3> HIDE DEF U
    <3>4. Cardinality(R) = Cardinality(T) - 1
      BY <2>1, FS_RemoveElement
    <3> HIDE DEF R
    <3>5. IsFiniteSet(U(R)) /\ Cardinality(U(R)) <= k * Cardinality(R)
      BY <3>3
    <3>6. IsFiniteSet(f[x]) /\ Cardinality(f[x]) <= k
      BY <3>1
    <3>7. /\ IsFiniteSet(U(R) \cup f[x])
          /\ Cardinality(U(R) \cup f[x])
               = Cardinality(U(R)) + Cardinality(f[x]) - Cardinality(U(R) \cap f[x])
      BY <3>5, <3>6, FS_Union
    <3>8. IsFiniteSet(U(R) \cap f[x])
      BY <3>5, FS_Subset
    <3>9. /\ Cardinality(U(R)) \in Nat /\ Cardinality(f[x]) \in Nat
          /\ Cardinality(U(R) \cap f[x]) \in Nat
      BY <3>5, <3>6, <3>8, FS_CardinalityType
    <3>10. k * Cardinality(R) + k = k * Cardinality(T)
      <4>1. \A t \in Nat : k * (t - 1) + k = k * t
        OBVIOUS
      <4> QED BY <2>1, <3>4, <4>1
    <3>11. Cardinality(R) \in Int /\ k * Cardinality(R) \in Int /\ k * Cardinality(T) \in Int
      <4>1. \A a \in Int : k * a \in Int
        OBVIOUS
      <4> QED BY <2>1, <3>4, <4>1
    <3>12. \A a, b, c \in Nat : \A p, q \in Int :
             a <= p /\ b <= k /\ p + k = q => a + b - c <= q
      OBVIOUS
    <3>13. Cardinality(U(T)) <= k * Cardinality(T)
      BY <3>2, <3>5, <3>6, <3>7, <3>9, <3>10, <3>11, <3>12
    <3> QED BY <3>2, <3>7, <3>13
  <2> QED BY <2>2, <2>3
<1> HIDE DEF I
<1>2. \A T \in SUBSET C : T \in I
  BY <1>1, AllSubsets
<1>3. C \in I
  BY <1>2
<1> QED BY <1>3 DEF I

LEMMA SeqSetSmall ==
  ASSUME NEW X, NEW s \in Seq(X)
  PROVE  IsFiniteSet(ToSet(s)) /\ Cardinality(ToSet(s)) <= Len(s)
<1> DEFINE D == 1 .. Len(s)
<1>1. Len(s) \in Nat /\ ToSet(s) = {s[i] : i \in D}
  BY DEF ToSet
<1>2. [i \in D |-> s[i]] \in Surjection(D, ToSet(s))
  BY <1>1 DEF Surjection
<1>3. IsFiniteSet(D) /\ Cardinality(D) = Len(s)
  <2>1. IsFiniteSet(D) /\ Cardinality(D) = IF 1 > Len(s) THEN 0 ELSE Len(s) - 1 + 1
    BY <1>1, FS_Interval
  <2>2. ASSUME NEW l \in Nat PROVE (IF 1 > l THEN 0 ELSE l - 1 + 1) = l
    OBVIOUS
  <2> QED BY <1>1, <2>1, <2>2
<1> HIDE DEF D
<1>4. IsFiniteSet(ToSet(s)) /\ Cardinality(ToSet(s)) <= Cardinality(D)
  BY <1>2, <1>3, FS_Surjection
<1> QED BY <1>3, <1>4

(* Disjoint sets of vertices that fill fanins of the nodes C *)
LEMMA SlotsShared ==
  ASSUME NEW n, IsNet(n), NEW C \in SUBSET n.node, NEW k \in Nat,
         \A v \in C : Len(n.fanin[v]) <= k,
         NEW A, NEW B, A \cap B = {},
         \A x \in A \cup B : \E v \in C : x \in ToSet(n.fanin[v])
  PROVE  /\ IsFiniteSet(A) /\ IsFiniteSet(B) /\ IsFiniteSet(C)
         /\ Cardinality(A) + Cardinality(B) <= k * Cardinality(C)
<1> DEFINE f == [v \in C |-> ToSet(n.fanin[v])]
           All == UNION {f[v] : v \in C}
<1>1. IsFiniteSet(C)
  BY FS_Subset DEF IsNet
<1>2. ASSUME NEW v \in C PROVE IsFiniteSet(f[v]) /\ Cardinality(f[v]) <= k
  <2>1. n.fanin[v] \in Seq(n.node \cup n.ci)
    BY DEF IsNet
  <2>2. IsFiniteSet(ToSet(n.fanin[v])) /\ Cardinality(ToSet(n.fanin[v])) <= Len(n.fanin[v])
    BY <2>1, SeqSetSmall
  <2>3. Len(n.fanin[v]) \in Nat /\ Cardinality(ToSet(n.fanin[v])) \in Nat
    BY <2>1, <2>2, FS_CardinalityType
  <2>4. Cardinality(ToSet(n.fanin[v])) <= k
    BY <2>2, <2>3
  <2> QED BY <2>2, <2>4
<1>3. A \cup B \subseteq All
  OBVIOUS
<1> HIDE DEF f
<1>4. IsFiniteSet(All) /\ Cardinality(All) <= k * Cardinality(C)
  BY <1>1, <1>2, UnionSmall
<1> HIDE DEF All
<1>5. IsFiniteSet(A \cup B) /\ Cardinality(A \cup B) <= Cardinality(All)
  BY <1>3, <1>4, FS_Subset
<1>6. IsFiniteSet(A) /\ IsFiniteSet(B)
  BY <1>5, FS_Subset
<1>7. Cardinality(A \cup B) = Cardinality(A) + Cardinality(B)
  <2>1. Cardinality(A \cup B) = Cardinality(A) + Cardinality(B) - Cardinality(A \cap B)
    BY <1>6, FS_Union
  <2>2. Cardinality(A \cap B) = 0
    BY FS_EmptySet
  <2>3. Cardinality(A) \in Nat /\ Cardinality(B) \in Nat
    BY <1>6, FS_CardinalityType
  <2> QED BY <2>1, <2>2, <2>3
<1>8. Cardinality(All) \in Nat /\ Cardinality(A \cup B) \in Nat /\ k * Cardinality(C) \in Int
  <2>1. Cardinality(C) \in Nat
    BY <1>1, FS_CardinalityType
  <2> QED BY <1>4, <1>5, <2>1, FS_CardinalityType
<1>9. Cardinality(A \cup B) <= k * Cardinality(C)
  BY <1>4, <1>5, <1>8
<1> QED BY <1>1, <1>6, <1>7, <1>9

LEMMA CeilDivSmall ==
  ASSUME NEW x \in Int, NEW k \in Nat \ {0}, NEW m \in Nat, x <= k * m
  PROVE  CeilDiv(x, k) \in Int /\ CeilDiv(x, k) <= m
<1>1. CASE x > 0
  <2> DEFINE a == x + k - 1
             q == a \div k
  <2>1. a \in Int /\ q \in Int
    OBVIOUS
  <2>2. k * q <= a
    OBVIOUS
  <2> HIDE DEF q
  <2>3. k * q < k * (m + 1)
    BY <2>1, <2>2
  <2>4. q <= m
    BY <2>1, <2>3
  <2>5. CeilDiv(x, k) = q
    BY <1>1 DEF CeilDiv, q
  <2> QED BY <2>1, <2>4, <2>5
<1>2. CASE ~(x > 0)
  BY <1>2 DEF CeilDiv
<1> QED BY <1>1, <1>2

(* Every node of the region that is no output feeds another one of it. *)
LEMMA InputsFew ==
  ASSUME NEW n, IsNet(n), NEW M \in SUBSET n.node, NEW k \in Nat \ {0},
         \A v \in n.node : Succs(n, v) # {} \/ v \in n.co,
         \A v \in n.node : Len(n.fanin[v]) <= k
  PROVE  /\ Cardinality(Outs(n, M)) <= Cardinality(M)
         /\ Cardinality(Drivers(n, M)) - Cardinality(Outs(n, M)) <= (k - 1) * Cardinality(M)
         /\ Cardinality(Outs(n, M)) \in Nat /\ Cardinality(Drivers(n, M)) \in Nat
         /\ Cardinality(M) \in Nat
<1> DEFINE A == Drivers(n, M)
           B == M \ Outs(n, M)
           reads == UNION {ToSet(n.fanin[v]) : v \in M}
<1>1. IsFiniteSet(M) /\ Outs(n, M) \subseteq M
  BY NetFinite DEF Outs
<1>2. \A v \in n.node : ToSet(n.fanin[v]) \subseteq n.node \cup n.ci
  BY DEF IsNet, ToSet
<1>3. A \cap B = {}
  BY DEF Drivers, ExtIns, IsNet
<1>4. A \subseteq reads
  BY DEF Drivers, ExtIns, Preds
<1>5. B \subseteq reads
  <2>1. ASSUME NEW b \in B PROVE \E v \in M : b \in ToSet(n.fanin[v])
    <3>1. Succs(n, b) # {} /\ Succs(n, b) \subseteq M
      BY DEF Outs
    <3>2. PICK v \in Succs(n, b) : v \in M
      BY <3>1
    <3> QED BY <3>2 DEF Succs, Preds
  <2> QED BY <2>1
<1> HIDE DEF A, B
<1>6. IsFiniteSet(A) /\ IsFiniteSet(B) /\ Cardinality(A) + Cardinality(B) <= k * Cardinality(M)
  <2>1. \A x \in A \cup B : \E v \in M : x \in ToSet(n.fanin[v])
    BY <1>4, <1>5
  <2>2. k \in Nat /\ \A v \in M : Len(n.fanin[v]) <= k
    OBVIOUS
  <2> HIDE DEF reads
  <2> QED BY <1>3, <2>1, <2>2, SlotsShared
<1>7. Cardinality(B) = Cardinality(M) - Cardinality(Outs(n, M))
  <2>1. Cardinality(M \ Outs(n, M)) = Cardinality(M) - Cardinality(M \cap Outs(n, M))
    BY <1>1, FS_Difference
  <2>2. M \cap Outs(n, M) = Outs(n, M)
    BY <1>1
  <2> QED BY <2>1, <2>2 DEF B
<1>8. IsFiniteSet(Outs(n, M)) /\ Cardinality(Outs(n, M)) <= Cardinality(M)
  BY <1>1, FS_Subset
<1>9. Cardinality(M) \in Nat /\ Cardinality(Outs(n, M)) \in Nat /\ Cardinality(A) \in Nat
  BY <1>1, <1>6, <1>8, FS_CardinalityType
<1>10. \A a, o, m \in Nat : a + (m - o) <= k * m => a - o <= (k - 1) * m
  OBVIOUS
<1>11. Cardinality(A) - Cardinality(Outs(n, M)) <= (k - 1) * Cardinality(M)
  BY <1>6, <1>7, <1>9, <1>10
<1> QED BY <1>8, <1>9, <1>11 DEF A

(* Every node of an output's cone but the output feeds another one of it. *)
LEMMA SupportFew ==
  ASSUME NEW n, IsNet(n), NEW M \in SUBSET n.node, NEW k \in Nat \ {0},
         \A v \in n.node : Len(n.fanin[v]) <= k, NEW j \in M
  PROVE  /\ Cardinality(Support(n, M, j)) \in Nat
         /\ Cardinality(Support(n, M, j)) - 1 <= (k - 1) * Cardinality(M)
<1> DEFINE next == [v \in n.node |-> Preds(n, v) \cap M]
           C    == Reached(n, {j}, next)
           A    == Support(n, M, j)
           B    == C \ {j}
<1>1. next \in [n.node -> SUBSET n.node] /\ {j} \in SUBSET n.node
  BY DEF Preds
<1>2. C \subseteq n.node /\ j \in C /\ Closed(C, next)
  BY <1>1, ReachedIsClosed
<1>3. C \subseteq M
  <2>1. Closed(M, next) /\ {j} \subseteq M
    BY DEF Closed
  <2> HIDE DEF next
  <2> QED BY <2>1, ReachedIsLeast
<1>4. A = UNION {(Preds(n, v) \ M) \cup ExtIns(n, v) : v \in C}
  BY DEF Support
<1>5. ASSUME NEW b \in B PROVE \E v \in C : b \in ToSet(n.fanin[v])
  <2> SUFFICES ASSUME \A v \in C : b \notin ToSet(n.fanin[v]) PROVE FALSE
    OBVIOUS
  <2> DEFINE D == C \ {b}
  <2>1. \A v \in D : next[v] \subseteq D
    BY <1>2 DEF Closed, Preds
  <2>2. Closed(D, next) /\ {j} \subseteq D /\ D \in SUBSET n.node /\ b \in C /\ b \notin D
    BY <1>2, <2>1 DEF Closed
  <2> HIDE DEF D, next
  <2>3. C \subseteq D
    BY <2>2, ReachedIsLeast
  <2> QED BY <2>2, <2>3
<1>6. \A x \in A \cup B : \E v \in C : x \in ToSet(n.fanin[v])
  <2>1. \A x \in A : \E v \in C : x \in ToSet(n.fanin[v])
    BY <1>4 DEF Preds, ExtIns
  <2> QED BY <1>5, <2>1
<1>7. A \cap B = {}
  <2>1. A \cap M = {}
    BY <1>2, <1>4 DEF ExtIns, IsNet
  <2> QED BY <1>3, <2>1
<1>8. k \in Nat /\ C \in SUBSET n.node /\ \A v \in C : Len(n.fanin[v]) <= k
  BY <1>2
<1> HIDE DEF A, B, C
<1>9. /\ IsFiniteSet(A) /\ IsFiniteSet(C)
      /\ Cardinality(A) + Cardinality(B) <= k * Cardinality(C)
  BY <1>6, <1>7, <1>8, SlotsShared
<1>10. Cardinality(B) = Cardinality(C) - 1
  BY <1>2, <1>9, FS_RemoveElement DEF B
<1>11. IsFiniteSet(M) /\ Cardinality(C) <= Cardinality(M)
  BY <1>3, NetFinite, FS_Subset
<1>12. Cardinality(A) \in Nat /\ Cardinality(C) \in Nat /\ Cardinality(M) \in Nat
  BY <1>9, <1>11, FS_CardinalityType
<1>13. Cardinality(A) - 1 <= (k - 1) * Cardinality(C)
  <2>1. \A a, c \in Nat : a + (c - 1) <= k * c => a - 1 <= (k - 1) * c
    OBVIOUS
  <2> QED BY <1>9, <1>10, <1>12, <2>1
<1>14. (k - 1) * Cardinality(C) <= (k - 1) * Cardinality(M)
  <2>1. \A p, c, m \in Nat : c <= m => p * c <= p * m
    OBVIOUS
  <2> QED BY <1>11, <1>12, <2>1
<1>15. Cardinality(A) - 1 <= (k - 1) * Cardinality(M)
  <2>1. (k - 1) * Cardinality(C) \in Int /\ (k - 1) * Cardinality(M) \in Int
    <3>1. \A p, c \in Int : p * c \in Int
      OBVIOUS
    <3> QED BY <1>12, <3>1
  <2> QED BY <1>12, <1>13, <1>14, <2>1
<1> QED BY <1>12, <1>15 DEF A

LEMMA BoundSmall ==
  ASSUME NEW n, IsNet(n), NEW r, r.members \in SUBSET n.node, Exact(n, r),
         NEW k \in Nat, k >= 2,
         \A v \in n.node : Succs(n, v) # {} \/ v \in n.co,
         \A v \in n.node : Len(n.fanin[v]) <= k
  PROVE  LowerBound(n, r, k) <= Cardinality(r.members)
<1> DEFINE M == r.members
           c == Cardinality(M)
           J == OutMembers(n, r)
           LB(j) == CeilDiv(Cardinality(Support(n, M, j)) - 1, k - 1)
           S == {r.out, CeilDiv(r.in - r.out, k - 1)} \cup {LB(j) : j \in J}
<1>0. k \in Nat \ {0} /\ k - 1 \in Nat \ {0} /\ M \in SUBSET n.node
  OBVIOUS
<1>1. r.out = Cardinality(Outs(n, M)) /\ r.in = Cardinality(Drivers(n, M))
      /\ DOMAIN r.ext = M
  BY DEF Exact
<1>2. /\ r.out <= c /\ r.in - r.out <= (k - 1) * c
      /\ r.out \in Nat /\ r.in \in Nat /\ c \in Nat
  BY <1>0, <1>1, InputsFew
<1>3. CeilDiv(r.in - r.out, k - 1) \in Int /\ CeilDiv(r.in - r.out, k - 1) <= c
  <2>1. r.in - r.out \in Int
    BY <1>2
  <2> HIDE DEF c
  <2> QED BY <1>0, <1>2, <2>1, CeilDivSmall
<1>4. J \subseteq M
  BY <1>1 DEF OutMembers
<1>5. ASSUME NEW j \in J PROVE LB(j) \in Int /\ LB(j) <= c
  <2> DEFINE x == Cardinality(Support(n, M, j))
  <2>1. j \in M
    BY <1>4
  <2>2. x \in Nat /\ x - 1 <= (k - 1) * c
    BY <1>0, <2>1, SupportFew
  <2>3. x - 1 \in Int
    BY <2>2
  <2> HIDE DEF x, c
  <2>4. CeilDiv(x - 1, k - 1) \in Int /\ CeilDiv(x - 1, k - 1) <= c
    BY <1>0, <1>2, <2>2, <2>3, CeilDivSmall
  <2> QED BY <2>4 DEF x
<1>6. IsFiniteSet(S)
  <2>1. IsFiniteSet(J)
    BY <1>4, NetFinite, FS_Subset
  <2>2. [j \in J |-> LB(j)] \in Surjection(J, {LB(j) : j \in J})
    BY DEF Surjection
  <2>3. IsFiniteSet({LB(j) : j \in J})
    BY <2>1, <2>2, FS_Surjection
  <2>4. IsFiniteSet({r.out, CeilDiv(r.in - r.out, k - 1)})
    <3>1. {r.out, CeilDiv(r.in - r.out, k - 1)} = {r.out} \cup {CeilDiv(r.in - r.out, k - 1)}
      OBVIOUS
    <3>2. IsFiniteSet({r.out}) /\ IsFiniteSet({CeilDiv(r.in - r.out, k - 1)})
      BY FS_Singleton
    <3>3. IsFiniteSet({r.out} \cup {CeilDiv(r.in - r.out, k - 1)})
      BY <3>2, FS_Union
    <3> QED BY <3>1, <3>3
  <2> QED BY <2>3, <2>4, FS_Union
<1> HIDE DEF LB
<1>7. \A y \in S : y \in Int /\ y <= c
  BY <1>2, <1>3, <1>5
<1>8. S # {}
  OBVIOUS
<1>9. LowerBound(n, r, k) = Max(S)
  BY DEF LowerBound, LB
<1> HIDE DEF S
<1>10. Max(S) \in S
  <2>1. \E x \in S : \A y \in S : x >= y
    BY <1>6, <1>7, <1>8, Greatest
  <2> QED BY <2>1 DEF Max
<1> QED BY <1>7, <1>9, <1>10

----------------------------------------------------------------------------
(* The growth holds its seed, and its best region keeps the caps and is     *)
(* better than none it has reached.                                         *)
Growing == {"grow", "list", "pick", "try", "report"}

GrowthInv ==
  /\ cfg \in Configs
  /\ pc \in {"rank", "loop", "seed", "init", "grow", "list", "pick", "try", "report", "select"}
  /\ stall \in 0 .. Stall
  /\ pc \in {"grow", "list", "pick", "try"} => stall < Stall
  /\ outs \subseteq region.members
  /\ pc # "list" => outs = {}
  /\ pc = "init" => root \in trial.members \cup pending
  /\ pc \in Growing => /\ root \in region.members /\ root \in best.members
                       /\ CapsOk(best) /\ ~Less(Q(best), Q(region))
  /\ pc \in {"pick", "try"} /\ Improved => root \in nextR.members /\ CapsOk(nextR)
  /\ pc = "try" => root \in trial.members

LEMMA NotLessItself ==
  ASSUME NEW n, IsNet(n), NEW r, r.members \in SUBSET n.node, Exact(n, r)
  PROVE  ~Less(Q(r), Q(r))
<1>1. Cardinality(r.members) \in Nat /\ r.in \in Nat /\ r.out \in Nat
  BY NetFinite, FS_CardinalityType DEF Exact
<1>2. Q(r)[1] \in Int /\ Q(r)[2] \in Int
  BY <1>1 DEF Q
<1>3. \A a, b \in Int : ~(a * b < a * b)
  OBVIOUS
<1> QED BY <1>2, <1>3 DEF Less

LEMMA GrowthStep ==
  ASSUME KnownNet, Kept, CountsExact, GrowthInv, [Next]_vars
  PROVE  GrowthInv'
<1> USE DEF Growing
<1>1. UNCHANGED <<net, cfg>> /\ IsNet(net)
  <2>1. UNCHANGED <<net, cfg>>
    BY DEF Next, vars, Rank, Ranked, NextSeed, InitAdd, AddViolator, SkipSeed, StartGrowth, List,
           ListExits, StartStep, RejectCandidate, TryCandidate, JudgeTrial, Grow, StopGrowing,
           Report, AllGrown, Select, Done
  <2> QED BY <2>1, NetIsNet
<1>2. CASE \/ (\E v \in queue : Rank(v)) \/ Ranked \/ SkipSeed \/ AllGrown
           \/ (\E c \in cands : Select(c)) \/ Done \/ UNCHANGED vars
  BY <1>2 DEF GrowthInv, Rank, Ranked, SkipSeed, AllGrown, Select, Done, vars, growVars, listVars,
     trialVars, CapsOk, Improved
<1>3. ASSUME NEW v \in seeds, NextSeed(v) PROVE GrowthInv'
  <2>1. v \in Mffc(net, v)
    BY <1>3 DEF Mffc, Kept
  <2> QED BY <1>3, <2>1 DEF GrowthInv, NextSeed, growVars, listVars
<1>4. ASSUME NEW v \in pending, InitAdd(v) \/ AddViolator(v) PROVE GrowthInv'
  <2>1. trial'.members = trial.members \cup {v}
    BY <1>4, AddMembers DEF InitAdd, AddViolator
  <2> QED BY <1>4, <2>1 DEF GrowthInv, InitAdd, AddViolator, growVars, listVars, CapsOk, Improved
<1>5. CASE StartGrowth
  <2>1. ~Less(Q(trial), Q(trial))
    BY <1>1, NotLessItself DEF Kept, CountsExact
  <2> QED BY <1>5, <2>1, BoundAssumption DEF GrowthInv, StartGrowth, listVars, CapsOk
<1>6. CASE List
  <2>1. OutMembers(net, region) \subseteq region.members
    BY DEF OutMembers, CountsExact, Exact
  <2> QED BY <1>6, <2>1 DEF GrowthInv, List, growVars, CapsOk
<1>7. ASSUME NEW m \in outs, ListExits(m) PROVE GrowthInv'
  BY <1>7 DEF GrowthInv, ListExits, growVars, CapsOk
<1>8. CASE StartStep
  BY <1>8 DEF GrowthInv, StartStep, growVars, listVars, CapsOk, Improved
<1>9. ASSUME NEW c \in top, RejectCandidate(c) PROVE GrowthInv'
  BY <1>9 DEF GrowthInv, RejectCandidate, growVars, listVars, CapsOk, Improved
<1>10. ASSUME NEW c \in top, TryCandidate(c) PROVE GrowthInv'
  <2>1. trial'.members = region.members \cup {c}
    BY <1>10, AddMembers DEF TryCandidate
  <2> QED BY <1>10, <2>1 DEF GrowthInv, TryCandidate, growVars, listVars, CapsOk, Improved
<1>11. CASE JudgeTrial
  BY <1>11 DEF GrowthInv, JudgeTrial, growVars, listVars, CapsOk, Improved
<1>12. CASE Grow
  <2>1. ~Less(Q(nextR), Q(nextR))
    BY <1>1, NotLessItself DEF Kept, CountsExact
  <2>2. /\ pc = "pick" /\ Improved /\ region' = nextR /\ UNCHANGED <<cfg, root, listVars>>
        /\ root \in nextR.members /\ CapsOk(nextR) /\ root \in best.members /\ CapsOk(best)
        /\ outs = {} /\ stall \in 0 .. Stall /\ stall < Stall
    BY <1>12 DEF Grow, GrowthInv
  <2>3. CASE Less(Q(best), Q(nextR))
    <3>1. best' = nextR /\ stall' = 0 /\ pc' = "grow"
      BY <1>12, <2>3 DEF Grow
    <3> QED BY <2>1, <2>2, <3>1, BoundAssumption DEF GrowthInv, listVars, CapsOk
  <2>4. CASE ~Less(Q(best), Q(nextR))
    <3>1. best' = best /\ stall' = stall + 1
          /\ pc' = IF stall + 1 >= Stall THEN "report" ELSE "grow"
      BY <1>12, <2>4 DEF Grow
    <3>2. stall' \in 0 .. Stall /\ (pc' # "report" => pc' = "grow" /\ stall' < Stall)
      BY <2>2, <3>1, BoundAssumption
    <3>3. pc' \in {"report", "grow"}
      BY <3>1
    <3> QED BY <2>2, <2>4, <3>1, <3>2, <3>3 DEF GrowthInv, listVars, CapsOk
  <2> QED BY <2>3, <2>4
<1>13. CASE StopGrowing \/ Report
  BY <1>13 DEF GrowthInv, StopGrowing, Report, growVars, listVars, CapsOk
<1> QED BY <1>2, <1>3, <1>4, <1>5, <1>6, <1>7, <1>8, <1>9, <1>10, <1>11, <1>12, <1>13 DEF Next

LEMMA GrowthInvInit == ASSUME Init PROVE GrowthInv
BY BoundAssumption DEF Init, GrowthInv, Growing

----------------------------------------------------------------------------
(* What is reported *)
Fits(c) ==
  /\ c.members \subseteq net.node /\ Measured(c)
  /\ Cardinality(c.members) <= cfg.max_nodes /\ c.in <= cfg.max_in /\ c.out <= cfg.max_out
  /\ c.root \in c.members
  /\ Mapped => c.lb <= Cardinality(c.members)

(* No candidate left is better than a region chosen: the order of those     *)
(* chosen follows, without comparing fractions.                             *)
ReportInv ==
  /\ \A c \in cands \cup ToSet(regions) : Fits(c)
  /\ regions \in Seq(ToSet(regions))
  /\ regions # <<>> => pc = "select"
  /\ \A i \in DOMAIN regions : \A c \in cands : ~Less(regions[i].q, c.q)
  /\ \A i, j \in DOMAIN regions : i < j =>
       /\ ~Less(regions[i].q, regions[j].q)
       /\ Overlap(regions[i].members, regions[j].members) <= JaccardPct

LEMMA ScanMeasures ==
  ASSUME NEW n, NEW r, Exact(n, r), NEW k
  PROVE  LET s == Scan(n, r.members)
         IN r.in = s.in /\ r.out = s.out /\ Q(r) = Q(s) /\ LowerBound(n, r, k) = LowerBound(n, s, k)
<1> DEFINE s == Scan(n, r.members)
<1>1. r.in = s.in /\ r.out = s.out /\ r.members = s.members /\ r.ext = s.ext
  BY DEF Exact, Scan
<1> HIDE DEF s
<1>2. OutMembers(n, r) = OutMembers(n, s)
  BY <1>1 DEF OutMembers
<1>3. Q(r) = Q(s)
  BY <1>1 DEF Q
<1>4. LowerBound(n, r, k) = LowerBound(n, s, k)
  BY <1>1, <1>2 DEF LowerBound
<1> QED
  BY <1>1, <1>3, <1>4 DEF s

LEMMA BestFits ==  ASSUME KnownNet, Kept, CountsExact, GrowthInv, pc = "report",
         NEW c, c.members = best.members, c.in = best.in, c.out = best.out,
         c.root = root, c.q = Q(best), c.lb = LowerBound(net, best, cfg.lut_k)
  PROVE  Fits(c)
<1>1. IsNet(net) /\ best.members \in SUBSET net.node /\ Exact(net, best)
  BY NetIsNet DEF Kept, CountsExact
<1>2. cfg.lut_k \in Nat /\ cfg.lut_k >= 2
  BY ConfigAssumption DEF GrowthInv, ConfigAssumption
<1>3. Mapped => LowerBound(net, best, cfg.lut_k) <= Cardinality(best.members)
  BY <1>1, <1>2, BoundSmall DEF Mapped
<1>4. Measured(c)
  BY <1>1, ScanMeasures DEF Measured
<1> QED BY <1>1, <1>3, <1>4 DEF Fits, GrowthInv, Growing, CapsOk

LEMMA OverlapSwaps ==
  ASSUME NEW A, NEW B, IsFiniteSet(A), IsFiniteSet(B)
  PROVE  Overlap(A, B) \in Int /\ Overlap(A, B) = Overlap(B, A)
<1>1. A \cup B = B \cup A /\ A \cap B = B \cap A
  OBVIOUS
<1>2. Overlap(A, B) = Overlap(B, A)
  BY <1>1 DEF Overlap
<1>3. CASE A \cup B = {}
  BY <1>2, <1>3 DEF Overlap
<1>4. CASE A \cup B # {}
  <2>1. IsFiniteSet(A \cup B) /\ IsFiniteSet(A \cap B)
    BY FS_Union, FS_Intersection
  <2>2. Cardinality(A \cup B) \in Nat \ {0} /\ Cardinality(A \cap B) \in Nat
    BY <1>4, <2>1, FS_CardinalityType, FS_EmptySet
  <2>3. (100 * Cardinality(A \cap B)) \div Cardinality(A \cup B) \in Int
    BY <2>2
  <2> QED BY <1>2, <1>4, <2>3 DEF Overlap
<1> QED BY <1>3, <1>4

LEMMA SelectReports ==
  ASSUME KnownNet, ReportInv, NEW c \in cands, Select(c)
  PROVE  ReportInv'
<1>1. /\ pc = "select" /\ UNCHANGED <<net, cfg, pc>> /\ cands' = cands \ {c}
      /\ \A d \in cands : ~Less(c.q, d.q)
  BY DEF Select
<1>2. CASE Duplicate(c.members)
  <2>1. regions' = regions
    BY <1>2 DEF Select
  <2> QED BY <1>1, <2>1 DEF ReportInv, Fits, Measured, Mapped
<1>3. CASE ~Duplicate(c.members)
  <2> DEFINE n == Len(regions)
  <2>1. regions' = Append(regions, c)
    BY <1>3 DEF Select
  <2>2. regions \in Seq(ToSet(regions) \cup {c}) /\ n \in Nat
    BY DEF ReportInv
  <2>3. /\ DOMAIN regions' = 1 .. n + 1 /\ DOMAIN regions = 1 .. n
        /\ \A i \in 1 .. n : regions'[i] = regions[i]
        /\ regions'[n + 1] = c /\ Len(regions') = n + 1
        /\ regions' \in Seq(ToSet(regions) \cup {c})
    BY <2>1, <2>2
  <2>4. ToSet(regions') = ToSet(regions) \cup {c}
    BY <2>2, <2>3 DEF ToSet
  <2> HIDE DEF n
  <2>5. \A d \in cands' \cup ToSet(regions') : Fits(d)
    BY <1>1, <2>4 DEF ReportInv
  <2>6. \A d \in cands' \cup ToSet(regions') : Fits(d)'
    BY <1>1, <2>5 DEF Fits, Measured, Mapped
  <2>7. ASSUME NEW i \in DOMAIN regions', NEW d \in cands' PROVE ~Less(regions'[i].q, d.q)
    <3>1. CASE i = n + 1
      BY <1>1, <2>3, <3>1
    <3>2. CASE i # n + 1
      <4>1. i \in DOMAIN regions /\ regions'[i] = regions[i]
        BY <2>2, <2>3, <3>2
      <4> QED BY <1>1, <4>1 DEF ReportInv
    <3> QED BY <3>1, <3>2
  <2>8. ASSUME NEW i \in DOMAIN regions', NEW j \in DOMAIN regions', i < j
        PROVE  /\ ~Less(regions'[i].q, regions'[j].q)
               /\ Overlap(regions'[i].members, regions'[j].members) <= JaccardPct
    <3>1. i \in 1 .. n /\ i \in DOMAIN regions /\ regions'[i] = regions[i]
      BY <2>2, <2>3, <2>8
    <3>2. CASE j = n + 1
      <4>1. regions'[j] = c
        BY <2>3, <3>2
      <4>2. regions[i] \in ToSet(regions)
        BY <3>1 DEF ToSet
      <4>3. IsFiniteSet(c.members) /\ IsFiniteSet(regions[i].members)
        BY <4>2, NetIsNet, NetFinite DEF ReportInv, Fits
      <4>4. ~(Overlap(c.members, regions[i].members) > JaccardPct)
        BY <1>3, <3>1 DEF Duplicate
      <4>5. Overlap(c.members, regions[i].members) \in Int /\ JaccardPct \in Int
            /\ Overlap(c.members, regions[i].members) = Overlap(regions[i].members, c.members)
        BY <4>3, OverlapSwaps, BoundAssumption
      <4>6. Overlap(regions[i].members, c.members) <= JaccardPct
        BY <4>4, <4>5
      <4>7. ~Less(regions[i].q, c.q)
        BY <3>1 DEF ReportInv
      <4> QED BY <3>1, <4>1, <4>6, <4>7
    <3>3. CASE j # n + 1
      <4>1. j \in DOMAIN regions /\ regions'[j] = regions[j]
        BY <2>2, <2>3, <3>3
      <4> QED BY <2>8, <3>1, <4>1 DEF ReportInv
    <3> QED BY <3>2, <3>3
  <2> QED BY <1>1, <2>3, <2>4, <2>6, <2>7, <2>8 DEF ReportInv
<1> QED BY <1>2, <1>3

LEMMA ReportStep ==
  ASSUME KnownNet, Kept, CountsExact, GrowthInv, ReportInv, [Next]_vars
  PROVE  ReportInv'
<1>1. UNCHANGED <<net, cfg>>
  BY DEF Next, vars, Rank, Ranked, NextSeed, InitAdd, AddViolator, SkipSeed, StartGrowth, List,
         ListExits, StartStep, RejectCandidate, TryCandidate, JudgeTrial, Grow, StopGrowing,
         Report, AllGrown, Select, Done
<1>2. CASE UNCHANGED reportVars /\ (regions # <<>> => pc' = pc)
  BY <1>1, <1>2 DEF ReportInv, Fits, Measured, Mapped, reportVars
<1>3. CASE Report
  <2> DEFINE c == [ root |-> root, members |-> best.members, in |-> best.in,
                    out |-> best.out, q |-> Q(best), lb |-> LowerBound(net, best, cfg.lut_k) ]
  <2>1. cands' = cands \cup {c} /\ regions' = regions /\ pc = "report" /\ pc' = "seed"
    BY <1>3 DEF Report
  <2>2. /\ c.members = best.members /\ c.in = best.in /\ c.out = best.out
        /\ c.root = root /\ c.q = Q(best) /\ c.lb = LowerBound(net, best, cfg.lut_k)
    OBVIOUS
  <2> HIDE DEF c
  <2>3. Fits(c)
    BY <2>1, <2>2, BestFits
  <2>4. regions = <<>>
    BY <2>1 DEF ReportInv
  <2>5. \A d \in cands' \cup ToSet(regions') : Fits(d)
    BY <2>1, <2>3 DEF ReportInv
  <2>6. \A d \in cands' \cup ToSet(regions') : Fits(d)'
    BY <1>1, <2>5 DEF Fits, Measured, Mapped
  <2> QED BY <2>1, <2>4, <2>6 DEF ReportInv
<1>4. CASE \E c \in cands : Select(c)
  BY <1>4, SelectReports
<1>5. CASE Done \/ UNCHANGED vars
  BY <1>2, <1>5 DEF Done, vars
<1>6. CASE \/ (\E v \in queue : Rank(v)) \/ Ranked \/ SkipSeed \/ AllGrown
           \/ (\E v \in seeds : NextSeed(v)) \/ (\E v \in pending : InitAdd(v) \/ AddViolator(v))
           \/ StartGrowth \/ List \/ (\E m \in outs : ListExits(m)) \/ StartStep
           \/ (\E c \in top : RejectCandidate(c) \/ TryCandidate(c)) \/ JudgeTrial \/ Grow \/ StopGrowing
  <2>1. UNCHANGED reportVars /\ pc # "select"
    BY <1>6 DEF Rank, Ranked, NextSeed, InitAdd, AddViolator, SkipSeed, StartGrowth, List,
           ListExits, StartStep, RejectCandidate, TryCandidate, JudgeTrial, Grow, StopGrowing,
           AllGrown, reportVars
  <2> QED BY <1>2, <2>1 DEF ReportInv
<1> QED BY <1>3, <1>4, <1>5, <1>6 DEF Next

LEMMA ReportInit == ASSUME Init PROVE ReportInv
<1>1. regions = <<>> /\ cands = {} /\ DOMAIN regions = {} /\ ToSet(regions) = {}
  BY DEF Init, ToSet
<1> QED BY <1>1 DEF ReportInv

(* A region that counts exactly has the type of one. *)
LEMMA ExactTyped ==
  ASSUME KnownNet, NEW r, r.members \subseteq net.node, Exact(net, r)
  PROVE  IsRegion(r)
<1> DEFINE M == r.members
           D == Drivers(net, M)
<1>1. /\ r.driven = [d \in D |-> Cardinality(Fed(net, M, d))]
      /\ r.ext = [m \in M |-> Cardinality(Succs(net, m) \ M)]
      /\ r.in = Cardinality(D) /\ r.out = Cardinality(Outs(net, M))
  BY DEF Exact
<1>2. /\ IsNet(net) /\ IsFiniteSet(D) /\ IsFiniteSet(Outs(net, M))
      /\ \A d : IsFiniteSet(Fed(net, M, d))
      /\ \A m \in M : IsFiniteSet(Succs(net, m) \ M)
  BY NetIsNet, NetFinite, FS_Difference
<1>3. D \subseteq net.node \cup net.ci
  BY DEF Drivers, Preds, ExtIns
<1>4. r.in \in Nat /\ r.out \in Nat /\ \A d : Cardinality(Fed(net, M, d)) \in Nat
      /\ \A m \in M : Cardinality(Succs(net, m) \ M) \in Nat
  BY <1>1, <1>2, FS_CardinalityType
<1> HIDE DEF D
<1>5. DOMAIN r.driven = D /\ r.driven \in [D -> Nat] /\ r.ext \in [M -> Nat]
  BY <1>1, <1>4
<1> QED BY <1>3, <1>4, <1>5 DEF IsRegion

LEMMA HiveTyped ==
  ASSUME KnownNet, Kahn, Kept, CountsExact, GrowthInv
  PROVE  TypeOK
<1>1. IsRegion(region) /\ IsRegion(best) /\ IsRegion(trial) /\ IsRegion(nextR)
  BY ExactTyped DEF Kept, CountsExact
<1>2. indeg \in [net.node -> Nat]
  <2>1. \A s \in net.node : Cardinality(Preds(net, s) \ processed) \in Nat
    BY NetIsNet, NetFinite, FS_Difference, FS_CardinalityType
  <2> QED BY <2>1 DEF Kahn
<1> QED BY <1>1, <1>2 DEF TypeOK, KnownNet, Kahn, Kept, GrowthInv

(* What hive reports of a seed has the inputs, outputs, Q and bound on LUTs *)
(* that a scan of the region gives, keeps the caps, holds the seed, and is  *)
(* no worse than any region its growth reached; on a network in which no    *)
(* node dangles or has more fanins than a LUT that bound is at most the     *)
(* number of its nodes.  Reported regions come by falling Q and overlap     *)
(* little.                                                                  *)
THEOREM ReportsRightHolds == Spec => []ReportsRight
<1> DEFINE I == KnownNet /\ Kahn /\ Kept /\ CountsExact /\ GrowthInv /\ ReportInv
<1>1. Init => I
  BY GrowthInit, KahnInit, GrowthInvInit, ReportInit DEF Init, KnownNet
<1>2. I /\ [Next]_vars => I'
  BY NetStep, KahnStep, KeptStep, ExactStep, GrowthStep, ReportStep
<1>3. ASSUME I PROVE ReportsRight
  <2>1. TypeOK
    BY <1>3, HiveTyped
  <2>2. \A c \in cands \cup ToSet(regions) : Fits(c)
    BY <1>3 DEF ReportInv
  <2>3. ASSUME regions # <<>>, NEW c \in cands PROVE ~Less(Last(regions).q, c.q)
    <3>1. Len(regions) \in DOMAIN regions
      BY <1>3, <2>3 DEF ReportInv
    <3> QED BY <1>3, <3>1 DEF ReportInv, Last
  <2>4. pc \in {"grow", "list", "pick", "try", "report"} => ~Less(Q(best), Q(region))
    BY <1>3 DEF GrowthInv, Growing
  <2>5. \A i, j \in DOMAIN regions : i < j =>
          /\ ~Less(regions[i].q, regions[j].q)
          /\ Overlap(regions[i].members, regions[j].members) <= JaccardPct
    BY <1>3 DEF ReportInv
  <2> QED BY <2>1, <2>2, <2>3, <2>4, <2>5 DEF ReportsRight, Fits
<1>4. I => ReportsRight
  BY <1>3
<1> QED BY <1>1, <1>2, <1>4, PTL DEF Spec
=============================================================================
