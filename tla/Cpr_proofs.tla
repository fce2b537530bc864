------------------------------ MODULE Cpr_proofs ------------------------------
(****************************************************************************)
(* What holds of Cpr for every network and every choice of options: what a  *)
(* round of replication remembers of the network is true of it, a round     *)
(* that is reverted leaves no trace, one that is kept leaves functions and  *)
(* arrivals no worse, and the limits hold.                                  *)
(*                                                                          *)
(* First what holds of any partitioned network: what the edits keep of the  *)
(* types and of acyclicity, and that on an acyclic network a definition     *)
(* that goes from the fanins of a vertex to the vertex has exactly one      *)
(* solution.                                                                *)
(****************************************************************************)
EXTENDS Cpr, NetTheorems

----------------------------------------------------------------------------
(* What is true when the inputs in a are: one set of vertices, the only one *)
(* that agrees with every local function.                                   *)
Decides(n, a, T, v) ==
  IF v \in n.pi THEN v \in a ELSE {i \in DOMAIN n.fanin[v] : n.fanin[v][i] \in T} \in n.truth[v]

IsTruth(n, a, T) == T \subseteq Vertices(n) /\ \A v \in Vertices(n) : v \in T <=> Decides(n, a, T, v)

LEMMA DecidesSame ==
  ASSUME NEW n, IsNetwork(n), NEW a, NEW v \in Vertices(n), NEW T, NEW U,
         \A u \in Fanins(n, v) : u \in T <=> u \in U
  PROVE  Decides(n, a, T, v) <=> Decides(n, a, U, v)
<1>1. CASE v \in n.pi
  BY <1>1 DEF Decides
<1>2. CASE v \notin n.pi
  <2>1. v \in n.node
    BY <1>2 DEF Vertices
  <2>2. \A i \in DOMAIN n.fanin[v] : n.fanin[v][i] \in Fanins(n, v)
    BY <2>1 DEF Fanins, ToSet
  <2>3. {i \in DOMAIN n.fanin[v] : n.fanin[v][i] \in T} = {i \in DOMAIN n.fanin[v] : n.fanin[v][i] \in U}
    BY <2>2
  <2> QED
    BY <1>2, <2>3 DEF Decides
<1> QED
  BY <1>1, <1>2

LEMMA TruthOnly ==
  ASSUME NEW n, IsNetwork(n), Acyclic(n), NEW a, NEW T, IsTruth(n, a, T), NEW U, IsTruth(n, a, U)
  PROVE  T = U
<1> DEFINE S == {v \in Vertices(n) : v \in T <=> v \in U}
<1>1. ASSUME NEW v \in Vertices(n), Fanins(n, v) \subseteq S
      PROVE  v \in S
  <2>1. \A u \in Fanins(n, v) : u \in T <=> u \in U
    BY <1>1
  <2>2. Decides(n, a, T, v) <=> Decides(n, a, U, v)
    BY <2>1, DecidesSame
  <2> QED
    BY <2>2 DEF IsTruth
<1>2. \A v \in Vertices(n) : v \in S
  <2> HIDE DEF S
  <2> QED
    BY <1>1, FromFanins
<1> QED
  BY <1>2 DEF IsTruth

LEMMA TruthExists ==
  ASSUME NEW n, IsNetwork(n), Acyclic(n), NEW a
  PROVE  \E T : IsTruth(n, a, T)
<1> DEFINE V == Vertices(n)
           Val == {0, 1}
           On(g) == {v \in V : g[v] = 1}
           B == [v \in V |-> [g \in [V -> Val] |-> IF Decides(n, a, On(g), v) THEN 1 ELSE 0]]
<1>1. \A v \in V, g \in [V -> Val] : B[v][g] = IF Decides(n, a, On(g), v) THEN 1 ELSE 0
  OBVIOUS
<1>2. \A v \in V, g \in [V -> Val] : B[v][g] \in Val
  BY <1>1
<1>3. ASSUME NEW v \in V, NEW g \in [V -> Val], NEW h \in [V -> Val],
             \A u \in Fanins(n, v) : g[u] = h[u]
      PROVE  B[v][g] = B[v][h]
  <2>1. \A u \in Fanins(n, v) : u \in V
    BY FaninsTyped
  <2>2. \A u \in Fanins(n, v) : u \in On(g) <=> u \in On(h)
    BY <1>3, <2>1
  <2> HIDE DEF On
  <2>3. Decides(n, a, On(g), v) <=> Decides(n, a, On(h), v)
    BY <2>2, DecidesSame
  <2> HIDE DEF B
  <2> QED
    BY <1>1, <2>3
<1>4. Val # {}
  OBVIOUS
<1> HIDE DEF Val, B
<1>5. NetFlow(n, Val, B)
  BY <1>2, <1>3 DEF NetFlow
<1>6. Solvable(Vertices(n), Val, B)
  BY <1>4, <1>5, NetFlowExists
<1>7. PICK f \in [V -> Val] : \A v \in V : f[v] = B[v][f]
  BY <1>6 DEF Solvable
<1>8. \A v \in V : f[v] = IF Decides(n, a, On(f), v) THEN 1 ELSE 0
  BY <1>1, <1>7
<1>9. \A v \in V : v \in On(f) <=> Decides(n, a, On(f), v)
  BY <1>8
<1>10. IsTruth(n, a, On(f))
  BY <1>9 DEF IsTruth
<1> QED
  BY <1>10

LEMMA TruthIs ==
  ASSUME NEW n, IsNetwork(n), Acyclic(n), NEW a
  PROVE  IsTruth(n, a, TrueAt(n, a))
<1> DEFINE V == Vertices(n)
           Body(g, v) == IF v \in n.pi THEN v \in a
                         ELSE {i \in DOMAIN n.fanin[v] : g[n.fanin[v][i]]} \in n.truth[v]
           t == CHOOSE g : g = [v \in V |-> Body(g, v)]
           T == {v \in V : t[v]}
<1>1. PICK U : IsTruth(n, a, U)
  BY TruthExists
<1>2. \A v \in V : v \notin n.pi => \A i \in DOMAIN n.fanin[v] : n.fanin[v][i] \in V
  <2>1. \A v \in n.node : n.fanin[v] \in Seq(V)
    BY Typed
  <2>2. \A v \in n.node : \A i \in DOMAIN n.fanin[v] : n.fanin[v][i] \in V
    BY <2>1
  <2> QED
    BY <2>2 DEF Vertices
<1> DEFINE h == [v \in V |-> v \in U]
<1>3. h = [v \in V |-> Body(h, v)]
  <2>1. ASSUME NEW v \in V
        PROVE  v \in U <=> Body(h, v)
    <3>1. CASE v \in n.pi
      BY <1>1, <3>1 DEF IsTruth, Decides
    <3>2. CASE v \notin n.pi
      <4>1. {i \in DOMAIN n.fanin[v] : h[n.fanin[v][i]]} = {i \in DOMAIN n.fanin[v] : n.fanin[v][i] \in U}
        BY <1>2, <3>2
      <4> QED
        BY <1>1, <3>2, <4>1 DEF IsTruth, Decides
    <3> QED
      BY <3>1, <3>2
  <2> QED
    BY <2>1
<1>4. t = [v \in V |-> Body(t, v)]
  <2> HIDE DEF h
  <2> QED
    BY <1>3
<1>5. TrueAt(n, a) = T
  BY DEF TrueAt
<1> HIDE DEF t
<1>6. ASSUME NEW v \in V
      PROVE  v \in T <=> Decides(n, a, T, v)
  <2>1. t[v] = Body(t, v)
    BY <1>4
  <2>2. CASE v \in n.pi
    BY <2>1, <2>2 DEF Decides
  <2>3. CASE v \notin n.pi
    <3>1. {i \in DOMAIN n.fanin[v] : t[n.fanin[v][i]]} = {i \in DOMAIN n.fanin[v] : n.fanin[v][i] \in T}
      BY <1>2, <2>3
    <3> QED
      BY <2>1, <2>3, <3>1 DEF Decides
  <2> QED
    BY <2>2, <2>3
<1> QED
  BY <1>5, <1>6 DEF IsTruth

(* Networks that are the same compute the same. *)
LEMMA OutputsSame ==
  ASSUME NEW n, IsNetwork(n), Acyclic(n), NEW m, IsNetwork(m), Same(m, n)
  PROVE  Outputs(m) = Outputs(n)
<1>1. m.pi = n.pi /\ m.node = n.node /\ m.fanin = n.fanin /\ m.truth = n.truth /\ m.po = n.po
      /\ Vertices(m) = Vertices(n)
  BY DEF Same, Vertices
<1>2. \A a : TrueAt(m, a) = TrueAt(n, a)
  BY <1>1 DEF TrueAt
<1> QED
  BY <1>1, <1>2 DEF Outputs

(* Outputs are equal when the vertices that drive them are true together. *)
LEMMA OutputsEqual ==
  ASSUME NEW n, NEW m, m.pi = n.pi, m.po = n.po,
         \A a \in SUBSET n.pi : \A o \in DOMAIN n.po : n.po[o] \in TrueAt(m, a) <=> n.po[o] \in TrueAt(n, a)
  PROVE  Outputs(m) = Outputs(n)
<1>1. \A o \in DOMAIN n.po : {a \in SUBSET n.pi : n.po[o] \in TrueAt(m, a)} =
                             {a \in SUBSET n.pi : n.po[o] \in TrueAt(n, a)}
  OBVIOUS
<1>2. Outputs(m) = [o \in DOMAIN n.po |-> {a \in SUBSET n.pi : n.po[o] \in TrueAt(m, a)}]
  BY DEF Outputs
<1>3. Outputs(n) = [o \in DOMAIN n.po |-> {a \in SUBSET n.pi : n.po[o] \in TrueAt(n, a)}]
  BY DEF Outputs
<1> QED
  BY <1>1, <1>2, <1>3

----------------------------------------------------------------------------
(* What replication makes is such a duplicate. *)
LEMMA CopiedIs ==
  ASSUME NEW n, IsNetwork(n), NEW u \in n.node, NEW p \in Nat \cup {NoPart},
         NEW m, m = Copied(n, u, p)
  PROVE  IsCopy(m, n, u, p) /\ IsNetwork(m)
BY CopyIs DEF Copied, CopyReaders

----------------------------------------------------------------------------
(* Taking a duplicate back: one step of the fold of RoundReverted *)
Undone(k, e) == Without(Patched(k, e.readers, e.dup, e.obj), {e.dup})

IsUndone(m, k, e) ==
  /\ Shaped(m) /\ m.max = k.max /\ m.pi = k.pi /\ m.node = k.node \ {e.dup} /\ m.po = k.po
  /\ \A v \in m.node :
       /\ m.truth[v] = k.truth[v]
       /\ m.fanin[v] = IF v \in e.readers THEN ReplaceAll(k.fanin[v], e.dup, e.obj) ELSE k.fanin[v]
  /\ \A v \in Vertices(m) : m.part[v] = k.part[v]

LEMMA UndoneIs ==
  ASSUME NEW k, IsNetwork(k), NEW e, e.obj \in Vertices(k), NEW m, m = Undone(k, e)
  PROVE  IsUndone(m, k, e)
<1> DEFINE q == Patched(k, e.readers, e.dup, e.obj)
<1>1. IsNetwork(q)
  BY PatchedNetwork
<1>2. m = Without(q, {e.dup})
  BY DEF Undone
<1>3. /\ q.max = k.max /\ q.pi = k.pi /\ q.node = k.node /\ q.po = k.po
      /\ q.fanin = [v \in k.node |-> IF v \in e.readers THEN ReplaceAll(k.fanin[v], e.dup, e.obj)
                                                        ELSE k.fanin[v]]
      /\ q.truth = k.truth /\ q.part = k.part
  BY PatchedFields
<1> HIDE DEF q
<1>4. IsWithout(m, q, {e.dup})
  BY <1>1, <1>2, WithoutIs
<1>5. m.node \subseteq k.node
  BY <1>3, <1>4 DEF IsWithout
<1> QED
  BY <1>3, <1>4, <1>5 DEF IsWithout, IsUndone

LEMMA UndoneSame ==
  ASSUME NEW a, IsNetwork(a), NEW b, IsNetwork(b), Same(a, b), NEW e, e.obj \in Vertices(a)
  PROVE  Same(Undone(a, e), Undone(b, e)) /\ Undone(a, e).max = a.max
<1> DEFINE m == Undone(a, e)
           q == Undone(b, e)
<1>1. e.obj \in Vertices(b)
  BY DEF Same, Vertices
<1>2. IsUndone(m, a, e) /\ IsUndone(q, b, e)
  BY <1>1, UndoneIs
<1> HIDE DEF m, q
<1>3. m.pi = q.pi /\ m.node = q.node /\ m.po = q.po /\ Vertices(m) = Vertices(q)
  BY <1>2 DEF IsUndone, Same, Vertices
<1>4. \A v \in m.node : m.fanin[v] = q.fanin[v] /\ m.truth[v] = q.truth[v]
  BY <1>2, <1>3 DEF IsUndone, Same
<1>5. \A v \in Vertices(m) : m.part[v] = q.part[v]
  BY <1>2, <1>3 DEF IsUndone, Same
<1>6. Shaped(m) /\ Shaped(q) /\ m.max = a.max
  BY <1>2 DEF IsUndone
<1>7. Same(m, q)
  BY <1>3, <1>4, <1>5, <1>6, SameAt
<1> QED
  BY <1>6, <1>7 DEF m, q

(* A duplicate that is taken back leaves no trace: no node read its number. *)
LEMMA CopyUndone ==
  ASSUME NEW n, IsNetwork(n), NEW u \in n.node, NEW p, NEW m, IsNetwork(m), IsCopy(m, n, u, p),
         NEW e, e.obj = u, e.dup = n.max, e.readers = ReadersIn(n, u, p)
  PROVE  Same(Undone(m, e), n)
<1> DEFINE q == Undone(m, e)
<1>1. /\ m.node = n.node \cup {n.max} /\ n.max \notin n.node /\ m.node \ {n.max} = n.node
      /\ m.pi = n.pi /\ n.max \notin Vertices(n) /\ u \in Vertices(m) /\ m.po = n.po
      /\ Vertices(n) = n.pi \cup n.node
  BY DEF IsCopy, Vertices
<1>2. IsUndone(q, m, e)
  BY <1>1, UndoneIs
<1> HIDE DEF q
<1>3. q.node = n.node /\ q.pi = n.pi /\ q.po = n.po /\ Vertices(q) = Vertices(n) /\ Shaped(q)
  BY <1>1, <1>2 DEF IsUndone, Vertices
<1>4. ASSUME NEW v \in n.node
      PROVE  q.fanin[v] = n.fanin[v]
  <2>1. n.fanin[v] \in Seq(Vertices(n)) /\ m.fanin[v] \in Seq(Vertices(m))
    BY <1>1, Typed
  <2>2. CASE v \notin e.readers
    BY SMTT(30), <1>2, <1>3, <2>2 DEF IsCopy, IsUndone
  <2>3. CASE v \in e.readers
    <3> DEFINE s == n.fanin[v]
               t == m.fanin[v]
               r == q.fanin[v]
    <3>1. /\ DOMAIN t = DOMAIN s
          /\ \A i \in DOMAIN s : t[i] = (IF s[i] = u THEN n.max ELSE s[i])
      BY <2>3, CopyFanins
    <3>2. r = ReplaceAll(t, n.max, u)
      BY <1>2, <1>3, <2>3 DEF IsUndone
    <3>3. /\ DOMAIN r = DOMAIN t
          /\ \A i \in DOMAIN t : r[i] = (IF t[i] = n.max THEN u ELSE t[i])
      BY <2>1, <3>2, ReplacedAt
    <3>4. r = [i \in 1 .. Len(t) |-> IF t[i] = n.max THEN u ELSE t[i]]
      BY <3>2 DEF ReplaceAll
    <3>5. s = [i \in DOMAIN s |-> s[i]] /\ DOMAIN s = 1 .. Len(s) /\ \A i \in DOMAIN s : s[i] # n.max
      BY <1>1, <2>1
    <3>6. r = [i \in DOMAIN r |-> r[i]]
      BY <3>4
    <3> HIDE DEF r, s, t
    <3>7. DOMAIN r = DOMAIN s /\ \A i \in DOMAIN s : r[i] = s[i]
      BY <3>1, <3>3, <3>5
    <3>8. r = s
      BY <3>5, <3>6, <3>7
    <3> QED
      BY <3>8 DEF r, s
  <2> QED
    BY <2>2, <2>3
<1>5. \A v \in n.node : q.truth[v] = n.truth[v]
  BY <1>2, <1>3 DEF IsUndone, IsCopy
<1>6. \A v \in Vertices(n) : q.part[v] = n.part[v]
  BY <1>2, <1>3 DEF IsUndone, IsCopy
<1>7. Shaped(n)
  BY NetworkShaped
<1>8. Same(q, n)
  BY <1>3, <1>4, <1>5, <1>6, <1>7, SameAt
<1> QED
  BY <1>8 DEF q

----------------------------------------------------------------------------
----------------------------------------------------------------------------
(* A round is reverted entry by entry, from the last. *)
RevertBody(n, L, g, U) == IF U = {} THEN n ELSE Undone(g[U \ {Min(U)}], L[Min(U)])

LEMMA RevertExists ==
  ASSUME NEW n, NEW L, NEW k \in Nat, NEW S, S = 1 .. k
  PROVE  \E g : g = [U \in SUBSET S |-> RevertBody(n, L, g, U)]
<1> DEFINE To(g, i) == \A U \in SUBSET S : Cardinality(U) < i => g[U] = RevertBody(n, L, g, U)
           I == {i \in Nat : \E g : To(g, i)}
<1>0. IsFiniteSet(S)
  BY FS_Interval
<1>1. \A U \in SUBSET S : IsFiniteSet(U) /\ Cardinality(U) \in Nat
  BY <1>0, FS_Subset, FS_CardinalityType
<1>2. 0 \in I
  BY <1>1
<1>3. ASSUME NEW i \in Nat, i \in I
      PROVE  i + 1 \in I
  <2>1. PICK g : To(g, i)
    BY <1>3
  <2> DEFINE h == [U \in SUBSET S |-> RevertBody(n, L, g, U)]
  <2>2. ASSUME NEW U \in SUBSET S, Cardinality(U) < i + 1
        PROVE  h[U] = RevertBody(n, L, h, U)
    <3>1. CASE U = {}
      BY <3>1 DEF RevertBody
    <3>2. CASE U # {}
      <4> DEFINE W == U \ {Min(U)}
      <4>1. Min(U) \in U /\ W \in SUBSET S
        <5>1. U \in SUBSET Nat
          OBVIOUS
        <5> QED
          BY <3>2, <5>1, LeastIn
      <4>2. Cardinality(W) = Cardinality(U) - 1
        BY <1>1, <4>1, FS_RemoveElement
      <4>3. Cardinality(W) < i
        BY <1>1, <2>2, <4>2
      <4>4. g[W] = h[W]
        BY <2>1, <4>1, <4>3
      <4> QED
        BY <3>2, <4>4 DEF RevertBody
    <3> QED
      BY <3>1, <3>2
  <2>3. To(h, i + 1)
    <3> HIDE DEF h
    <3> QED
      BY <2>2
  <2>4. \E b : To(b, i + 1)
    <3> HIDE DEF To
    <3> QED
      BY <2>3
  <2>5. i + 1 \in Nat
    OBVIOUS
  <2> HIDE DEF To
  <2> QED
    BY <2>4, <2>5
<1>4. Cardinality(S) + 1 \in I
  <2>1. Cardinality(S) + 1 \in Nat
    BY <1>1
  <2> HIDE DEF I
  <2> QED
    BY <1>2, <1>3, <2>1, AllNaturals
<1>5. PICK g : To(g, Cardinality(S) + 1)
  BY <1>4
<1>6. ASSUME NEW U \in SUBSET S
      PROVE  Cardinality(U) < Cardinality(S) + 1
  <2>1. Cardinality(U) <= Cardinality(S)
    BY <1>0, FS_Subset
  <2>2. Cardinality(U) \in Nat /\ Cardinality(S) \in Nat
    BY <1>1
  <2> QED
    BY <2>1, <2>2
<1> DEFINE h == [U \in SUBSET S |-> g[U]]
<1>7. ASSUME NEW U \in SUBSET S
      PROVE  h[U] = RevertBody(n, L, h, U)
  <2>1. g[U] = RevertBody(n, L, g, U)
    BY <1>5, <1>6
  <2>2. U \ {Min(U)} \in SUBSET S
    OBVIOUS
  <2> QED
    BY <2>1, <2>2 DEF RevertBody
<1>8. h = [U \in SUBSET S |-> RevertBody(n, L, h, U)]
  BY <1>7
<1> QED
  BY <1>8

(* The networks between the entries of L, from b to n: each entry leads     *)
(* back from one of them to the one before.                                 *)
Retraces(H, L, b, n) ==
  /\ Same(H[0], b) /\ Same(n, H[Len(L)])
  /\ \A k \in 0 .. Len(L) : IsNetwork(H[k]) /\ H[k].max <= n.max
  /\ \A k \in 1 .. Len(L) : L[k].obj \in Vertices(H[k]) /\ Same(Undone(H[k], L[k]), H[k - 1])

LEMMA RevertedSame ==
  ASSUME NEW n, IsNetwork(n), NEW b, NEW L, L = [i \in 1 .. Len(L) |-> L[i]], Len(L) \in Nat,
         NEW H, Retraces(H, L, b, n), NEW m, m = RoundReverted(n, L)
  PROVE  Same(m, b) /\ m.max = n.max
<1> DEFINE S == 1 .. Len(L)
           g == CHOOSE f : f = [U \in SUBSET S |-> RevertBody(n, L, f, U)]
<1>1. m = g[S]
  <2>1. DOMAIN L = S
    OBVIOUS
  <2> QED
    BY <2>1 DEF RoundReverted, FoldRight, MapThenFoldSet, RevertBody, Undone
<1>2. g = [U \in SUBSET S |-> RevertBody(n, L, g, U)]
  BY RevertExists
<1> HIDE DEF g
<1> DEFINE At(i) == (Len(L) - i + 1) .. Len(L)
           I == {i \in Nat : i <= Len(L) =>
                   Same(g[At(i)], H[Len(L) - i]) /\ g[At(i)].max = n.max}
<1>3. 0 \in I
  <2>1. At(0) = {} /\ {} \in SUBSET S
    OBVIOUS
  <2>2. g[At(0)] = n
    BY <1>2, <2>1 DEF RevertBody
  <2>3. Same(n, H[Len(L) - 0])
    BY DEF Retraces
  <2> QED
    BY <2>2, <2>3
<1>4. ASSUME NEW i \in Nat, i \in I
      PROVE  i + 1 \in I
  <2> SUFFICES ASSUME i + 1 <= Len(L)
               PROVE  /\ Same(g[At(i + 1)], H[Len(L) - (i + 1)])
                      /\ g[At(i + 1)].max = n.max
    OBVIOUS
  <2> DEFINE j == Len(L) - i
             x == g[At(i)]
  <2>1. j \in 1 .. Len(L) /\ j \in 0 .. Len(L) /\ Len(L) - (i + 1) = j - 1
    OBVIOUS
  <2>2. At(i + 1) = j .. Len(L) /\ At(i + 1) \in SUBSET S /\ At(i + 1) # {} /\ At(i + 1) \in SUBSET Nat
    <3>1. At(i + 1) = j .. Len(L)
      OBVIOUS
    <3> HIDE DEF j, At
    <3>2. j .. Len(L) \subseteq S /\ j \in j .. Len(L) /\ j .. Len(L) \subseteq Nat
      BY <2>1
    <3>3. j .. Len(L) # {}
      BY <3>2
    <3> HIDE DEF S
    <3> QED
      BY <3>1, <3>2, <3>3
  <2>3. Min(At(i + 1)) = j
    <3>1. Min(At(i + 1)) \in At(i + 1) /\ \A k \in At(i + 1) : Min(At(i + 1)) <= k
      <4> HIDE DEF At
      <4> QED
        BY <2>2, LeastIn
    <3> QED
      BY <2>1, <2>2, <3>1
  <2>4. At(i + 1) \ {j} = At(i)
    BY <2>1, <2>2
  <2>5. g[At(i + 1)] = Undone(x, L[j])
    BY <1>2, <2>2, <2>3, <2>4 DEF RevertBody
  <2>6. Same(x, H[j]) /\ x.max = n.max
    BY <1>4
  <2> HIDE DEF x, j, At
  <2>7. /\ IsNetwork(H[j]) /\ H[j].max <= n.max /\ L[j].obj \in Vertices(H[j])
        /\ Same(Undone(H[j], L[j]), H[j - 1])
    BY <2>1 DEF Retraces
  <2>8. n.max \in Nat /\ H[j].max \in Nat
    BY <2>7 DEF IsNetwork
  <2>9. IsNetwork(x)
    BY <2>6, <2>7, <2>8, SameNetwork
  <2>10. L[j].obj \in Vertices(x)
    BY <2>6, <2>7 DEF Same, Vertices
  <2>11. Same(Undone(x, L[j]), Undone(H[j], L[j])) /\ Undone(x, L[j]).max = x.max
    BY <2>6, <2>7, <2>9, <2>10, UndoneSame
  <2>12. Same(Undone(x, L[j]), H[j - 1])
    BY <2>7, <2>11, SameTwice
  <2> QED
    BY <2>1, <2>5, <2>6, <2>11, <2>12
<1>5. Len(L) \in I
  <2> HIDE DEF I
  <2> QED
    BY <1>3, <1>4, AllNaturals
<1>6. At(Len(L)) = S /\ Len(L) - Len(L) = 0
  OBVIOUS
<1>7. Same(m, H[0]) /\ m.max = n.max
  BY <1>1, <1>5, <1>6
<1>8. Same(H[0], b)
  BY DEF Retraces
<1> QED
  BY <1>7, <1>8, SameTwice

----------------------------------------------------------------------------
(* The timer: arrivals are a solution of their equations. *)
TimeBody(n, at, v) ==
  IF v \in n.pi THEN 0 ELSE 1 + Max({0} \cup {at[u] + EdgeDelay(n, u, v) : u \in Fanins(n, v)})

LEMMA TimeBodyIs ==
  ASSUME NEW n, IsNetwork(n), NEW v, NEW at, \A u \in Fanins(n, v) : at[u] \in Nat
  PROVE  /\ TimeBody(n, at, v) \in Nat
         /\ v \in n.pi => TimeBody(n, at, v) = 0
         /\ v \notin n.pi =>
              /\ \A u \in Fanins(n, v) : 1 + at[u] + EdgeDelay(n, u, v) <= TimeBody(n, at, v)
              /\ \/ TimeBody(n, at, v) = 1
                 \/ \E u \in Fanins(n, v) : TimeBody(n, at, v) = 1 + at[u] + EdgeDelay(n, u, v)
<1> DEFINE F == Fanins(n, v)
           f == [u \in F |-> at[u] + EdgeDelay(n, u, v)]
           M == LatestIn(F, f)
<1>1. IsFiniteSet(F)
  BY FaninsTyped, VerticesFinite, FS_Subset
<1>2. \A u \in F : f[u] \in Nat /\ f[u] = at[u] + EdgeDelay(n, u, v)
  BY DEF EdgeDelay
<1>3. {f[u] : u \in F} = {at[u] + EdgeDelay(n, u, v) : u \in F}
  BY <1>2
<1>4. TimeBody(n, at, v) = IF v \in n.pi THEN 0 ELSE 1 + M
  BY <1>3 DEF TimeBody, LatestIn
<1>5. M \in Nat /\ (\A u \in F : f[u] <= M) /\ (M = 0 \/ \E u \in F : M = f[u])
  <2> HIDE DEF F, f
  <2> QED
    BY <1>1, <1>2, LatestOf
<1> HIDE DEF M, f
<1>6. \A u \in F : at[u] \in Nat /\ EdgeDelay(n, u, v) \in Nat
  BY DEF EdgeDelay
<1> HIDE DEF F
<1>7. \A u \in F : 1 + at[u] + EdgeDelay(n, u, v) <= 1 + M
  BY <1>2, <1>5, <1>6
<1>8. 1 + M = 1 \/ \E u \in F : 1 + M = 1 + at[u] + EdgeDelay(n, u, v)
  BY <1>2, <1>5, <1>6
<1> QED
  BY <1>4, <1>5, <1>7, <1>8 DEF F

LEMMA TimeBodySame ==
  ASSUME NEW n, NEW v, NEW g, NEW h, \A u \in Fanins(n, v) : g[u] = h[u]
  PROVE  TimeBody(n, g, v) = TimeBody(n, h, v)
<1>1. {g[u] + EdgeDelay(n, u, v) : u \in Fanins(n, v)} = {h[u] + EdgeDelay(n, u, v) : u \in Fanins(n, v)}
  OBVIOUS
<1> QED
  BY <1>1 DEF TimeBody

LEMMA TimingIs ==
  ASSUME NEW n, IsNetwork(n), Acyclic(n), NEW at, at = Timing(n)
  PROVE  at \in [Vertices(n) -> Nat] /\ \A v \in Vertices(n) : at[v] = TimeBody(n, at, v)
<1> DEFINE V == Vertices(n)
           B == [v \in V |-> [g \in [V -> Nat] |-> TimeBody(n, g, v)]]
<1>0. \A v \in V : Fanins(n, v) \subseteq V
  BY FaninsTyped
<1>1. \A v \in V, g \in [V -> Nat] : B[v][g] = TimeBody(n, g, v)
  OBVIOUS
<1>2. ASSUME NEW v \in V, NEW g \in [V -> Nat]
      PROVE  B[v][g] \in Nat
  <2>1. \A u \in Fanins(n, v) : g[u] \in Nat
    BY <1>0
  <2> QED
    BY <1>1, <2>1, TimeBodyIs
<1>3. ASSUME NEW v \in V, NEW g \in [V -> Nat], NEW h \in [V -> Nat],
             \A u \in Fanins(n, v) : g[u] = h[u]
      PROVE  B[v][g] = B[v][h]
  BY <1>1, <1>3, TimeBodySame
<1>4. \E f \in [V -> Nat] : \A v \in V : f[v] = B[v][f]
  <2> DEFINE Val == Nat
  <2> HIDE DEF B
  <2>1. \A v \in V, g \in [V -> Val] : B[v][g] \in Val
    BY <1>2
  <2>2. \A v \in V, g, h \in [V -> Val] :
          (\A u \in Fanins(n, v) : g[u] = h[u]) => B[v][g] = B[v][h]
    BY <1>3
  <2>3. Val # {}
    OBVIOUS
  <2> HIDE DEF Val
  <2>4. NetFlow(n, Val, B)
    BY <2>1, <2>2 DEF NetFlow
  <2>5. Solvable(Vertices(n), Val, B)
    BY <2>3, <2>4, NetFlowExists
  <2> QED
    BY <2>5 DEF Val, Solvable
<1>5. PICK f \in [V -> Nat] : \A v \in V : f[v] = TimeBody(n, f, v)
  BY <1>1, <1>4
<1>6. f = [v \in V |-> TimeBody(n, f, v)]
  BY <1>5
<1> DEFINE a == CHOOSE k : k = [v \in V |-> TimeBody(n, k, v)]
<1>7. a = [v \in V |-> TimeBody(n, a, v)]
  BY <1>6
<1>8. at = a
  BY DEF Timing, TimeBody
<1>9. at = [v \in V |-> TimeBody(n, at, v)]
  BY <1>7, <1>8
<1>10. \A v \in V : at[v] = TimeBody(n, at, v)
  BY <1>9
<1> DEFINE S == {v \in V : at[v] \in Nat}
<1>11. ASSUME NEW v \in V, Fanins(n, v) \subseteq S
       PROVE  v \in S
  BY <1>10, <1>11, TimeBodyIs
<1>12. \A v \in V : v \in S
  <2> HIDE DEF S
  <2> QED
    BY <1>11, FromFanins
<1> QED
  BY <1>9, <1>10, <1>12

----------------------------------------------------------------------------
(* Critical paths: a vertex of one reads the vertex before it. *)
IsPath(n, p) ==
  /\ p \in Seq(Vertices(n)) /\ Len(p) >= 1
  /\ \A i \in 2 .. Len(p) :
       \/ p[i - 1] \in Fanins(n, p[i])
       \/ i = 2 /\ p[1] = p[2] /\ p[2] \in n.node /\ Fanins(n, p[2]) = {}

PathTo(n, p, v) == IsPath(n, p) /\ p[Len(p)] = v

LEMMA PathStarts ==
  ASSUME NEW n, NEW v \in Vertices(n), NEW p,
         p = <<v>> \/ (p = <<v, v>> /\ v \in n.node /\ Fanins(n, v) = {})
  PROVE  PathTo(n, p, v)
<1>1. CASE p = <<v>>
  BY <1>1 DEF IsPath, PathTo
<1>2. CASE p = <<v, v>> /\ v \in n.node /\ Fanins(n, v) = {}
  BY <1>2 DEF IsPath, PathTo
<1> QED
  BY <1>1, <1>2

LEMMA PathExtends ==
  ASSUME NEW n, NEW q, NEW u, PathTo(n, q, u), NEW v \in Vertices(n), u \in Fanins(n, v),
         NEW p, p = Append(q, v)
  PROVE  PathTo(n, p, v)
<1>1. q \in Seq(Vertices(n)) /\ Len(q) >= 1 /\ Len(q) \in Nat /\ q[Len(q)] = u /\ IsPath(n, q)
  BY DEF IsPath, PathTo
<1>2. p \in Seq(Vertices(n)) /\ Len(p) = Len(q) + 1 /\ p[Len(p)] = v
  BY <1>1
<1>3. \A i \in 1 .. Len(q) : p[i] = q[i]
  BY <1>1
<1>4. ASSUME NEW i \in 2 .. Len(p)
      PROVE  \/ p[i - 1] \in Fanins(n, p[i])
             \/ i = 2 /\ p[1] = p[2] /\ p[2] \in n.node /\ Fanins(n, p[2]) = {}
  <2>1. CASE i \in 2 .. Len(q)
    <3>1. i - 1 \in 1 .. Len(q) /\ i \in 1 .. Len(q) /\ 1 \in 1 .. Len(q)
      BY <1>1, <2>1
    <3>2. /\ p[i - 1] = q[i - 1] /\ p[i] = q[i] /\ p[1] = q[1]
          /\ i = 2 => p[2] = q[2]
      BY <1>3, <3>1
    <3> QED
      BY <1>1, <2>1, <3>2 DEF IsPath
  <2>2. CASE i = Len(q) + 1
    <3>1. i - 1 = Len(q) /\ Len(q) \in 1 .. Len(q)
      BY <1>1, <2>2
    <3> QED
      BY <1>1, <1>2, <1>3, <2>2, <3>1
  <2> QED
    BY <1>1, <1>2, <2>1, <2>2
<1> QED
  BY <1>1, <1>2, <1>4 DEF IsPath, PathTo

(* The fanin that a node waits for is one of its fanins. *)
LEMMA LatestIs ==
  ASSUME NEW n, IsNetwork(n), NEW at \in [Vertices(n) -> Nat], NEW v \in n.node, n.fanin[v] # <<>>
  PROVE  Latest(n, at, v) \in Fanins(n, v)
<1> DEFINE f == DOMAIN n.fanin[v]
           wait == [i \in f |-> at[n.fanin[v][i]] + EdgeDelay(n, n.fanin[v][i], v)]
           W == {i \in f : \A j \in f : wait[j] <= wait[i]}
           A == {wait[i] : i \in f}
<1>1. n.fanin[v] \in Seq(Vertices(n)) /\ f = 1 .. Len(n.fanin[v]) /\ Len(n.fanin[v]) \in Nat
  BY Typed
<1>2. f # {}
  <2>1. Len(n.fanin[v]) # 0
    BY <1>1, EmptySeq
  <2>2. 1 \in f
    BY <1>1, <2>1
  <2> QED
    BY <2>2
<1>3. \A i \in f : wait[i] \in Int
  BY SMTT(30), <1>1 DEF EdgeDelay
<1>4. IsFiniteSet(f)
  BY <1>1, FS_Interval
<1>5. IsFiniteSet(A)
  <2>1. wait \in Surjection(f, A)
    BY DEF Surjection
  <2> QED
    BY <1>4, <2>1, FS_Surjection
<1>6. A \in SUBSET Int /\ A # {}
  BY <1>2, <1>3
<1>7. PICK x \in A : \A y \in A : x >= y
  <2> HIDE DEF A
  <2> QED
    BY <1>5, <1>6, Greatest
<1>8. W # {}
  <2>1. PICK i \in f : x = wait[i]
    BY <1>7
  <2>2. \A j \in f : wait[j] \in A
    OBVIOUS
  <2>3. \A j \in f : wait[j] <= wait[i]
    <3> HIDE DEF A, wait
    <3> QED
      BY <1>3, <1>7, <2>1, <2>2
  <2> QED
    BY <2>3
<1>9. W \in SUBSET Nat
  BY <1>1
<1>10. Min(W) \in W
  <2> HIDE DEF W
  <2> QED
    BY <1>8, <1>9, LeastIn
<1>11. Latest(n, at, v) = n.fanin[v][Min(W)]
  <2>1. W = {i \in f : \A j \in f : at[n.fanin[v][j]] + EdgeDelay(n, n.fanin[v][j], v)
                                  <= at[n.fanin[v][i]] + EdgeDelay(n, n.fanin[v][i], v)}
    OBVIOUS
  <2> HIDE DEF W
  <2> QED
    BY <2>1 DEF Latest
<1>12. Min(W) \in f
  BY <1>10
<1> HIDE DEF W, wait, A
<1> QED
  BY <1>11, <1>12 DEF Fanins, ToSet

TraceBody(n, at, g, v) ==
  IF v \in n.pi THEN <<v>>
  ELSE IF n.fanin[v] = <<>> THEN <<v, v>> ELSE Append(g[Latest(n, at, v)], v)

(* What critical_path returns is a path. *)
LEMMA PathsAre ==
  ASSUME NEW n, IsNetwork(n), Acyclic(n), NEW p \in CriticalPaths(n)
  PROVE  IsPath(n, p)
<1> DEFINE V == Vertices(n)
           at == Timing(n)
           Val == Seq(V)
           B == [v \in V |-> [g \in [V -> Val] |-> TraceBody(n, at, g, v)]]
<1>1. at \in [V -> Nat]
  BY TimingIs
<1> HIDE DEF at
<1>2. /\ \A v \in V : Fanins(n, v) \subseteq V
      /\ \A v \in V : v \in n.pi \/ v \in n.node
  BY FaninsTyped DEF Vertices
<1>3. \A v \in V : v \notin n.pi /\ n.fanin[v] # <<>> => Latest(n, at, v) \in Fanins(n, v)
  BY <1>1, <1>2, LatestIs
<1>4. \A v \in V, g \in [V -> Val] : B[v][g] = TraceBody(n, at, g, v)
  OBVIOUS
<1>5. \A v \in V, g \in [V -> Val] : B[v][g] \in Val
  <2> SUFFICES ASSUME NEW v \in V, NEW g \in [V -> Val]
               PROVE  TraceBody(n, at, g, v) \in Val
    BY <1>4
  <2>1. CASE v \in n.pi
    BY <2>1 DEF TraceBody
  <2>2. CASE v \notin n.pi /\ n.fanin[v] = <<>>
    BY <2>2 DEF TraceBody
  <2>3. CASE v \notin n.pi /\ n.fanin[v] # <<>>
    <3>1. Latest(n, at, v) \in V
      BY <1>2, <1>3, <2>3
    <3>2. g[Latest(n, at, v)] \in Seq(V)
      BY <3>1
    <3> QED
      BY <2>3, <3>2 DEF TraceBody
  <2> QED
    BY <2>1, <2>2, <2>3
<1>6. \A v \in V, g, h \in [V -> Val] :
        (\A u \in Fanins(n, v) : g[u] = h[u]) => B[v][g] = B[v][h]
  BY <1>3, <1>4 DEF TraceBody
<1>7. Val # {}
  <2>1. <<>> \in Val
    OBVIOUS
  <2> QED
    BY <2>1
<1>8. Solvable(Vertices(n), Val, B)
  <2> HIDE DEF B, Val
  <2>1. NetFlow(n, Val, B)
    BY <1>5, <1>6 DEF NetFlow
  <2> QED
    BY <1>7, <2>1, NetFlowExists
<1>9. PICK f \in [V -> Val] : \A v \in V : f[v] = TraceBody(n, at, f, v)
  <2> HIDE DEF B, Val
  <2> QED
    BY <1>4, <1>8 DEF Solvable
<1>10. f = [v \in V |-> TraceBody(n, at, f, v)]
  BY <1>9
<1> DEFINE trace == CHOOSE k : k = [v \in V |-> TraceBody(n, at, k, v)]
<1>11. trace = [v \in V |-> TraceBody(n, at, trace, v)]
  BY <1>10
<1>12. PICK v \in ToSet(n.po) : p = trace[v]
  BY DEF CriticalPaths, TraceBody, at
<1> HIDE DEF trace
<1>13. v \in V
  BY Typed DEF ToSet
<1> DEFINE S == {x \in V : PathTo(n, trace[x], x)}
<1>14. ASSUME NEW x \in V, Fanins(n, x) \subseteq S
       PROVE  x \in S
  <2>1. trace[x] = TraceBody(n, at, trace, x)
    BY <1>11
  <2>2. CASE x \in n.pi
    BY <2>1, <2>2, PathStarts DEF TraceBody
  <2>3. CASE x \notin n.pi /\ n.fanin[x] = <<>>
    <3>1. x \in n.node /\ Fanins(n, x) = {}
      BY <1>2, <2>3 DEF Fanins, ToSet
    <3> QED
      BY <2>1, <2>3, <3>1, PathStarts DEF TraceBody
  <2>4. CASE x \notin n.pi /\ n.fanin[x] # <<>>
    <3>1. Latest(n, at, x) \in Fanins(n, x) /\ Latest(n, at, x) \in S
      BY <1>3, <1>14, <2>4
    <3> DEFINE q == trace[Latest(n, at, x)]
    <3>2. PathTo(n, q, Latest(n, at, x))
      BY <3>1
    <3>3. trace[x] = Append(q, x)
      BY <2>1, <2>4 DEF TraceBody
    <3> HIDE DEF q
    <3>4. PathTo(n, trace[x], x)
      BY <3>1, <3>2, <3>3, PathExtends
    <3> QED
      BY <3>4
  <2> QED
    BY <2>2, <2>3, <2>4
<1>15. \A x \in V : x \in S
  <2> HIDE DEF S
  <2> QED
    BY <1>14, FromFanins
<1> QED
  BY <1>12, <1>13, <1>15 DEF PathTo

(* A network without cycles has no path that returns. *)
LEMMA PathReturns ==
  ASSUME NEW n, Acyclic(n), NEW p, NEW i \in Nat, NEW j \in Nat, i < j, p[i] = p[j],
         \A k \in i + 1 .. j : p[k - 1] \in Fanins(n, p[k])
  PROVE  FALSE
<1> DEFINE S == {p[k] : k \in i + 1 .. j}
<1>1. \A k \in i + 1 .. j : p[k] \in n.node
  BY DEF Fanins
<1>2. j \in i + 1 .. j
  OBVIOUS
<1>3. S \in SUBSET n.node /\ S # {}
  BY <1>1, <1>2
<1>4. PICK k \in i + 1 .. j : Fanins(n, p[k]) \cap S = {}
  BY ZenonT(30), <1>3 DEF Acyclic
<1>5. p[k - 1] \in S
  <2>1. CASE k = i + 1
    BY <1>2, <2>1
  <2>2. CASE k # i + 1
    BY <2>2
  <2> QED
    BY <2>1, <2>2
<1> QED
  BY <1>4, <1>5

LEMMA PathNodesAre ==
  ASSUME NEW n, IsNetwork(n), NEW p, IsPath(n, p)
  PROVE  /\ p \in Seq(Vertices(n)) /\ Len(p) \in Nat /\ Len(p) >= 1
         /\ \A k \in 1 .. Len(p) : p[k] \in Vertices(n)
         /\ \A k \in 2 .. Len(p) : p[k] \in n.node
         /\ \A k \in 3 .. Len(p) : p[k - 1] \in Fanins(n, p[k])
<1>1. p \in Seq(Vertices(n)) /\ Len(p) \in Nat /\ Len(p) >= 1
  BY DEF IsPath
<1>2. \A k \in 1 .. Len(p) : p[k] \in Vertices(n)
  BY <1>1
<1>3. ASSUME NEW k \in 2 .. Len(p)
      PROVE  p[k] \in n.node
  BY DEF IsPath, Fanins
<1>4. ASSUME NEW k \in 3 .. Len(p)
      PROVE  p[k - 1] \in Fanins(n, p[k])
  <2>1. k \in 2 .. Len(p) /\ k # 2
    BY <1>1
  <2> QED
    BY <2>1 DEF IsPath
<1> QED
  BY <1>1, <1>2, <1>3, <1>4

(* The crossings of a path *)
Crossings(n, p) == {k \in 2 .. Len(p) : Crosses(n, p[k - 1], p[k])}

LEMMA HopsAre ==
  ASSUME NEW n, NEW p, Len(p) \in Nat
  PROVE  /\ PathHops(n, p) = Cardinality(Crossings(n, p)) /\ IsFiniteSet(Crossings(n, p))
         /\ PathHops(n, p) \in Nat
<1>1. PathHops(n, p) = Cardinality(Crossings(n, p))
  BY DEF PathHops, Crossings
<1>2. Crossings(n, p) \subseteq 2 .. Len(p)
  BY DEF Crossings
<1>3. IsFiniteSet(2 .. Len(p))
  BY FS_Interval
<1>4. IsFiniteSet(Crossings(n, p))
  BY <1>2, <1>3, FS_Subset
<1> QED
  BY <1>1, <1>4, FS_CardinalityType

(* q is p with d in place i. *)
Rerouted(q, p, i, d) == Len(q) = Len(p) /\ q[i] = d /\ \A k \in 1 .. Len(p) : k # i => q[k] = p[k]

(* The duplicate of a start that reads nothing does not shorten the path:   *)
(* the path crosses to the duplicate what it crossed from the node.         *)
LEMMA StartCopied ==
  ASSUME NEW n, IsNetwork(n), NEW p, IsPath(n, p), NEW u, p[1] = u, p[2] = u, 3 <= Len(p),
         NEW w, w = p[3], n.part[u] # NoPart, Foreign(n.part[w], n.part[u]),
         NEW m, IsCopy(m, n, u, n.part[w]), NEW q, Rerouted(q, p, 2, n.max)
  PROVE  PathHops(m, q) = PathHops(n, p)
<1> DEFINE A == Crossings(n, p)
           C == Crossings(m, q)
<1>1. /\ p \in Seq(Vertices(n)) /\ Len(p) \in Nat /\ 3 \in 1 .. Len(p)
      /\ \A k \in 1 .. Len(p) : p[k] \in Vertices(n)
  BY PathNodesAre
<1>2. Len(q) = Len(p) /\ q[2] = n.max /\ \A k \in 1 .. Len(p) : k # 2 => q[k] = p[k]
  BY DEF Rerouted
<1>3. /\ m.part[n.max] = n.part[w] /\ \A v \in Vertices(n) : m.part[v] = n.part[v]
  BY DEF IsCopy
<1>4. /\ 3 \in A /\ 2 \notin A /\ 3 \notin C /\ 2 \in C
  <2>1. 3 \in 2 .. Len(p) /\ 2 \in 2 .. Len(p) /\ 1 \in 1 .. Len(p) /\ 3 - 1 = 2 /\ 2 - 1 = 1
    BY <1>1
  <2>2. 3 \in A
    BY <2>1 DEF Crossings, Crosses, Foreign
  <2>3. 2 \notin A
    BY <2>1 DEF Crossings, Crosses, Foreign
  <2>4. q[1] = u /\ q[2] = n.max /\ q[3] = w /\ u \in Vertices(n) /\ w \in Vertices(n)
    BY <1>1, <1>2, <2>1
  <2>5. m.part[u] = n.part[u] /\ m.part[w] = n.part[w]
    BY <1>3, <2>4
  <2>6. 3 \notin C
    BY <1>3, <2>1, <2>4, <2>5 DEF Crossings, Crosses, Foreign
  <2>7. 2 \in C
    BY <1>2, <1>3, <2>1, <2>4, <2>5 DEF Crossings, Crosses, Foreign
  <2> QED
    BY <2>2, <2>3, <2>6, <2>7
<1>5. ASSUME NEW k \in 4 .. Len(p)
      PROVE  k \in A <=> k \in C
  <2>1. k - 1 \in 1 .. Len(p) /\ k \in 1 .. Len(p) /\ k # 2 /\ k - 1 # 2 /\ k \in 2 .. Len(p)
    BY <1>1
  <2>2. q[k] = p[k] /\ q[k - 1] = p[k - 1] /\ p[k] \in Vertices(n) /\ p[k - 1] \in Vertices(n)
    BY <1>1, <1>2, <2>1
  <2> QED
    BY <1>2, <1>3, <2>1, <2>2 DEF Crossings, Crosses, Foreign
<1>6. /\ \A k \in A : k \in 2 .. Len(p)
      /\ \A k \in C : k \in 2 .. Len(p)
  BY <1>2 DEF Crossings
<1>7. \A k \in 2 .. Len(p) : k = 2 \/ k = 3 \/ k \in 4 .. Len(p)
  BY <1>1
<1> HIDE DEF A, C
<1>8. A \ {3} = C \ {2}
  BY <1>4, <1>5, <1>6, <1>7
<1>9. IsFiniteSet(A) /\ IsFiniteSet(C)
  BY <1>1, <1>2, HopsAre DEF A, C
<1>10. Cardinality(A \ {3}) = Cardinality(A) - 1 /\ Cardinality(C \ {2}) = Cardinality(C) - 1
  BY <1>4, <1>9, FS_RemoveElement
<1>11. Cardinality(A) \in Nat /\ Cardinality(C) \in Nat
  BY <1>9, FS_CardinalityType
<1>12. Cardinality(A) = Cardinality(C)
  <2>1. Cardinality(A \ {3}) = Cardinality(C \ {2})
    BY <1>8
  <2> QED
    BY <1>10, <1>11, <2>1
<1> QED
  BY <1>1, <1>2, <1>12, HopsAre DEF A, C

(* A duplicate that shortens the path is on a path. *)
LEMMA CopyOnPath ==
  ASSUME NEW n, IsNetwork(n), Acyclic(n), NEW p, IsPath(n, p), NEW i \in 2 .. Len(p) - 1,
         NEW u, u = p[i], NEW w, w = p[i + 1], n.part[u] # NoPart, Foreign(n.part[w], n.part[u]),
         NEW m, IsCopy(m, n, u, n.part[w]), NEW q, q = [p EXCEPT ![i] = n.max],
         PathHops(m, q) < PathHops(n, p)
  PROVE  IsPath(m, q)
<1> DEFINE R == ReadersIn(n, u, n.part[w])
           d == n.max
           OnPath(k) == \/ q[k - 1] \in Fanins(m, q[k])
                        \/ k = 2 /\ q[1] = q[2] /\ q[2] \in m.node /\ Fanins(m, q[2]) = {}
<1>1. /\ p \in Seq(Vertices(n)) /\ Len(p) \in Nat /\ Len(p) >= 1
      /\ \A k \in 1 .. Len(p) : p[k] \in Vertices(n)
      /\ \A k \in 2 .. Len(p) : p[k] \in n.node
      /\ \A k \in 3 .. Len(p) : p[k - 1] \in Fanins(n, p[k])
  BY PathNodesAre
<1>2. i \in 2 .. Len(p) /\ i + 1 \in 3 .. Len(p) /\ i \in 1 .. Len(p) /\ i \in Nat /\ (i + 1) - 1 = i
  BY <1>1
<1>3. u \in n.node
  BY <1>1, <1>2
<1>4. Len(q) = Len(p) /\ q[i] = d /\ \A k \in 1 .. Len(p) : k # i => q[k] = p[k]
  BY <1>1, <1>2
<1>5. m.node = n.node \cup {d} /\ Vertices(m) = Vertices(n) \cup {d}
  BY DEF IsCopy
<1>6. q \in Seq(Vertices(m))
  BY <1>1, <1>5
<1>7. Fanins(m, d) = Fanins(n, u)
  BY <1>3, CopyFanins
<1>8. \A v \in n.node \ R : Fanins(m, v) = Fanins(n, v)
  BY <1>3, CopyFanins
<1>9. \A v \in R : Fanins(m, v) = (Fanins(n, v) \ {u}) \cup {d}
  BY <1>3, CopyFanins
<1>10. R = {v \in n.node : u \in Fanins(n, v) /\ n.part[v] = n.part[w]}
  BY DEF ReadersIn, Fanouts
<1>11. ASSUME i = 2, p[1] = p[2]
       PROVE  FALSE
  <2>1. /\ p[2] = u /\ p[1] = u /\ w = p[3] /\ 3 <= Len(p)
        /\ Rerouted(q, p, 2, n.max)
    BY <1>2, <1>4, <1>11 DEF Rerouted
  <2>2. PathHops(m, q) = PathHops(n, p)
    BY <2>1, StartCopied
  <2>3. PathHops(n, p) \in Nat
    BY <1>1, HopsAre
  <2> QED
    BY <2>2, <2>3
<1> HIDE DEF R, d
<1>12. ASSUME NEW k \in 2 .. Len(p)
       PROVE  OnPath(k)
  <2>0. k \in 1 .. Len(p) /\ k - 1 \in 1 .. Len(p) /\ k \in Nat
    BY <1>1
  <2>1. CASE k = i
    <3>1. q[k] = d /\ q[k - 1] = p[k - 1]
      BY <1>4, <2>0, <2>1
    <3>2. p[k - 1] \in Fanins(n, u)
      BY <1>11, <2>1 DEF IsPath
    <3> QED
      BY <1>7, <3>1, <3>2
  <2>2. CASE k = i + 1
    <3>1. q[k - 1] = d /\ q[k] = w
      BY <1>2, <1>4, <2>0, <2>2
    <3>2. w \in R
      BY <1>1, <1>2, <1>10, <2>0, <2>2
    <3> QED
      BY <1>9, <3>1, <3>2
  <2>3. CASE k # i /\ k # i + 1
    <3>1. q[k] = p[k] /\ q[k - 1] = p[k - 1] /\ p[k] \in n.node
      BY <1>1, <1>2, <1>4, <2>0, <2>3
    <3>2. CASE p[k - 1] \in Fanins(n, p[k])
      <4>1. CASE p[k] \notin R
        BY <1>8, <3>1, <3>2, <4>1
      <4>2. CASE p[k] \in R
        <5>1. p[k - 1] # u
          <6> SUFFICES ASSUME p[k - 1] = p[i]
                       PROVE  FALSE
            OBVIOUS
          <6>1. k - 1 \in Nat /\ k - 1 # i
            BY <1>2, <2>0, <2>3
          <6>2. CASE k - 1 < i
            <7>1. \A j \in (k - 1) + 1 .. i : p[j - 1] \in Fanins(n, p[j])
              <8> TAKE j \in (k - 1) + 1 .. i
              <8>1. j = k \/ j \in 3 .. Len(p)
                BY <1>2, <2>0
              <8> QED
                BY <1>1, <3>2, <8>1
            <7> QED
              BY <1>2, <6>1, <6>2, <7>1, PathReturns
          <6>3. CASE i < k - 1
            <7>1. \A j \in i + 1 .. k - 1 : p[j - 1] \in Fanins(n, p[j])
              <8> TAKE j \in i + 1 .. k - 1
              <8>1. j \in 3 .. Len(p)
                BY <1>2, <2>0
              <8> QED
                BY <1>1, <8>1
            <7> QED
              BY <1>2, <6>1, <6>3, <7>1, PathReturns
          <6> QED
            BY <1>2, <6>1, <6>2, <6>3
        <5> QED
          BY <1>9, <3>1, <3>2, <4>2, <5>1
      <4> QED
        BY <4>1, <4>2
    <3>3. CASE p[k - 1] \notin Fanins(n, p[k])
      <4>1. k = 2 /\ p[1] = p[2] /\ Fanins(n, p[2]) = {}
        BY <3>3 DEF IsPath
      <4>2. p[2] \notin R
        BY <1>10, <4>1
      <4> QED
        BY <1>5, <1>8, <3>1, <4>1, <4>2
    <3> QED
      BY <3>2, <3>3
  <2> QED
    BY <2>1, <2>2, <2>3
<1> QED
  BY <1>1, <1>4, <1>6, <1>12 DEF IsPath

----------------------------------------------------------------------------
LEMMA RelabelledIs ==
  ASSUME NEW n, IsNetwork(n), NEW q, NEW l, \A i \in DOMAIN l : l[i] \in Nat \cup {NoPart},
         NEW m, m = Relabelled(n, q, l)
  PROVE  IsReparted(m, n)
<1> DEFINE r == [v \in DOMAIN n.part |->
                  IF \E i \in DOMAIN l : q[i] = v THEN l[CHOOSE i \in DOMAIN l : q[i] = v] ELSE n.part[v]]
<1>1. DOMAIN n.part = Vertices(n) /\ \A v \in Vertices(n) : n.part[v] \in Nat \cup {NoPart}
  BY DEF IsNetwork
<1>2. r \in [Vertices(n) -> Nat \cup {NoPart}]
  <2> SUFFICES ASSUME NEW v \in Vertices(n)
               PROVE  (IF \E i \in DOMAIN l : q[i] = v THEN l[CHOOSE i \in DOMAIN l : q[i] = v]
                                                      ELSE n.part[v]) \in Nat \cup {NoPart}
    BY <1>1
  <2>1. CASE \E i \in DOMAIN l : q[i] = v
    <3>1. (CHOOSE i \in DOMAIN l : q[i] = v) \in DOMAIN l
      BY <2>1
    <3> QED
      BY <2>1, <3>1
  <2>2. CASE ~ \E i \in DOMAIN l : q[i] = v
    BY <1>1, <2>2
  <2> QED
    BY <2>1, <2>2
<1>3. m = [n EXCEPT !.part = r]
  BY DEF Relabelled
<1> HIDE DEF r
<1> QED
  BY <1>2, <1>3, RepartNetwork DEF IsReparted

(* A move of a segment keeps to the parts of the path. *)
LEMMA MovesAre ==
  ASSUME NEW n, IsNetwork(n), NEW p, IsPath(n, p), NEW k \in SegmentMoves(n, p)
  PROVE  IsReparted(k.net, n) /\ CutNets(k.net) <= MaxCut
<1> DEFINE q == PathNodes(n, p)
<1>1. q \in Seq(Vertices(n))
  BY DEF PathNodes, IsPath
<1> HIDE DEF q
<1>2. PICK s \in InnerSegments(n, q) : \E l \in Shapes(n, q, s) : k = Evaluated(n, p, q, s, l)
  BY DEF SegmentMoves, q
<1>3. PICK l \in Shapes(n, q, s) : k = Evaluated(n, p, q, s, l)
  BY <1>2
<1>4. s[1] \in 2 .. Len(q) /\ s[2] \in 2 .. Len(q)
  BY DEF InnerSegments, Borders
<1> DEFINE from == n.part[q[s[1] - 1]]
           to == n.part[q[s[2]]]
<1>5. from \in Nat \cup {NoPart} /\ to \in Nat \cup {NoPart}
  <2>1. q[s[1] - 1] \in Vertices(n) /\ q[s[2]] \in Vertices(n)
    BY <1>1, <1>4
  <2> QED
    BY <2>1, Typed
<1>6. \A i \in DOMAIN l.part : l.part[i] = from \/ l.part[i] = to
  <2> DEFINE D == s[1] .. s[2] - 1
             half == s[1] + (s[2] - s[1]) \div 2
  <2>1. \/ l = [kind |-> 0, part |-> [i \in D |-> from]]
        \/ l = [kind |-> 1, part |-> [i \in D |-> to]]
        \/ l = [kind |-> 2, part |-> [i \in D |-> IF i < half THEN from ELSE to]]
    BY Zenon DEF Shapes
  <2> HIDE DEF D, half, from, to
  <2>2. CASE l = [kind |-> 0, part |-> [i \in D |-> from]]
    BY <2>2
  <2>3. CASE l = [kind |-> 1, part |-> [i \in D |-> to]]
    BY <2>3
  <2>4. CASE l = [kind |-> 2, part |-> [i \in D |-> IF i < half THEN from ELSE to]]
    <3>1. l.part = [i \in D |-> IF i < half THEN from ELSE to]
      BY <2>4
    <3> QED
      BY <3>1
  <2> QED
    BY <2>1, <2>2, <2>3, <2>4
<1> HIDE DEF from, to
<1>7. \A i \in DOMAIN l.part : l.part[i] \in Nat \cup {NoPart}
  BY <1>5, <1>6
<1>8. k.net = Relabelled(n, q, l.part)
  BY <1>3 DEF Evaluated
<1>9. CutNets(k.net) <= MaxCut
  BY DEF SegmentMoves
<1> QED
  BY <1>7, <1>8, <1>9, RelabelledIs

----------------------------------------------------------------------------

----------------------------------------------------------------------------
(* What a duplicate does to arrivals: it arrives at most one crossing later *)
(* than its node, and its readers no longer wait for that crossing.         *)
Arrives(n, at) == at \in [Vertices(n) -> Nat] /\ \A v \in Vertices(n) : at[v] = TimeBody(n, at, v)

LEMMA TimingArrives ==
  ASSUME NEW n, IsNetwork(n), Acyclic(n)
  PROVE  Arrives(n, Timing(n))
BY TimingIs DEF Arrives

LEMMA TimingOnly ==
  ASSUME NEW n, IsNetwork(n), Acyclic(n), NEW f, Arrives(n, f), NEW g, Arrives(n, g)
  PROVE  f = g
<1> DEFINE S == {v \in Vertices(n) : f[v] = g[v]}
<1>1. ASSUME NEW v \in Vertices(n), Fanins(n, v) \subseteq S
      PROVE  v \in S
  <2>1. \A u \in Fanins(n, v) : f[u] = g[u]
    BY <1>1
  <2>2. TimeBody(n, f, v) = TimeBody(n, g, v)
    BY <2>1, TimeBodySame
  <2> QED
    BY <2>2 DEF Arrives
<1>2. \A v \in Vertices(n) : v \in S
  <2> HIDE DEF S
  <2> QED
    BY <1>1, FromFanins
<1> QED
  BY <1>2 DEF Arrives

LEMMA TimingSame ==
  ASSUME NEW n, IsNetwork(n), Acyclic(n), NEW m, IsNetwork(m), Same(m, n)
  PROVE  Timing(m) = Timing(n)
<1>1. m.pi = n.pi /\ m.node = n.node /\ m.fanin = n.fanin /\ m.part = n.part /\ Vertices(m) = Vertices(n)
  BY DEF Same, Vertices
<1>2. Acyclic(m)
  BY <1>1, AcyclicSame
<1> DEFINE f == Timing(m)
<1>3. Arrives(m, f)
  BY <1>2, TimingArrives
<1>4. \A u, v : EdgeDelay(m, u, v) = EdgeDelay(n, u, v)
  BY <1>1 DEF EdgeDelay, Crosses
<1>5. \A v : Fanins(m, v) = Fanins(n, v)
  BY <1>1 DEF Fanins
<1> HIDE DEF f
<1>6. \A v : TimeBody(m, f, v) = TimeBody(n, f, v)
  <2> TAKE v
  <2>1. {f[u] + EdgeDelay(m, u, v) : u \in Fanins(m, v)} = {f[u] + EdgeDelay(n, u, v) : u \in Fanins(n, v)}
    BY <1>4, <1>5
  <2> QED
    BY <1>1, <2>1 DEF TimeBody
<1>7. Arrives(n, f)
  BY <1>1, <1>3, <1>6 DEF Arrives
<1>8. Arrives(n, Timing(n))
  BY TimingArrives
<1>9. f = Timing(n)
  BY <1>7, <1>8, TimingOnly
<1> QED
  BY <1>9 DEF f

LEMMA CopyArrives ==
  ASSUME NEW n, IsNetwork(n), Acyclic(n), NEW u \in n.node, NEW p, n.part[u] # NoPart,
         Foreign(p, n.part[u]), NEW m, IsNetwork(m), Acyclic(m), IsCopy(m, n, u, p)
  PROVE  \A v \in Vertices(n) : v \in Vertices(m) /\ Timing(m)[v] <= Timing(n)[v]
<1> DEFINE d == n.max
           R == ReadersIn(n, u, p)
           f == Timing(n)
           g == Timing(m)
           S == {v \in Vertices(m) : IF v = d THEN g[d] <= f[u] + 200 ELSE g[v] <= f[v]}
<1>1. /\ f \in [Vertices(n) -> Nat] /\ g \in [Vertices(m) -> Nat]
      /\ \A v \in Vertices(n) : f[v] = TimeBody(n, f, v)
      /\ \A v \in Vertices(m) : g[v] = TimeBody(m, g, v)
  BY TimingArrives DEF Arrives
<1>2. /\ m.node = n.node \cup {d} /\ m.pi = n.pi /\ Vertices(m) = Vertices(n) \cup {d} /\ d \notin Vertices(n)
      /\ \A v \in Vertices(n) : m.part[v] = n.part[v]
      /\ m.part[d] = p
  BY DEF IsCopy
<1>3. Fanins(m, d) = Fanins(n, u)
  BY CopyFanins
<1>4. \A v \in n.node \ R : Fanins(m, v) = Fanins(n, v)
  BY CopyFanins
<1>5. \A v \in R : Fanins(m, v) = (Fanins(n, v) \ {u}) \cup {d}
  BY CopyFanins
<1>6. \A v \in R : v \in n.node /\ u \in Fanins(n, v) /\ n.part[v] = p
  BY DEF ReadersIn, Fanouts
<1>7. /\ \A v \in n.node : v \in Vertices(n) /\ v \notin n.pi
      /\ \A v \in Vertices(n) : v \notin n.pi => v \in n.node
      /\ \A v \in Vertices(n) : Fanins(n, v) \subseteq Vertices(n)
      /\ d \notin n.pi
  BY <1>2, Typed, FaninsTyped DEF Vertices
<1>8. \A v \in Vertices(m) : Fanins(m, v) \subseteq Vertices(m)
  BY FaninsTyped
<1> HIDE DEF d, R, f, g
<1>9. ASSUME NEW v \in Vertices(m), Fanins(m, v) \subseteq S
      PROVE  v \in S
  <2>1. \A x \in Fanins(m, v) : g[x] \in Nat
    BY <1>1, <1>8
  <2>2. CASE v = d
    <3>1. \A x \in Fanins(n, u) : f[x] \in Nat /\ x \in Vertices(n) /\ x # d
      BY <1>1, <1>2, <1>7
    <3>2. \A x \in Fanins(n, u) : 1 + f[x] + EdgeDelay(n, x, u) <= f[u]
      BY <1>1, <1>7, <3>1, TimeBodyIs
    <3>3. \/ g[d] = 1
          \/ \E x \in Fanins(n, u) : g[d] = 1 + g[x] + EdgeDelay(m, x, d)
      <4>1. d \in Vertices(m) /\ d \notin m.pi
        BY <1>2, <1>7
      <4>2. g[d] = TimeBody(m, g, d)
        BY <1>1, <4>1
      <4>3. \A x \in Fanins(m, d) : g[x] \in Nat
        BY <2>1, <2>2
      <4>4. \/ g[d] = 1
            \/ \E x \in Fanins(m, d) : g[d] = 1 + g[x] + EdgeDelay(m, x, d)
        BY <4>1, <4>2, <4>3, TimeBodyIs
      <4> QED
        BY <1>3, <4>4
    <3>4. f[u] \in Nat
      BY <1>1, <1>7
    <3>5. ASSUME NEW x \in Fanins(n, u), g[d] = 1 + g[x] + EdgeDelay(m, x, d)
          PROVE  g[d] <= f[u] + 200
      <4>1. g[x] <= f[x] /\ g[x] \in Nat /\ f[x] \in Nat
        BY <1>3, <1>9, <2>1, <2>2, <3>1
      <4>2. EdgeDelay(m, x, d) \in Nat /\ EdgeDelay(m, x, d) <= 200 /\ EdgeDelay(n, x, u) \in Nat
        BY DEF EdgeDelay
      <4>3. 1 + f[x] + EdgeDelay(n, x, u) <= f[u]
        BY <3>2
      <4> QED
        BY <3>4, <3>5, <4>1, <4>2, <4>3
    <3>6. g[d] <= f[u] + 200
      BY <3>3, <3>4, <3>5
    <3> QED
      BY <2>2, <3>6
  <2>3. CASE v # d
    <3>1. v \in Vertices(n)
      BY <1>2, <2>3
    <3>2. f[v] \in Nat /\ g[v] \in Nat
      BY <1>1, <3>1
    <3>3. CASE v \in n.pi
      <4>1. f[v] = 0 /\ g[v] = 0
        BY <1>1, <1>2, <3>1, <3>3 DEF TimeBody
      <4> QED
        BY <2>3, <4>1
    <3>4. CASE v \notin n.pi
      <4>1. \A x \in Fanins(n, v) : f[x] \in Nat /\ x \in Vertices(n) /\ x # d
        BY <1>1, <1>2, <1>7, <3>1
      <4>2. /\ \A x \in Fanins(n, v) : 1 + f[x] + EdgeDelay(n, x, v) <= f[v]
            /\ f[v] >= 1
        <5>1. /\ \A x \in Fanins(n, v) : 1 + f[x] + EdgeDelay(n, x, v) <= f[v]
              /\ f[v] = 1 \/ \E x \in Fanins(n, v) : f[v] = 1 + f[x] + EdgeDelay(n, x, v)
          BY <1>1, <3>1, <3>4, <4>1, TimeBodyIs
        <5>2. \A x \in Fanins(n, v) : EdgeDelay(n, x, v) \in Nat
          BY DEF EdgeDelay
        <5> QED
          BY <4>1, <5>1, <5>2
      <4>3. \/ g[v] = 1
            \/ \E x \in Fanins(m, v) : g[v] = 1 + g[x] + EdgeDelay(m, x, v)
        BY <1>1, <1>2, <2>1, <3>4, TimeBodyIs
      <4>4. ASSUME NEW x \in Fanins(m, v), g[v] = 1 + g[x] + EdgeDelay(m, x, v)
            PROVE  g[v] <= f[v]
        <5>1. x \in S /\ g[x] \in Nat
          BY <1>9, <2>1
        <5>2. CASE x = d
          <6>1. v \in R
            BY <1>4, <1>7, <3>1, <3>4, <4>1, <5>2
          <6>2. EdgeDelay(m, d, v) = 0
            BY <1>2, <1>6, <3>1, <6>1 DEF EdgeDelay, Crosses, Foreign
          <6>3. EdgeDelay(n, u, v) = 200
            BY <1>6, <6>1 DEF EdgeDelay, Crosses, Foreign
          <6>4. g[d] <= f[u] + 200 /\ f[u] \in Nat
            BY <1>1, <1>7, <5>1, <5>2
          <6>5. 1 + f[u] + 200 <= f[v]
            BY <1>6, <4>2, <6>1, <6>3
          <6> QED
            BY <3>2, <4>4, <5>1, <5>2, <6>2, <6>4, <6>5
        <5>3. CASE x # d
          <6>1. x \in Fanins(n, v)
            BY <1>4, <1>5, <1>7, <3>1, <3>4, <5>3
          <6>2. EdgeDelay(m, x, v) = EdgeDelay(n, x, v) /\ EdgeDelay(n, x, v) \in Nat
            BY <1>2, <3>1, <4>1, <6>1 DEF EdgeDelay, Crosses
          <6>3. g[x] <= f[x] /\ f[x] \in Nat
            BY <4>1, <5>1, <5>3, <6>1
          <6>4. 1 + f[x] + EdgeDelay(n, x, v) <= f[v]
            BY <4>2, <6>1
          <6> QED
            BY <3>2, <4>4, <5>1, <6>2, <6>3, <6>4
        <5> QED
          BY <5>2, <5>3
      <4>5. g[v] <= f[v]
        BY <3>2, <4>2, <4>3, <4>4
      <4> QED
        BY <2>3, <4>5
    <3> QED
      BY <3>3, <3>4
  <2> QED
    BY <2>2, <2>3
<1>10. \A v \in Vertices(m) : v \in S
  <2> HIDE DEF S
  <2> QED
    BY <1>9, FromFanins
<1>11. \A v \in Vertices(n) : v \in Vertices(m) /\ g[v] <= f[v]
  BY <1>2, <1>10
<1> QED
  BY <1>11 DEF f, g

(* What it does to functions: the duplicate is true when its node is. *)
LEMMA CopyTrue ==
  ASSUME NEW n, IsNetwork(n), Acyclic(n), NEW u \in n.node, NEW p,
         NEW m, IsNetwork(m), Acyclic(m), IsCopy(m, n, u, p), NEW a
  PROVE  \A v \in Vertices(n) : v \in TrueAt(m, a) <=> v \in TrueAt(n, a)
<1> DEFINE d == n.max
           R == ReadersIn(n, u, p)
           T == TrueAt(n, a)
           U == {v \in Vertices(m) : IF v = d THEN u \in T ELSE v \in T}
<1>1. IsTruth(n, a, T)
  BY TruthIs
<1>2. /\ m.node = n.node \cup {d} /\ m.pi = n.pi /\ Vertices(m) = Vertices(n) \cup {d}
      /\ d \notin Vertices(n) /\ u \in Vertices(n)
      /\ m.fanin[d] = n.fanin[u] /\ m.truth[d] = n.truth[u]
      /\ \A v \in n.node : m.truth[v] = n.truth[v]
      /\ u \notin n.pi /\ d \notin n.pi /\ n.pi \subseteq Vertices(n)
      /\ \A v \in Vertices(n) : v \notin n.pi => v \in n.node
  BY Typed DEF IsCopy, Vertices
<1>3. \A v \in n.node : /\ DOMAIN m.fanin[v] = DOMAIN n.fanin[v]
                        /\ \A i \in DOMAIN n.fanin[v] :
                             m.fanin[v][i] = (IF v \in R /\ n.fanin[v][i] = u THEN d ELSE n.fanin[v][i])
  BY CopyFanins
<1>4. \A v \in n.node : \A i \in DOMAIN n.fanin[v] : n.fanin[v][i] \in Vertices(n)
  <2>1. \A v \in n.node : n.fanin[v] \in Seq(Vertices(n))
    BY Typed
  <2> QED
    BY <2>1
<1> HIDE DEF d, R, T
<1>5. d \in U <=> u \in T
  BY <1>2
<1>6. \A v \in Vertices(n) : v \in U <=> v \in T
  BY <1>2
<1> HIDE DEF U
<1>7. U \subseteq Vertices(m)
  BY DEF U
<1>8. ASSUME NEW v \in Vertices(m)
      PROVE  v \in U <=> Decides(m, a, U, v)
  <2>1. CASE v = d
    <3>1. {i \in DOMAIN m.fanin[d] : m.fanin[d][i] \in U} = {i \in DOMAIN n.fanin[u] : n.fanin[u][i] \in T}
      BY <1>2, <1>4, <1>6
    <3>2. u \in T <=> Decides(n, a, T, u)
      BY <1>1, <1>2 DEF IsTruth
    <3> QED
      BY <1>2, <1>5, <2>1, <3>1, <3>2 DEF Decides
  <2>2. CASE v \in n.pi
    <3>1. v \in T <=> v \in a
      BY <1>1, <1>2, <2>2 DEF IsTruth, Decides
    <3> QED
      BY <1>2, <1>6, <2>2, <3>1 DEF Decides
  <2>3. CASE v # d /\ v \notin n.pi
    <3>1. v \in n.node /\ v \in Vertices(n)
      BY <1>2, <2>3
    <3>2. \A i \in DOMAIN n.fanin[v] : m.fanin[v][i] \in U <=> n.fanin[v][i] \in T
      BY <1>3, <1>4, <1>5, <1>6, <3>1
    <3>3. {i \in DOMAIN m.fanin[v] : m.fanin[v][i] \in U} = {i \in DOMAIN n.fanin[v] : n.fanin[v][i] \in T}
      BY <1>3, <3>1, <3>2
    <3>4. v \in T <=> Decides(n, a, T, v)
      BY <1>1, <3>1 DEF IsTruth
    <3> QED
      BY <1>2, <1>6, <2>3, <3>1, <3>3, <3>4 DEF Decides
  <2> QED
    BY <2>1, <2>2, <2>3
<1>9. IsTruth(m, a, U)
  BY <1>7, <1>8 DEF IsTruth
<1>10. IsTruth(m, a, TrueAt(m, a))
  BY TruthIs
<1>11. U = TrueAt(m, a)
  BY <1>9, <1>10, TruthOnly
<1> QED
  BY <1>6, <1>11 DEF T

(* The outputs of m compute those of n and no vertex of n is later in m. *)
NoWorse(m, n) ==
  /\ Outputs(m) = Outputs(n)
  /\ \A v \in Vertices(n) : v \in Vertices(m) /\ Timing(m)[v] <= Timing(n)[v]

LEMMA CopyNoWorse ==
  ASSUME NEW n, IsNetwork(n), Acyclic(n), NEW u \in n.node, NEW p, n.part[u] # NoPart,
         Foreign(p, n.part[u]), NEW m, IsNetwork(m), Acyclic(m), IsCopy(m, n, u, p)
  PROVE  NoWorse(m, n)
<1>1. m.pi = n.pi /\ m.po = n.po
  BY DEF IsCopy
<1>2. n.po \in Seq(Vertices(n))
  BY DEF IsNetwork
<1>3. \A o \in DOMAIN n.po : n.po[o] \in Vertices(n)
  BY <1>2
<1>4. \A a \in SUBSET n.pi : \A o \in DOMAIN n.po : n.po[o] \in TrueAt(m, a) <=> n.po[o] \in TrueAt(n, a)
  BY <1>3, CopyTrue
<1>5. Outputs(m) = Outputs(n)
  BY <1>1, <1>4, OutputsEqual
<1> QED
  BY <1>5, CopyArrives DEF NoWorse

LEMMA SameNoWorse ==
  ASSUME NEW n, IsNetwork(n), Acyclic(n), NEW m, IsNetwork(m), Same(m, n)
  PROVE  NoWorse(m, n)
<1>1. Outputs(m) = Outputs(n) /\ Timing(m) = Timing(n)
  BY OutputsSame, TimingSame
<1>2. Vertices(m) = Vertices(n)
  BY DEF Same, Vertices
<1>3. \A v \in Vertices(n) : Timing(n)[v] \in Nat
  BY TimingArrives DEF Arrives
<1> QED
  BY <1>1, <1>2, <1>3 DEF NoWorse

LEMMA NoWorseTwice ==
  ASSUME NEW k, IsNetwork(k), Acyclic(k), NEW m, IsNetwork(m), Acyclic(m), NEW n, IsNetwork(n), Acyclic(n),
         NoWorse(k, m), NoWorse(m, n)
  PROVE  NoWorse(k, n)
<1>1. /\ \A v \in Vertices(k) : Timing(k)[v] \in Nat
      /\ \A v \in Vertices(m) : Timing(m)[v] \in Nat
      /\ \A v \in Vertices(n) : Timing(n)[v] \in Nat
  BY TimingArrives DEF Arrives
<1>2. /\ Outputs(k) = Outputs(m) /\ Outputs(m) = Outputs(n)
      /\ \A v \in Vertices(m) : v \in Vertices(k) /\ Timing(k)[v] <= Timing(m)[v]
      /\ \A v \in Vertices(n) : v \in Vertices(m) /\ Timing(m)[v] <= Timing(n)[v]
  BY DEF NoWorse
<1>3. ASSUME NEW v \in Vertices(n)
      PROVE  v \in Vertices(k) /\ Timing(k)[v] <= Timing(n)[v]
  <2>1. v \in Vertices(m) /\ v \in Vertices(k) /\ Timing(k)[v] <= Timing(m)[v] /\ Timing(m)[v] <= Timing(n)[v]
    BY <1>2
  <2>2. Timing(k)[v] \in Nat /\ Timing(m)[v] \in Nat /\ Timing(n)[v] \in Nat
    BY <1>1, <2>1
  <2> QED
    BY <2>1, <2>2
<1> QED
  BY <1>2, <1>3 DEF NoWorse

----------------------------------------------------------------------------
(* The inductive invariant *)
CfgType == [moves : Nat, moveStall : Nat, copies : Nat, copyStall : Nat, growth : Nat,
            cutsize : Int, balance : Int, parts : Int, pct : Int]

NetInv == IsNetwork(net) /\ Acyclic(net) /\ IsNetwork(first) /\ IsNetwork(before) /\ Acyclic(before)

StateInv ==
  /\ cfg \in CfgType /\ stall \in Nat /\ round \in Nat
  /\ step \in {"relocate", "replicate", "walk", "repair", "done"}
  /\ step = "relocate" => round <= cfg.moves
  /\ step # "relocate" => round <= cfg.copies
  /\ step = "walk" => round < cfg.copies

(* The duplicates counted are the nodes added. *)
CountInv ==
  /\ extra \in Nat /\ extra <= MaxExtra
  /\ extra = Cardinality(net.node) - Cardinality(first.node)

CapInv == step \in {"relocate", "replicate"} => CutNets(net) <= MaxCut

(* What a round remembers of the network is true of it. *)
WalkInv ==
  step = "walk" =>
    /\ IsPath(net, path) /\ Len(path) >= 2 /\ idx \in 2 .. Len(path)
    /\ hops = PathHops(net, path) /\ cuts = CutDrivers(net)

(* The ledger leads back to where the round started. *)
LedgerInv ==
  step = "walk" =>
    /\ ledger = [i \in 1 .. Len(ledger) |-> ledger[i]] /\ Len(ledger) \in 0 .. extra
    /\ Cardinality(net.node) = Cardinality(before.node) + Len(ledger)
    /\ \E H : Retraces(H, ledger, before, net)

IdleInv == step # "walk" => path = <<>> /\ idx = 0 /\ hops = 0 /\ cuts = {} /\ ledger = <<>>

EndInv ==
  step = "done" =>
    Balanced(net, Sizes(net, NumParts), MaxAllowed(Sizes(net, NumParts), BalancePct(cfg)))

IInv ==
  /\ NetInv /\ StateInv /\ CountInv /\ CapInv
  /\ WalkInv /\ LedgerInv /\ IdleInv /\ EndInv

LEMMA ConfigIs ==
  ASSUME cfg \in CfgType
  PROVE  /\ cfg.moves \in Nat /\ cfg.moveStall \in Nat /\ cfg.copies \in Nat /\ cfg.copyStall \in Nat
         /\ cfg.growth \in Nat /\ cfg.cutsize \in Int /\ cfg.balance \in Int /\ cfg.parts \in Int
         /\ cfg.pct \in Int /\ BalancePct(cfg) \in Nat
BY DEF CfgType, BalancePct

LEMMA LimitsAre ==
  ASSUME cfg \in CfgType, IsNetwork(first)
  PROVE  /\ MaxExtra \in Nat /\ MaxCut \in Int /\ CutNets(first) <= MaxCut /\ NumParts \in Nat /\ NumParts >= 1
         /\ Cardinality(first.node) \in Nat
<1>1. cfg.growth \in Nat /\ cfg.cutsize \in Int /\ cfg.parts \in Int
  BY ConfigIs
<1>2. Cardinality(first.node) \in Nat
  BY VerticesFinite, FS_CardinalityType
<1>3. MaxExtra \in Nat
  <2> DEFINE a == Cardinality(first.node)
             b == a * cfg.growth
  <2>1. b \in Nat
    <3> HIDE DEF a
    <3>1. a \in Nat
      BY <1>2 DEF a
    <3> QED
      BY <1>1, <3>1
  <2> HIDE DEF b
  <2>2. b \div 100 \in Nat
    BY <2>1
  <2> QED
    BY <2>2 DEF b, MaxExtra
<1>4. MaxCut \in Int /\ CutNets(first) <= MaxCut
  <2> DEFINE a == CutNets(first)
             d == 100 + cfg.cutsize
             b == (a * d) \div 100
  <2>1. a \in Int
    BY CutsAre
  <2>2. b \in Int
    <3>1. d \in Int
      BY <1>1
    <3> HIDE DEF a, d
    <3>2. a * d \in Int
      BY <2>1, <3>1
    <3> DEFINE z == a * d
    <3> HIDE DEF z
    <3>3. z \div 100 \in Int
      BY <3>2 DEF z
    <3> QED
      BY <3>3 DEF z
  <2>3. MaxCut = Max({a, b})
    BY DEF MaxCut
  <2> HIDE DEF a, b
  <2>4. MaxCut \in Int /\ a <= MaxCut
    BY <2>1, <2>2, <2>3, MaxOfTwo
  <2> QED
    BY <2>4 DEF a
<1>5. NumParts \in Nat /\ NumParts >= 1
  BY <1>1, PartsAre DEF NumParts
<1> QED
  BY <1>2, <1>3, <1>4, <1>5

LEMMA Starts ==
  Init => IInv
<1> SUFFICES ASSUME Init
             PROVE  IInv
  OBVIOUS
<1>1. PICK i \in Inputs : net = i.net /\ cfg = i.cfg
  BY DEF Init
<1>2. /\ first = net /\ before = net /\ step = "relocate" /\ round = 0 /\ stall = 0
      /\ path = <<>> /\ idx = 0 /\ hops = 0 /\ cuts = {} /\ ledger = <<>> /\ extra = 0
  BY DEF Init
<1>3. IsNetwork(net) /\ Acyclic(net) /\ cfg \in CfgType
  BY <1>1, InputsAssumption DEF CfgType
<1>4. NetInv
  BY <1>2, <1>3 DEF NetInv
<1>5. StateInv
  BY <1>2, <1>3, ConfigIs DEF StateInv
<1>6. CountInv /\ CapInv
  BY <1>2, <1>3, LimitsAre DEF CountInv, CapInv
<1>7. WalkInv /\ LedgerInv /\ IdleInv /\ EndInv
  BY <1>2 DEF WalkInv, LedgerInv, IdleInv, EndInv
<1> QED
  BY <1>4, <1>5, <1>6, <1>7 DEF IInv

----------------------------------------------------------------------------
(* The steps *)
LEMMA LimitsStay ==
  ASSUME first' = first, cfg' = cfg
  PROVE  MaxExtra' = MaxExtra /\ MaxCut' = MaxCut /\ NumParts' = NumParts
BY DEF MaxExtra, MaxCut, NumParts

(* A step that leaves the network and the limits alone, outside a round *)
LEMMA QuietStep ==
  ASSUME IInv, step # "walk", step' # "walk", step' # "done", UNCHANGED <<net, cfg, first, before, extra>>,
         UNCHANGED <<path, idx, hops, cuts, ledger>>, StateInv', CapInv'
  PROVE  IInv'
<1>1. NetInv'
  BY DEF IInv, NetInv
<1>2. CountInv'
  BY LimitsStay DEF IInv, CountInv
<1>3. WalkInv' /\ LedgerInv' /\ EndInv'
  BY DEF WalkInv, LedgerInv, EndInv
<1>4. IdleInv'
  BY DEF IInv, IdleInv
<1> QED
  BY <1>1, <1>2, <1>3, <1>4 DEF IInv

LEMMA RelocateSteps ==
  ASSUME IInv, Relocate
  PROVE  IInv'
<1>1. PICK p \in CriticalPaths(net) : \E k \in SegmentMoves(net, p) : net' = k.net
  BY DEF Relocate
<1>2. PICK k \in SegmentMoves(net, p) : net' = k.net
  BY <1>1
<1>3. IsNetwork(net) /\ Acyclic(net)
  BY DEF IInv, NetInv
<1>4. IsPath(net, p)
  BY <1>3, PathsAre
<1>5. IsReparted(net', net) /\ CutNets(net') <= MaxCut
  BY <1>2, <1>3, <1>4, MovesAre
<1>6. /\ step = "relocate" /\ step' = "relocate" /\ round' = round + 1 /\ round < cfg.moves /\ stall' = 0
      /\ UNCHANGED <<path, idx, hops, cuts, ledger>> /\ UNCHANGED <<cfg, extra, first, before>>
  BY DEF Relocate, Walkless
<1>7. NetInv'
  BY <1>3, <1>5, <1>6, RepartedAcyclic DEF IInv, NetInv, IsReparted
<1>8. StateInv'
  BY <1>6, ConfigIs DEF IInv, StateInv
<1>9. CountInv'
  BY <1>5, <1>6, LimitsStay DEF IInv, CountInv, IsReparted
<1>10. CapInv'
  BY <1>5, <1>6, LimitsStay DEF CapInv
<1>11. WalkInv' /\ LedgerInv' /\ EndInv'
  BY <1>6 DEF WalkInv, LedgerInv, EndInv
<1>12. IdleInv'
  BY <1>6 DEF IInv, IdleInv
<1> QED
  BY <1>7, <1>8, <1>9, <1>10, <1>11, <1>12 DEF IInv

LEMMA OtherRelocations ==
  ASSUME IInv, NoMove \/ EndRelocate
  PROVE  IInv'
<1>1. /\ step = "relocate" /\ step' # "walk" /\ step' # "done"
      /\ UNCHANGED <<net, cfg, first, before, extra>> /\ UNCHANGED <<path, idx, hops, cuts, ledger>>
      /\ step' \in {"relocate", "replicate"}
  BY DEF NoMove, EndRelocate, Walkless
<1>2. StateInv'
  <2>1. CASE NoMove
    BY <2>1, ConfigIs DEF IInv, StateInv, NoMove
  <2>2. CASE EndRelocate
    BY <2>2, ConfigIs DEF IInv, StateInv, EndRelocate
  <2> QED
    BY <2>1, <2>2
<1>3. CapInv'
  BY <1>1, LimitsStay DEF IInv, CapInv
<1> QED
  BY <1>1, <1>2, <1>3, QuietStep

LEMMA StartSteps ==
  ASSUME IInv, StartRound
  PROVE  IInv'
<1>1. PICK p \in CriticalPaths(net) : PathHops(net, p) > 0 /\ path' = p /\ hops' = PathHops(net, p)
  BY DEF StartRound
<1>2. /\ step = "replicate" /\ step' = "walk" /\ round < cfg.copies /\ idx' = 2
      /\ cuts' = CutDrivers(net) /\ ledger' = <<>> /\ before' = net
      /\ UNCHANGED <<net, cfg, round, stall, extra, first>>
  BY DEF StartRound
<1>3. IsNetwork(net) /\ Acyclic(net) /\ IsNetwork(first)
  BY DEF IInv, NetInv
<1>4. IsPath(net, p)
  BY <1>3, PathsAre
<1>5. Len(p) \in Nat /\ Len(p) >= 2
  <2>1. Len(p) \in Nat /\ Len(p) >= 1
    BY <1>3, <1>4, PathNodesAre
  <2>2. Crossings(net, p) # {}
    BY <1>1, <2>1, HopsAre, FS_EmptySet
  <2>3. PICK k \in 2 .. Len(p) : TRUE
    BY <2>2 DEF Crossings
  <2> QED
    BY <2>1, <2>3
<1>6. NetInv'
  BY <1>2, <1>3 DEF NetInv
<1>7. StateInv'
  BY <1>2, ConfigIs DEF IInv, StateInv
<1>8. CountInv' /\ CapInv'
  BY <1>2, LimitsStay DEF IInv, CountInv, CapInv
<1>9. WalkInv'
  BY <1>1, <1>2, <1>4, <1>5 DEF WalkInv
<1>10. LedgerInv'
  <2>1. Cardinality(net.node) \in Nat
    BY <1>3, VerticesFinite, FS_CardinalityType
  <2> DEFINE H == [k \in {0} |-> net]
  <2>2. ledger' = [i \in 1 .. Len(ledger') |-> ledger'[i]] /\ Len(ledger') = 0
    BY <1>2
  <2>3. Retraces(H, ledger', net, net)
    <3>1. H[0] = net
      OBVIOUS
    <3> HIDE DEF H
    <3>2. Same(net, net) /\ net.max \in Nat
      BY <1>3, SameRefl DEF IsNetwork
    <3> QED
      BY <1>3, <2>2, <3>1, <3>2 DEF Retraces
  <2>4. \E G : Retraces(G, ledger', before', net')
    <3> HIDE DEF H
    <3> QED
      BY <1>2, <2>3
  <2>5. Cardinality(net'.node) = Cardinality(before'.node) + Len(ledger')
    BY <1>2, <2>1, <2>2
  <2>6. Len(ledger') \in 0 .. extra'
    BY <1>2, <2>2 DEF IInv, CountInv
  <2> QED
    BY <2>2, <2>4, <2>5, <2>6 DEF LedgerInv
<1>11. IdleInv' /\ EndInv'
  BY <1>2 DEF IdleInv, EndInv
<1> QED
  BY <1>6, <1>7, <1>8, <1>9, <1>10, <1>11 DEF IInv

LEMMA AppendForm ==
  ASSUME NEW S, NEW L \in Seq(S), NEW e, NEW K, K = Append(L, e)
  PROVE  Len(K) = Len(L) + 1 /\ K = [i \in 1 .. Len(K) |-> K[i]]
<1>1. K \in Seq(S \cup {e}) /\ Len(K) = Len(L) + 1
  OBVIOUS
<1>2. K \in [1 .. Len(K) -> S \cup {e}]
  BY <1>1, LenProperties
<1>3. K = [i \in 1 .. Len(K) |-> K[i]]
  BY <1>2
<1> QED
  BY <1>1, <1>3

LEMMA LedgerGrows ==
  ASSUME NEW n, IsNetwork(n), NEW L, L = [i \in 1 .. Len(L) |-> L[i]], Len(L) \in Nat, NEW b,
         NEW H, Retraces(H, L, b, n), NEW u \in n.node, NEW p, NEW m, IsNetwork(m), IsCopy(m, n, u, p),
         NEW e, e.obj = u, e.dup = n.max, e.readers = ReadersIn(n, u, p), NEW K, K = Append(L, e)
  PROVE  \E G : Retraces(G, K, b, m)
<1> DEFINE l == Len(L)
           G == [k \in 0 .. l + 1 |-> IF k = l + 1 THEN m ELSE H[k]]
<1>1. Len(K) = l + 1 /\ K[l + 1] = e /\ \A k \in 1 .. l : K[k] = L[k]
  <2>1. L \in Seq({L[i] : i \in 1 .. Len(L)})
    BY SeqDef
  <2> QED
    BY <2>1
<1>2. l \in Nat /\ G[l + 1] = m /\ \A k \in 0 .. l : G[k] = H[k]
  OBVIOUS
<1> HIDE DEF l, G
<1>3. Same(H[0], b) /\ Same(n, H[l])
  BY DEF Retraces, l
<1>4. \A k \in 0 .. l : IsNetwork(H[k]) /\ H[k].max <= n.max
  BY DEF Retraces, l
<1>5. \A k \in 1 .. l : L[k].obj \in Vertices(H[k]) /\ Same(Undone(H[k], L[k]), H[k - 1])
  BY DEF Retraces, l
<1>6. m.max = n.max + 1 /\ n.max \in Nat /\ u \in Vertices(m)
  BY DEF IsCopy, IsNetwork, Vertices
<1>7. Same(Undone(m, e), H[l])
  BY <1>3, CopyUndone, SameTwice
<1>8. \A k \in 0 .. l + 1 : IsNetwork(G[k]) /\ G[k].max <= m.max
  <2> TAKE k \in 0 .. l + 1
  <2>1. CASE k = l + 1
    BY <1>2, <1>6, <2>1
  <2>2. CASE k \in 0 .. l
    <3>1. H[k].max \in Nat
      BY <1>4, <2>2 DEF IsNetwork
    <3> QED
      BY <1>2, <1>4, <1>6, <2>2, <3>1
  <2> QED
    BY <1>2, <2>1, <2>2
<1>9. \A k \in 1 .. l + 1 : K[k].obj \in Vertices(G[k]) /\ Same(Undone(G[k], K[k]), G[k - 1])
  <2> TAKE k \in 1 .. l + 1
  <2>1. CASE k = l + 1
    <3>1. k - 1 = l /\ l \in 0 .. l
      BY <1>2, <2>1
    <3> QED
      BY <1>1, <1>2, <1>6, <1>7, <2>1, <3>1
  <2>2. CASE k \in 1 .. l
    <3>1. k \in 0 .. l /\ k - 1 \in 0 .. l
      BY <1>2, <2>2
    <3> QED
      BY <1>1, <1>2, <1>5, <2>2, <3>1
  <2>3. k = l + 1 \/ k \in 1 .. l
    BY <1>2
  <2> QED
    BY <2>1, <2>2, <2>3
<1>10. Same(G[0], b)
  BY <1>2, <1>3
<1>11. Same(m, G[l + 1])
  BY <1>2, SameRefl
<1>12. Retraces(G, K, b, m)
  BY <1>1, <1>8, <1>9, <1>10, <1>11 DEF Retraces
<1> QED
  BY <1>12

LEMMA ReplicateSteps ==
  ASSUME IInv, Replicate
  PROVE  IInv'
<1> DEFINE u == path[idx]
           w == path[idx + 1]
           n == Copied(net, u, net.part[w])
           p == [path EXCEPT ![idx] = net.max]
           e == [obj |-> u, dup |-> net.max, readers |-> CopyReaders(net, u, net.part[w])]
<1>1. /\ step = "walk" /\ idx < Len(path) /\ extra < MaxExtra
      /\ MayCopy(u, w) /\ PathHops(n, p) < hops
      /\ net' = n /\ path' = p /\ hops' = PathHops(n, p) /\ cuts' = CutsOf(n)
      /\ ledger' = Append(ledger, e) /\ extra' = extra + 1 /\ idx' = idx + 1
      /\ UNCHANGED <<cfg, step, round, stall, arrival, first, before>>
  BY DEF Replicate, Walking
<1>2. /\ IsNetwork(net) /\ Acyclic(net) /\ IsNetwork(first) /\ IsNetwork(before) /\ Acyclic(before)
      /\ IsPath(net, path) /\ Len(path) >= 2 /\ idx \in 2 .. Len(path)
      /\ hops = PathHops(net, path)
  BY <1>1 DEF IInv, NetInv, WalkInv
<1>3. /\ \A k \in 1 .. Len(path) : path[k] \in Vertices(net)
      /\ \A k \in 2 .. Len(path) : path[k] \in net.node
      /\ Len(path) \in Nat /\ path \in Seq(Vertices(net))
  BY <1>2, PathNodesAre
<1>4. idx \in 2 .. Len(path) - 1 /\ idx + 1 \in 1 .. Len(path)
  BY <1>1, <1>2, <1>3
<1>5. u \in net.node /\ w \in Vertices(net)
  BY <1>2, <1>3, <1>4
<1>6. net.part[w] \in Nat \cup {NoPart}
  BY <1>2, <1>5, Typed
<1>7. IsCopy(n, net, u, net.part[w]) /\ IsNetwork(n)
  BY <1>2, <1>5, <1>6, CopiedIs
<1>8. net.part[u] # NoPart /\ Foreign(net.part[w], net.part[u])
  BY <1>1 DEF MayCopy
<1>9. Len(p) = Len(path)
  BY <1>3
<1>10. e.obj = u /\ e.dup = net.max /\ e.readers = ReadersIn(net, u, net.part[w])
  BY DEF CopyReaders
<1> HIDE DEF u, w, n, e
<1>11. Acyclic(n)
  BY <1>2, <1>5, <1>7, CopyAcyclic
<1>12. IsPath(n, p)
  BY <1>1, <1>2, <1>4, <1>7, <1>8, CopyOnPath DEF u, w
<1> HIDE DEF p
<1>13. n.node = net.node \cup {net.max} /\ net.max \notin net.node
  BY <1>7 DEF IsCopy, Vertices
<1>14. /\ Cardinality(n.node) = Cardinality(net.node) + 1 /\ Cardinality(net.node) \in Nat
       /\ Cardinality(first.node) \in Nat /\ Cardinality(before.node) \in Nat
  BY <1>2, <1>13, VerticesFinite, FS_AddElement, FS_CardinalityType
<1>15. NetInv'
  BY <1>1, <1>2, <1>7, <1>11 DEF NetInv
<1>16. StateInv'
  BY <1>1 DEF IInv, StateInv
<1>17. MaxExtra \in Nat /\ MaxExtra' = MaxExtra
  BY <1>1, <1>2, LimitsAre, LimitsStay DEF IInv, StateInv
<1>18. CountInv'
  <2>1. extra \in Nat /\ extra = Cardinality(net.node) - Cardinality(first.node)
    BY DEF IInv, CountInv
  <2>2. extra + 1 \in Nat /\ extra + 1 <= MaxExtra
    BY <1>1, <1>17, <2>1
  <2>3. extra + 1 = Cardinality(n.node) - Cardinality(first.node)
    BY <1>14, <2>1
  <2> QED
    BY <1>1, <1>17, <2>2, <2>3 DEF CountInv
<1>19. CapInv' /\ IdleInv' /\ EndInv'
  BY <1>1 DEF CapInv, IdleInv, EndInv
<1>20. WalkInv'
  <2>1. idx + 1 \in 2 .. Len(p) /\ Len(p) >= 2
    BY <1>2, <1>3, <1>4, <1>9
  <2> QED
    BY <1>1, <1>12, <2>1 DEF WalkInv, CutsOf
<1>21. LedgerInv'
  <2>1. /\ ledger = [i \in 1 .. Len(ledger) |-> ledger[i]] /\ Len(ledger) \in 0 .. extra
        /\ Cardinality(net.node) = Cardinality(before.node) + Len(ledger)
        /\ \E H : Retraces(H, ledger, before, net)
    BY <1>1 DEF IInv, LedgerInv
  <2>2. extra \in Nat
    BY DEF IInv, CountInv
  <2>3. Len(ledger) \in Nat
    BY <2>1, <2>2
  <2> DEFINE K == Append(ledger, e)
  <2>4. Len(K) = Len(ledger) + 1 /\ K = [i \in 1 .. Len(K) |-> K[i]]
    <3>1. ledger \in Seq({ledger[i] : i \in 1 .. Len(ledger)})
      BY <2>1, <2>3, SeqDef
    <3> QED
      BY <3>1, AppendForm
  <2>5. \E G : Retraces(G, K, before, n)
    <3>1. PICK H : Retraces(H, ledger, before, net)
      BY <2>1
    <3> QED
      BY <1>2, <1>5, <1>7, <1>10, <2>1, <2>3, <3>1, LedgerGrows
  <2> HIDE DEF K
  <2>6. Len(K) \in 0 .. extra + 1
    BY <2>1, <2>2, <2>3, <2>4
  <2>7. Cardinality(n.node) = Cardinality(before.node) + Len(K)
    BY <1>14, <2>1, <2>3, <2>4
  <2>8. ledger' = K
    BY <1>1 DEF K
  <2> QED
    BY <1>1, <2>4, <2>5, <2>6, <2>7, <2>8 DEF LedgerInv
<1> QED
  BY <1>15, <1>16, <1>18, <1>19, <1>20, <1>21 DEF IInv

LEMMA PathSame ==
  ASSUME NEW n, NEW m, Same(m, n), NEW p, IsPath(n, p)
  PROVE  IsPath(m, p) /\ PathHops(m, p) = PathHops(n, p)
<1>1. m.node = n.node /\ m.fanin = n.fanin /\ m.part = n.part /\ Vertices(m) = Vertices(n)
  BY DEF Same, Vertices
<1>2. \A v : Fanins(m, v) = Fanins(n, v)
  BY <1>1 DEF Fanins
<1>3. \A u, v : Crosses(m, u, v) = Crosses(n, u, v)
  BY <1>1 DEF Crosses
<1>4. IsPath(m, p)
  BY <1>1, <1>2 DEF IsPath
<1>5. PathHops(m, p) = PathHops(n, p)
  BY <1>3 DEF PathHops
<1> QED
  BY <1>4, <1>5

LEMMA LedgerLater ==
  ASSUME NEW n, IsNetwork(n), NEW L, NEW b, NEW H, Retraces(H, L, b, n),
         NEW m, Same(m, n), m.max \in Nat, m.max >= n.max
  PROVE  Retraces(H, L, b, m)
<1>1. Same(H[0], b) /\ Same(n, H[Len(L)])
  BY DEF Retraces
<1>2. Same(m, H[Len(L)])
  BY <1>1, SameTwice
<1>3. \A k \in 0 .. Len(L) : IsNetwork(H[k]) /\ H[k].max <= m.max
  <2> TAKE k \in 0 .. Len(L)
  <2>1. IsNetwork(H[k]) /\ H[k].max <= n.max
    BY DEF Retraces
  <2>2. H[k].max \in Nat /\ n.max \in Nat
    BY <2>1 DEF IsNetwork
  <2> QED
    BY <2>1, <2>2
<1>4. \A k \in 1 .. Len(L) : L[k].obj \in Vertices(H[k]) /\ Same(Undone(H[k], L[k]), H[k - 1])
  BY DEF Retraces
<1> QED
  BY <1>1, <1>2, <1>3, <1>4 DEF Retraces

LEMMA PassOverSteps ==
  ASSUME IInv, PassOver
  PROVE  IInv'
<1>1. /\ step = "walk" /\ idx < Len(path) /\ idx' = idx + 1
      /\ net' = net \/ net' = [net EXCEPT !.max = @ + 1]
      /\ UNCHANGED <<cfg, step, round, stall, path, hops, cuts, ledger, extra, arrival, first, before>>
  BY DEF PassOver, Walking
<1>2. /\ IsNetwork(net) /\ Acyclic(net) /\ IsNetwork(first) /\ IsNetwork(before) /\ Acyclic(before)
      /\ IsPath(net, path) /\ Len(path) >= 2 /\ idx \in 2 .. Len(path)
      /\ hops = PathHops(net, path) /\ cuts = CutDrivers(net)
  BY <1>1 DEF IInv, NetInv, WalkInv
<1>3. Same(net', net) /\ IsNetwork(net') /\ net'.max \in Nat /\ net'.max >= net.max
  <2>1. net.max \in Nat
    BY <1>2 DEF IsNetwork
  <2>2. CASE net' = net
    BY <1>2, <2>1, <2>2, SameRefl
  <2>3. CASE net' = [net EXCEPT !.max = @ + 1]
    <3>1. net' = [net EXCEPT !.max = net.max + 1]
      BY <2>3
    <3>2. net.max + 1 \in Nat /\ net.max + 1 >= net.max
      BY <2>1
    <3>3. Same(net', net) /\ IsNetwork(net') /\ net'.max = net.max + 1
      BY <1>2, <3>1, <3>2, LaterSame
    <3> QED
      BY <3>2, <3>3
  <2> QED
    BY <1>1, <2>2, <2>3
<1>4. net'.node = net.node /\ net'.fanin = net.fanin /\ net'.part = net.part
  BY <1>3 DEF Same
<1>5. NetInv'
  BY <1>1, <1>2, <1>3, <1>4, AcyclicSame DEF NetInv
<1>6. StateInv'
  BY <1>1 DEF IInv, StateInv
<1>7. CountInv'
  BY <1>1, <1>4, LimitsStay DEF IInv, CountInv
<1>8. CapInv' /\ IdleInv' /\ EndInv'
  BY <1>1 DEF CapInv, IdleInv, EndInv
<1>9. WalkInv'
  <2>1. IsPath(net', path) /\ PathHops(net', path) = PathHops(net, path)
    BY <1>2, <1>3, PathSame
  <2>2. CutDrivers(net') = CutDrivers(net)
    BY <1>4, CutsSame
  <2>3. Len(path) \in Nat
    BY <1>2, PathNodesAre
  <2>4. idx + 1 \in 2 .. Len(path)
    BY <1>1, <1>2, <2>3
  <2> QED
    BY <1>1, <1>2, <2>1, <2>2, <2>4 DEF WalkInv
<1>10. LedgerInv'
  <2>1. /\ ledger = [i \in 1 .. Len(ledger) |-> ledger[i]] /\ Len(ledger) \in 0 .. extra
        /\ Cardinality(net.node) = Cardinality(before.node) + Len(ledger)
        /\ \E H : Retraces(H, ledger, before, net)
    BY <1>1 DEF IInv, LedgerInv
  <2>2. \E H : Retraces(H, ledger, before, net')
    BY <1>2, <1>3, <2>1, LedgerLater
  <2> QED
    BY <1>1, <1>4, <2>1, <2>2 DEF LedgerInv
<1> QED
  BY <1>5, <1>6, <1>7, <1>8, <1>9, <1>10 DEF IInv

(* A round that is taken back ends in the network it started from. *)
LEMMA RevertExact ==
  ASSUME IInv, step = "walk", NEW m, m = RoundReverted(net, ledger)
  PROVE  Same(m, before) /\ IsNetwork(m) /\ Acyclic(m) /\ m.max = net.max
<1>1. /\ IsNetwork(net) /\ Acyclic(before)
      /\ ledger = [i \in 1 .. Len(ledger) |-> ledger[i]] /\ Len(ledger) \in 0 .. extra /\ extra \in Nat
      /\ \E H : Retraces(H, ledger, before, net)
  BY DEF IInv, NetInv, LedgerInv, CountInv
<1>2. PICK H : Retraces(H, ledger, before, net)
  BY <1>1
<1>3. Len(ledger) \in Nat
  BY <1>1
<1>4. Same(m, before) /\ m.max = net.max
  BY <1>1, <1>2, <1>3, RevertedSame
<1>5. Same(H[0], before) /\ IsNetwork(H[0]) /\ H[0].max <= net.max
  BY <1>2, <1>3 DEF Retraces
<1>6. Same(m, H[0])
  BY <1>4, <1>5, SameBack, SameTwice
<1>7. m.max \in Nat /\ m.max >= H[0].max
  BY <1>1, <1>4, <1>5 DEF IsNetwork
<1>8. IsNetwork(m)
  BY <1>5, <1>6, <1>7, SameNetwork
<1>9. Acyclic(m)
  BY <1>1, <1>4, AcyclicSame DEF Same
<1> QED
  BY <1>4, <1>8, <1>9

LEMMA RevertSteps ==
  ASSUME IInv, RevertRound
  PROVE  IInv'
<1>1. /\ step = "walk" /\ step' = "repair" /\ net' = RoundReverted(net, ledger)
      /\ path' = <<>> /\ idx' = 0 /\ hops' = 0 /\ cuts' = {} /\ ledger' = <<>>
      /\ extra' = extra - Len(ledger) /\ UNCHANGED <<cfg, round, stall, first, before>>
  BY DEF RevertRound, RoundOver, StartRepair
<1>2. Same(net', before) /\ IsNetwork(net') /\ Acyclic(net')
  BY <1>1, RevertExact
<1>3. NetInv'
  BY <1>1, <1>2 DEF IInv, NetInv
<1>4. StateInv'
  BY <1>1 DEF IInv, StateInv
<1>5. CountInv'
  <2>1. /\ Len(ledger) \in 0 .. extra /\ Cardinality(net.node) = Cardinality(before.node) + Len(ledger)
        /\ extra \in Nat /\ extra <= MaxExtra /\ extra = Cardinality(net.node) - Cardinality(first.node)
    BY <1>1 DEF IInv, LedgerInv, CountInv
  <2>2. MaxExtra \in Nat /\ MaxExtra' = MaxExtra
    BY <1>1, LimitsAre, LimitsStay DEF IInv, NetInv, StateInv
  <2>3. Cardinality(before.node) \in Nat /\ Cardinality(first.node) \in Nat
    BY VerticesFinite, FS_CardinalityType DEF IInv, NetInv
  <2>4. net'.node = before.node /\ first' = first
    BY <1>1, <1>2 DEF Same
  <2>5. extra' \in Nat /\ extra' <= MaxExtra
    BY <1>1, <2>1, <2>2
  <2>6. extra' = Cardinality(before.node) - Cardinality(first.node)
    BY <1>1, <2>1, <2>3
  <2> QED
    BY <2>2, <2>4, <2>5, <2>6 DEF CountInv
<1>6. CapInv' /\ IdleInv' /\ EndInv' /\ WalkInv' /\ LedgerInv'
  BY <1>1 DEF CapInv, IdleInv, EndInv, WalkInv, LedgerInv
<1> QED
  BY <1>3, <1>4, <1>5, <1>6 DEF IInv

LEMMA KeepSteps ==
  ASSUME IInv, KeepRound \/ EndStuck
  PROVE  IInv'
<1>1. /\ step = "walk" /\ step' \in {"replicate", "repair"} /\ Cardinality(cuts) <= MaxCut
      /\ path' = <<>> /\ idx' = 0 /\ hops' = 0 /\ cuts' = {} /\ ledger' = <<>>
      /\ UNCHANGED <<net, cfg, extra, first, before>>
  BY DEF KeepRound, EndStuck, RoundOver, StartRepair
<1>2. NetInv'
  BY <1>1 DEF IInv, NetInv
<1>3. StateInv'
  <2>1. CASE KeepRound
    BY <1>1, <2>1, ConfigIs DEF IInv, StateInv, KeepRound
  <2>2. CASE EndStuck
    BY <1>1, <2>2 DEF IInv, StateInv, EndStuck, StartRepair
  <2> QED
    BY <2>1, <2>2
<1>4. CountInv'
  BY <1>1, LimitsStay DEF IInv, CountInv
<1>5. CapInv'
  <2>1. CutNets(net) <= MaxCut
    BY <1>1 DEF IInv, WalkInv, CutNets
  <2> QED
    BY <1>1, <2>1, LimitsStay DEF CapInv
<1>6. IdleInv' /\ EndInv' /\ WalkInv' /\ LedgerInv'
  BY <1>1 DEF IdleInv, EndInv, WalkInv, LedgerInv
<1> QED
  BY <1>2, <1>3, <1>4, <1>5, <1>6 DEF IInv

LEMMA EndReplicateSteps ==
  ASSUME IInv, EndReplicate
  PROVE  IInv'
<1>1. /\ step = "replicate" /\ step' = "repair"
      /\ path' = <<>> /\ idx' = 0 /\ hops' = 0 /\ cuts' = {} /\ ledger' = <<>>
      /\ UNCHANGED <<net, cfg, round, stall, extra, first, before>>
  BY DEF EndReplicate, StartRepair
<1>2. NetInv'
  BY <1>1 DEF IInv, NetInv
<1>3. StateInv'
  BY <1>1 DEF IInv, StateInv
<1>4. CountInv'
  BY <1>1, LimitsStay DEF IInv, CountInv
<1>5. CapInv' /\ IdleInv' /\ EndInv' /\ WalkInv' /\ LedgerInv'
  BY <1>1 DEF CapInv, IdleInv, EndInv, WalkInv, LedgerInv
<1> QED
  BY <1>2, <1>3, <1>4, <1>5 DEF IInv

LEMMA RepairSteps ==
  ASSUME IInv, Repair
  PROVE  IInv'
<1> DEFINE sz == Sizes(net, NumParts)
           D == 0 .. NumParts - 1
<1>1. PICK v \in Repairable : net' = Moved(net, v, Under(sz))
  BY DEF Repair
<1>2. /\ step = "repair" /\ step' = step
      /\ UNCHANGED <<path, idx, hops, cuts, ledger>> /\ UNCHANGED <<cfg, round, stall, extra, first, before>>
  BY DEF Repair, Walkless
<1>3. IsNetwork(net) /\ Acyclic(net) /\ NumParts \in Nat /\ NumParts >= 1
  BY LimitsAre DEF IInv, NetInv, StateInv
<1>4. D = DOMAIN sz /\ \A p \in D : sz[p] \in Nat
  BY <1>3, SizesAre
<1>5. Under(sz) \in D
  <2>1. D \in SUBSET Nat /\ 0 \in D
    BY <1>3
  <2> HIDE DEF D, sz
  <2> QED
    BY <1>4, <2>1, UnderIs
<1>6. v \in Vertices(net)
  BY DEF Repairable, Movable, NodesOf, Vertices
<1> HIDE DEF sz
<1>7. IsReparted(net', net)
  BY <1>1, <1>3, <1>5, <1>6, MovedIs
<1>8. NetInv'
  BY <1>2, <1>3, <1>7, RepartedAcyclic DEF IInv, NetInv, IsReparted
<1>9. StateInv'
  BY <1>2 DEF IInv, StateInv
<1>10. CountInv'
  BY <1>2, <1>7, LimitsStay DEF IInv, CountInv, IsReparted
<1>11. CapInv' /\ WalkInv' /\ LedgerInv' /\ EndInv'
  BY <1>2 DEF CapInv, WalkInv, LedgerInv, EndInv
<1>12. IdleInv'
  BY <1>2 DEF IInv, IdleInv
<1> QED
  BY <1>8, <1>9, <1>10, <1>11, <1>12 DEF IInv

LEMMA RepairedSteps ==
  ASSUME IInv, Repaired
  PROVE  IInv'
<1>1. /\ step = "repair" /\ step' = "done" /\ Repairable = {}
      /\ UNCHANGED <<path, idx, hops, cuts, ledger>> /\ UNCHANGED <<net, cfg, round, stall, extra, first, before>>
  BY DEF Repaired, Walkless
<1>2. IsNetwork(net) /\ NumParts \in Nat /\ BalancePct(cfg) \in Nat
  BY LimitsAre, ConfigIs DEF IInv, NetInv, StateInv
<1>3. Balanced(net, Sizes(net, NumParts), MaxAllowed(Sizes(net, NumParts), BalancePct(cfg)))
  <2> DEFINE sz == Sizes(net, NumParts)
             most == MaxAllowed(sz, BalancePct(cfg))
  <2>1. DOMAIN sz = 0 .. NumParts - 1 /\ \A p \in DOMAIN sz : sz[p] \in Nat
    BY <1>2, SizesAre
  <2>2. Movable(net, sz, most) = {}
    BY <1>1 DEF Repairable
  <2>3. most = MaxAllowed(sz, BalancePct(cfg))
    OBVIOUS
  <2> HIDE DEF sz, most
  <2>4. Balanced(net, sz, most)
    BY <1>2, <2>1, <2>2, <2>3, RepairEnds
  <2> QED
    BY <2>4 DEF sz, most
<1>4. NetInv'
  BY <1>1 DEF IInv, NetInv
<1>5. StateInv'
  BY <1>1 DEF IInv, StateInv
<1>6. CountInv'
  BY <1>1, LimitsStay DEF IInv, CountInv
<1>7. CapInv' /\ WalkInv' /\ LedgerInv'
  BY <1>1 DEF CapInv, WalkInv, LedgerInv
<1>8. IdleInv'
  BY <1>1 DEF IInv, IdleInv
<1>9. EndInv'
  BY <1>1, <1>3, LimitsStay DEF EndInv
<1> QED
  BY <1>4, <1>5, <1>6, <1>7, <1>8, <1>9 DEF IInv

LEMMA Steps ==
  IInv /\ [Next]_vars => IInv'
<1> SUFFICES ASSUME IInv, [Next]_vars
             PROVE  IInv'
  OBVIOUS
<1>1. CASE Relocate
  BY <1>1, RelocateSteps
<1>2. CASE NoMove \/ EndRelocate
  BY <1>2, OtherRelocations
<1>3. CASE StartRound
  BY <1>3, StartSteps
<1>4. CASE Replicate
  BY <1>4, ReplicateSteps
<1>5. CASE PassOver
  BY <1>5, PassOverSteps
<1>6. CASE RevertRound
  BY <1>6, RevertSteps
<1>7. CASE KeepRound \/ EndStuck
  BY <1>7, KeepSteps
<1>8. CASE EndReplicate
  BY <1>8, EndReplicateSteps
<1>9. CASE Repair
  BY <1>9, RepairSteps
<1>10. CASE Repaired
  BY <1>10, RepairedSteps
<1>11. CASE Done \/ UNCHANGED vars
  BY ZenonT(30), <1>11 DEF Done, vars, IInv, NetInv, StateInv, CountInv, CapInv, WalkInv, LedgerInv, IdleInv,
               EndInv, MaxExtra, MaxCut, NumParts
<1> QED
  BY <1>1, <1>2, <1>3, <1>4, <1>5, <1>6, <1>7, <1>8, <1>9, <1>10, <1>11 DEF Next

LEMMA Invariant ==
  Spec => []IInv
<1>1. Init => IInv
  BY Starts
<1>2. IInv /\ [Next]_vars => IInv'
  BY Steps
<1> QED
  BY <1>1, <1>2, PTL DEF Spec

LEMMA Typing ==
  IInv => TypeOK
<1> SUFFICES ASSUME IInv
             PROVE  TypeOK
  OBVIOUS
<1>1. IsNetwork(net) /\ cfg \in CfgType /\ extra \in Nat /\ extra <= MaxExtra /\ MaxExtra \in Nat
  BY LimitsAre DEF IInv, NetInv, StateInv, CountInv
<1>2. round \in 0 .. Max({cfg.moves, cfg.copies})
  <2> DEFINE a == cfg.moves
             b == cfg.copies
             m == Max({a, b})
  <2>1. a \in Nat /\ b \in Nat /\ a \in Int /\ b \in Int
    BY <1>1, ConfigIs
  <2>2. round \in Nat /\ (round <= a \/ round <= b)
    BY DEF IInv, StateInv
  <2> HIDE DEF a, b
  <2>3. m \in Int /\ m >= a /\ m >= b
    BY <2>1, MaxOfTwo
  <2> HIDE DEF m
  <2>4. round \in 0 .. m
    BY <2>1, <2>2, <2>3
  <2> QED
    BY <2>4 DEF m, a, b
<1>3. /\ path \in Seq(Vertices(net)) /\ idx \in 0 .. Len(path) + 1 /\ hops \in Nat
      /\ cuts \subseteq Vertices(net) /\ Len(ledger) <= extra
  <2>1. CASE step = "walk"
    <3>1. /\ IsPath(net, path) /\ idx \in 2 .. Len(path) /\ hops = PathHops(net, path)
          /\ cuts = CutDrivers(net) /\ Len(ledger) \in 0 .. extra
      BY <2>1 DEF IInv, WalkInv, LedgerInv
    <3>2. path \in Seq(Vertices(net)) /\ Len(path) \in Nat
      BY <1>1, <3>1, PathNodesAre
    <3> QED
      BY <1>1, <3>1, <3>2, HopsAre, CutsTyped
  <2>2. CASE step # "walk"
    BY <1>1, <2>2 DEF IInv, IdleInv
  <2> QED
    BY <2>1, <2>2
<1>4. stall \in Nat /\ step \in {"relocate", "replicate", "walk", "repair", "done"}
  BY DEF IInv, StateInv
<1>5. extra \in 0 .. MaxExtra
  BY <1>1
<1> QED
  BY <1>1, <1>2, <1>3, <1>4, <1>5 DEF TypeOK

(* For every network without cycles and every choice of options: the cut    *)
(* cap holds between rounds, the duplicates counted are the nodes added and *)
(* within the growth limit, whatever was accepted or reverted, and          *)
(* enforce_balance stops with every part within the limit or with only      *)
(* inputs in the first that is not.                                         *)
THEOREM CprLimits == Spec => []LimitsHeld
<1>1. IInv => LimitsHeld
  <2> SUFFICES ASSUME IInv
               PROVE  LimitsHeld
    OBVIOUS
  <2>1. TypeOK
    BY Typing
  <2>2. step \in {"relocate", "replicate"} => CutNets(net) <= MaxCut
    BY DEF IInv, CapInv
  <2>3. extra = Cardinality(net.node) - Cardinality(first.node) /\ extra <= MaxExtra
    BY DEF IInv, CountInv
  <2>4. step = "done" =>
          Balanced(net, Sizes(net, NumParts), MaxAllowed(Sizes(net, NumParts), BalancePct(cfg)))
    BY DEF IInv, EndInv
  <2> QED
    BY <2>1, <2>2, <2>3, <2>4 DEF LimitsHeld, Balanced
<1> QED
  BY <1>1, Invariant, PTL

(* For every network without cycles: after any number of duplicates of a    *)
(* round, the path it walks along is one of the network it has made, and    *)
(* the hops and the cut nets it remembers are those of that network.        *)
THEOREM CprWalk == Spec => []WalkExact
<1>1. IInv => WalkExact
  <2> SUFFICES ASSUME IInv, step = "walk"
               PROVE  /\ \A i \in 2 .. Len(path) :
                           \/ path[i - 1] \in Fanins(net, path[i])
                           \/ i = 2 /\ path[1] = path[2] /\ Fanins(net, path[2]) = {}
                      /\ hops = PathHops(net, path) /\ cuts = CutDrivers(net)
    BY DEF WalkExact
  <2>1. IsPath(net, path) /\ hops = PathHops(net, path) /\ cuts = CutDrivers(net)
    BY DEF IInv, WalkInv
  <2> QED
    BY <2>1 DEF IsPath
<1> QED
  BY <1>1, Invariant, PTL
----------------------------------------------------------------------------
(* A round: with the duplicates it has made so far the network is no worse  *)
(* than the one it started from.                                            *)
HelpInv == step = "walk" => NoWorse(net, before)

LEMMA HelpStarts == Init => HelpInv
BY DEF Init, HelpInv

LEMMA ReplicateHelps ==
  ASSUME IInv, HelpInv, Replicate, IInv'
  PROVE  HelpInv'
<1> DEFINE u == path[idx]
           w == path[idx + 1]
<1>1. /\ step = "walk" /\ idx < Len(path) /\ before' = before /\ step' = step
      /\ MayCopy(u, w) /\ net' = Copied(net, u, net.part[w])
  BY DEF Replicate, Walking
<1>2. /\ IsNetwork(net) /\ Acyclic(net) /\ IsNetwork(before) /\ Acyclic(before)
      /\ IsNetwork(net') /\ Acyclic(net')
      /\ IsPath(net, path) /\ idx \in 2 .. Len(path)
  BY <1>1 DEF IInv, NetInv, WalkInv
<1> HIDE DEF u, w
<1>3. u \in net.node /\ w \in Vertices(net)
  <2>1. Len(path) \in Nat /\ path \in Seq(Vertices(net))
    BY <1>2, PathNodesAre
  <2>2. u \in net.node
    BY <1>2, <2>1, FaninsTyped DEF u, IsPath
  <2>3. idx + 1 \in 1 .. Len(path)
    BY <1>1, <1>2, <2>1
  <2>4. w \in Vertices(net)
    BY <2>1, <2>3 DEF w
  <2> QED
    BY <2>2, <2>4
<1>4. net.part[u] # NoPart /\ Foreign(net.part[w], net.part[u])
  BY <1>1 DEF MayCopy
<1>5. net.part[w] \in Nat \cup {NoPart}
  BY <1>2, <1>3, Typed
<1>6. IsCopy(net', net, u, net.part[w])
  BY <1>1, <1>2, <1>3, <1>5, CopiedIs
<1>7. NoWorse(net', net)
  BY <1>2, <1>3, <1>4, <1>6, CopyNoWorse
<1>8. NoWorse(net, before)
  BY <1>1 DEF HelpInv
<1>9. NoWorse(net', before)
  BY <1>2, <1>7, <1>8, NoWorseTwice
<1> QED
  BY <1>1, <1>9 DEF HelpInv

LEMMA PassOverHelps ==
  ASSUME IInv, HelpInv, PassOver
  PROVE  HelpInv'
<1>1. /\ step = "walk" /\ before' = before /\ step' = step
      /\ net' = net \/ net' = [net EXCEPT !.max = @ + 1]
  BY DEF PassOver, Walking
<1>2. NoWorse(net, before)
  BY <1>1 DEF HelpInv
<1>3. IsNetwork(net) /\ Acyclic(net) /\ IsNetwork(before) /\ Acyclic(before)
  BY DEF IInv, NetInv
<1>4. CASE net' = net
  BY <1>1, <1>2, <1>4 DEF HelpInv
<1>5. CASE net' = [net EXCEPT !.max = @ + 1]
  <2>1. net.max + 1 \in Nat /\ net.max + 1 >= net.max /\ net' = [net EXCEPT !.max = net.max + 1]
    BY <1>3, <1>5, Typed
  <2>2. Same(net', net) /\ IsNetwork(net')
    BY <1>3, <2>1, LaterSame
  <2>3. Acyclic(net')
    BY <1>3, <2>2, AcyclicSame DEF Same
  <2>4. NoWorse(net', net)
    BY <1>3, <2>2, SameNoWorse
  <2>5. NoWorse(net', before)
    BY <1>2, <1>3, <2>2, <2>3, <2>4, NoWorseTwice
  <2> QED
    BY <1>1, <2>5 DEF HelpInv
<1> QED
  BY <1>1, <1>4, <1>5

LEMMA HelpSteps ==
  IInv /\ HelpInv /\ [Next]_vars => HelpInv'
<1> SUFFICES ASSUME IInv, HelpInv, [Next]_vars
             PROVE  HelpInv'
  OBVIOUS
<1>0. IInv'
  BY Steps
<1>1. CASE StartRound
  <2>1. net' = net /\ before' = net /\ IsNetwork(net) /\ Acyclic(net)
    BY <1>1 DEF StartRound, IInv, NetInv
  <2>2. NoWorse(net, net)
    BY <2>1, SameRefl, SameNoWorse
  <2> QED
    BY <2>1, <2>2 DEF HelpInv
<1>2. CASE Replicate
  BY <1>0, <1>2, ReplicateHelps
<1>3. CASE PassOver
  BY <1>3, PassOverHelps
<1>4. CASE Relocate \/ NoMove \/ EndRelocate \/ RevertRound \/ KeepRound \/ EndStuck \/ EndReplicate
           \/ Repair \/ Repaired
  <2>1. step' # "walk"
    BY <1>4 DEF Relocate, NoMove, EndRelocate, RevertRound, KeepRound, EndStuck, EndReplicate, Repair,
                Repaired, StartRepair
  <2> QED
    BY <2>1 DEF HelpInv
<1>5. CASE Done \/ UNCHANGED vars
  BY <1>5 DEF Done, vars, HelpInv
<1> QED
  BY <1>1, <1>2, <1>3, <1>4, <1>5 DEF Next

LEMMA HelpInvariant ==
  Spec => []HelpInv
<1>1. Init => HelpInv
  BY HelpStarts
<1>2. IInv /\ HelpInv /\ [Next]_vars => HelpInv'
  BY HelpSteps
<1> QED
  BY <1>1, <1>2, Invariant, PTL DEF Spec

RoundHelps ==
  step = "walk" /\ step' # "walk" =>
    \/ Circuit(net') = Circuit(before)
    \/ /\ CutNets(net') <= MaxCut /\ Outputs(net') = Outputs(before)
       /\ \A v \in Vertices(before) : Timing(net')[v] <= Timing(before)[v]

LEMMA EndsHelp ==
  IInv /\ HelpInv /\ [Next]_vars => RoundHelps
<1> SUFFICES ASSUME IInv, HelpInv, [Next]_vars, step = "walk", step' # "walk"
             PROVE  RoundHelps
  BY DEF RoundHelps
<1>1. RevertRound \/ KeepRound \/ EndStuck
  BY DEF Next, vars, Relocate, NoMove, EndRelocate, StartRound, EndReplicate, Replicate, PassOver, Repair,
         Repaired, Done
<1>2. CASE RevertRound
  <2>1. net' = RoundReverted(net, ledger)
    BY <1>2 DEF RevertRound, StartRepair
  <2>2. Same(net', before)
    BY <2>1, RevertExact
  <2> QED
    BY <2>2, SameCircuit DEF RoundHelps
<1>3. CASE KeepRound \/ EndStuck
  <2>1. net' = net /\ Cardinality(cuts) <= MaxCut
    BY <1>3 DEF KeepRound, EndStuck, StartRepair
  <2>2. CutNets(net) <= MaxCut
    BY <2>1 DEF IInv, WalkInv, CutNets
  <2>3. NoWorse(net, before)
    BY DEF HelpInv
  <2> QED
    BY <2>1, <2>2, <2>3 DEF NoWorse, RoundHelps
<1> QED
  BY <1>1, <1>2, <1>3

(* For every network without cycles: a round of replication that ends       *)
(* leaves the network as it found it, or within the cut cap with every      *)
(* output computing what it did and no vertex arriving later.               *)
THEOREM CprRounds == Spec => RoundsHelp
<1>1. IInv /\ HelpInv /\ [Next]_vars => [RoundHelps]_vars
  BY EndsHelp
<1>2. [][RoundHelps]_vars <=> RoundsHelp
  BY DEF RoundHelps, RoundsHelp
<1> QED
  BY <1>1, <1>2, Invariant, HelpInvariant, PTL DEF Spec
=============================================================================
