----------------------------- MODULE NetTheorems -----------------------------
(****************************************************************************)
(* What the proofs of several components rest on.                           *)
(*                                                                          *)
(* Sums over finite sets: SumFunctionOnSet is a recursive function over the *)
(* subsets of its argument, taking the elements in an order that CHOOSE     *)
(* decides.  Here it is shown to be what it looks like: the recursion is    *)
(* well defined, the order makes no difference, and a sum follows its set   *)
(* and its summands element by element.  Inductions are over sets: a set    *)
(* that holds whatever follows from its smaller members is everything.      *)
(*                                                                          *)
(* Partitioned networks: what an edit makes of each field, that a network   *)
(* stays a network without cycles, that on one a definition that goes from  *)
(* the fanins of a vertex to the vertex has exactly one solution, and what  *)
(* the sizes of the parts and their limit are.                              *)
(****************************************************************************)
EXTENDS PartMoves, Functions, FiniteSetTheorems, SequenceTheorems, WellFoundedInduction, TLAPS

(* A nonempty set of naturals has a least element. *)
LEMMA LeastNatural ==
  ASSUME NEW S \in SUBSET Nat, S # {}
  PROVE  \E m \in S : \A k \in S : m <= k
<1> DEFINE R == OpToRel(<, Nat)
<1>1. \E m \in S : \A k \in S : ~ (<<k, m>> \in R)
  BY NatLessThanWellFounded, WFMin
<1>2. \A k, m \in Nat : k < m => <<k, m>> \in R
  BY DEF OpToRel
<1> HIDE DEF R
<1>3. PICK m \in S : \A k \in S : ~ (<<k, m>> \in R)
  BY <1>1
<1>4. ASSUME NEW k \in S PROVE m <= k
  <2>1. k \in Nat /\ m \in Nat
    OBVIOUS
  <2>2. ~ (k < m)
    BY <1>2, <1>3, <2>1, Zenon
  <2> QED BY <2>1, <2>2
<1> QED BY <1>4

(* A set of naturals with 0 and every successor has them all. *)
LEMMA AllNaturals ==
  ASSUME NEW I, 0 \in I, \A n \in Nat : n \in I => n + 1 \in I
  PROVE  \A n \in Nat : n \in I
<1> SUFFICES ASSUME Nat \ I # {} PROVE FALSE
  OBVIOUS
<1>1. PICK m \in Nat \ I : \A k \in Nat \ I : m <= k
  BY LeastNatural
<1>2. m - 1 \in Nat /\ m - 1 < m
  BY <1>1
<1>3. m - 1 \in I
  BY <1>1, <1>2
<1> QED BY <1>1, <1>2, <1>3

(* A family of subsets of a finite set that holds T whenever it holds T     *)
(* less any element has them all.                                           *)
LEMMA AllSubsets ==
  ASSUME NEW S, IsFiniteSet(S), NEW I,
         \A T \in SUBSET S : (\A x \in T : T \ {x} \in I) => T \in I
  PROVE  \A T \in SUBSET S : T \in I
<1> SUFFICES ASSUME NEW T0 \in SUBSET S, T0 \notin I PROVE FALSE
  OBVIOUS
<1> DEFINE Bad == {T \in SUBSET S : T \notin I}
           Counts == {Cardinality(T) : T \in Bad}
<1>1. \A T \in SUBSET S : IsFiniteSet(T) /\ Cardinality(T) \in Nat
  BY FS_Subset, FS_CardinalityType
<1>2. Counts \in SUBSET Nat /\ Counts # {}
  BY <1>1
<1>3. PICK m \in Counts : \A k \in Counts : m <= k
  <2> HIDE DEF Counts
  <2> QED BY <1>2, LeastNatural
<1>4. PICK T \in Bad : m = Cardinality(T)
  BY <1>3
<1>5. ASSUME NEW x \in T PROVE T \ {x} \in I
  <2>1. Cardinality(T \ {x}) = Cardinality(T) - 1
    BY <1>1, FS_RemoveElement
  <2>2. Cardinality(T \ {x}) \notin Counts
    <3>1. m = Cardinality(T) /\ Cardinality(T) \in Nat
      BY <1>1, <1>4
    <3>2. ~ (m <= Cardinality(T \ {x}))
      BY <2>1, <3>1
    <3> HIDE DEF Counts
    <3> QED BY <1>3, <3>2
  <2>3. T \ {x} \in SUBSET S
    OBVIOUS
  <2> QED BY <2>2, <2>3
<1> QED BY <1>5

(* A finite set of integers has a greatest element. *)
LEMMA Greatest ==
  ASSUME NEW S \in SUBSET Int, IsFiniteSet(S), S # {}
  PROVE  \E x \in S : \A y \in S : x >= y
<1> DEFINE Has(T) == \E x \in T : \A y \in T : x >= y
           I == {T \in SUBSET S : T # {} => Has(T)}
<1>1. ASSUME NEW T \in SUBSET S, \A x \in T : T \ {x} \in I PROVE T \in I
  <2> SUFFICES ASSUME T # {} PROVE Has(T)
    OBVIOUS
  <2>1. PICK z \in T : TRUE
    OBVIOUS
  <2>2. CASE T \ {z} = {}
    BY <2>1, <2>2
  <2>3. CASE T \ {z} # {}
    <3>1. PICK x \in T \ {z} : \A y \in T \ {z} : x >= y
      BY <1>1, <2>3
    <3>2. x \in Int /\ z \in Int /\ T \subseteq Int
      OBVIOUS
    <3>3. CASE x >= z
      BY <3>1, <3>2, <3>3
    <3>4. CASE ~(x >= z)
      BY <3>1, <3>2, <3>4
    <3> QED BY <3>3, <3>4
  <2> QED BY <2>2, <2>3
<1> HIDE DEF I
<1>2. \A T \in SUBSET S : T \in I
  BY <1>1, AllSubsets
<1>3. Has(S)
  BY <1>2 DEF I
<1> QED BY <1>3

----------------------------------------------------------------------------
(* V with what each of its elements depends on: in every set of elements    *)
(* there is one that depends on none of them.                               *)
Grounded(V, D) ==
  /\ \A v \in V : D[v] \subseteq V
  /\ \A S \in SUBSET V : S # {} => \E v \in S : D[v] \cap S = {}

(* A set that has every element all whose dependencies it has is all of V.  *)
LEMMA FromBelow ==
  ASSUME NEW V, NEW D, Grounded(V, D), NEW S, \A v \in V : D[v] \subseteq S => v \in S
  PROVE  V \subseteq S
<1> DEFINE Bad == V \ S
<1>1. SUFFICES ASSUME Bad # {} PROVE FALSE
  OBVIOUS
<1>2. PICK v \in Bad : D[v] \cap Bad = {}
  BY <1>1 DEF Grounded
<1>3. D[v] \subseteq S
  BY <1>2 DEF Grounded
<1> QED BY <1>2, <1>3

(* There is a solution to equations that look at the dependencies only.     *)
IsFlow(V, D, Val, B) ==
  /\ \A v \in V, g \in [V -> Val] : B[v][g] \in Val
  /\ \A v \in V, g, h \in [V -> Val] : (\A u \in D[v] : g[u] = h[u]) => B[v][g] = B[v][h]

Solvable(V, Val, B) == \E f \in [V -> Val] : \A v \in V : f[v] = B[v][f]

LEMMA FlowExists ==
  ASSUME NEW V, IsFiniteSet(V), NEW D, Grounded(V, D), NEW Val, Val # {}, NEW B, IsFlow(V, D, Val, B)
  PROVE  Solvable(V, Val, B)
<1> SUFFICES \E f \in [V -> Val] : \A v \in V : f[v] = B[v][f]
  BY DEF Solvable
<1>0. /\ \A v \in V, g \in [V -> Val] : B[v][g] \in Val
      /\ \A v \in V, g, h \in [V -> Val] : (\A u \in D[v] : g[u] = h[u]) => B[v][g] = B[v][h]
  BY DEF IsFlow
<1> DEFINE Solves(f, T) == \A v \in T : f[v] = B[v][f] /\ D[v] \subseteq T
           Good == {T \in SUBSET V : \E f \in [V -> Val] : Solves(f, T)}
           Counts == {Cardinality(T) : T \in Good}
<1>1. IsFiniteSet(V)
  OBVIOUS
<1>2. {} \in Good
  <2>1. PICK c : c \in Val
    OBVIOUS
  <2>2. [v \in V |-> c] \in [V -> Val]
    BY <2>1
  <2> QED
    BY <2>2
<1>3. \A T \in Good : IsFiniteSet(T) /\ Cardinality(T) \in 0 .. Cardinality(V)
  BY <1>1, FS_Subset, FS_CardinalityType
<1>4. Counts \in SUBSET Int /\ IsFiniteSet(Counts) /\ Counts # {}
  <2>1. Counts \subseteq 0 .. Cardinality(V)
    BY <1>3
  <2>2. IsFiniteSet(0 .. Cardinality(V)) /\ Cardinality(V) \in Nat
    BY <1>1, FS_Interval, FS_CardinalityType
  <2>3. IsFiniteSet(Counts)
    BY <2>1, <2>2, FS_Subset
  <2>4. Counts # {}
    BY <1>2
  <2>5. Counts \subseteq Int
    BY <2>1
  <2> QED
    BY <2>3, <2>4, <2>5
<1>5. PICK T \in Good : \A U \in Good : Cardinality(T) >= Cardinality(U)
  <2>1. PICK x \in Counts : \A y \in Counts : x >= y
    BY <1>4, Greatest
  <2> QED
    BY <2>1
<1>6. PICK f \in [V -> Val] : Solves(f, T)
  BY <1>5
<1>7. CASE T = V
  BY <1>6, <1>7
<1>8. CASE T # V
  <2>1. PICK v \in V \ T : D[v] \subseteq T
    <3>1. SUFFICES ASSUME \A v \in V : D[v] \subseteq T => v \in T
                   PROVE  FALSE
      OBVIOUS
    <3>2. \A v \in V : v \in T
      BY <3>1, FromBelow
    <3>3. T \in SUBSET V
      OBVIOUS
    <3> QED
      BY <1>8, <3>2, <3>3
  <2> DEFINE g == [f EXCEPT ![v] = B[v][f]]
             U == T \cup {v}
  <2>2. g \in [V -> Val] /\ g[v] = B[v][f] /\ \A u \in V \ {v} : g[u] = f[u]
    <3>1. B[v][f] \in Val
      BY <1>0
    <3> QED
      BY <3>1
  <2>3. \A w \in U : D[w] \subseteq T /\ w \in V
    BY <1>6, <2>1
  <2> HIDE DEF g
  <2>4. \A w \in U : B[w][g] = B[w][f]
    <3>1. \A u \in T : f[u] = g[u]
      BY <2>1, <2>2
    <3> QED
      BY <1>0, <2>2, <2>3, <3>1
  <2>5. Solves(g, U)
    BY <1>6, <2>1, <2>2, <2>3, <2>4
  <2>6. U \in Good
    BY <2>1, <2>2, <2>5
  <2>7. Cardinality(U) = Cardinality(T) + 1
    BY <1>3, <2>1, FS_AddElement
  <2> QED
    BY <1>3, <1>5, <2>6, <2>7
<1> QED
  BY <1>7, <1>8

(* A set that grows until it is whole: G makes it larger, and monotonously. *)
Grows(V, G) ==
  /\ G \in [SUBSET V -> SUBSET V]
  /\ \A S, T \in SUBSET V : S \subseteq G[S] /\ (S \subseteq T => G[S] \subseteq G[T])

IsGrown(V, G, f) == f = [S \in SUBSET V |-> IF G[S] = S THEN S ELSE f[G[S]]]

LEMMA GrownExists ==
  ASSUME NEW V, NEW G, Grows(V, G)
  PROVE  \E f : IsGrown(V, G, f)
<1> DEFINE Wholes(S) == {C \in SUBSET V : S \subseteq C /\ G[C] = C}
           f == [S \in SUBSET V |-> {v \in V : \A C \in Wholes(S) : v \in C}]
<1>1. /\ \A S \in SUBSET V : G[S] \in SUBSET V /\ S \subseteq G[S]
      /\ \A S, T \in SUBSET V : S \subseteq T => G[S] \subseteq G[T]
  BY DEF Grows
<1>2. ASSUME NEW S \in SUBSET V PROVE f[S] = IF G[S] = S THEN S ELSE f[G[S]]
  <2>1. CASE G[S] = S
    <3>1. S \in Wholes(S) /\ \A C \in Wholes(S) : S \subseteq C
      BY <2>1
    <3> HIDE DEF Wholes
    <3>2. f[S] = S
      BY <3>1
    <3> QED BY <2>1, <3>2
  <2>2. CASE G[S] # S
    <3>1. G[S] \in SUBSET V
      BY <1>1
    <3>2. Wholes(S) = Wholes(G[S])
      <4>1. \A C \in SUBSET V : G[C] = C => (S \subseteq C <=> G[S] \subseteq C)
        BY <1>1
      <4> QED BY <4>1
    <3> HIDE DEF Wholes
    <3>3. f[S] = f[G[S]]
      BY <3>1, <3>2
    <3> QED BY <2>2, <3>3
  <2> QED BY <2>1, <2>2
<1>3. f = [S \in SUBSET V |-> IF G[S] = S THEN S ELSE f[G[S]]]
  <2>1. f = [S \in SUBSET V |-> f[S]]
    OBVIOUS
  <2> HIDE DEF f
  <2> QED BY <1>2, <2>1
<1> QED BY <1>3 DEF IsGrown

(* A family of subsets that holds whatever has all its proper supersets in  *)
(* it has them all.                                                         *)
LEMMA AllFromAbove ==
  ASSUME NEW V, IsFiniteSet(V), NEW I,
         \A S \in SUBSET V : (\A T \in SUBSET V : S \subseteq T /\ S # T => T \in I) => S \in I
  PROVE  \A S \in SUBSET V : S \in I
<1> DEFINE J == {C \in SUBSET V : \A U \in SUBSET C : V \ U \in I}
<1>1. ASSUME NEW C \in SUBSET V, \A x \in C : C \ {x} \in J PROVE C \in J
  <2>1. ASSUME NEW U \in SUBSET C, U # C PROVE V \ U \in I
    <3>1. PICK x \in C : x \notin U
      BY <2>1
    <3>2. C \ {x} \in J /\ U \in SUBSET (C \ {x})
      BY <1>1, <3>1
    <3> QED BY <3>2
  <2>2. V \ C \in I
    <3>1. ASSUME NEW T \in SUBSET V, V \ C \subseteq T, V \ C # T PROVE T \in I
      <4> DEFINE U == V \ T
      <4>1. U \in SUBSET C /\ U # C /\ V \ U = T
        BY <3>1
      <4> HIDE DEF U
      <4>2. V \ U \in I
        BY <2>1, <4>1
      <4> QED BY <4>1, <4>2
    <3>2. V \ C \in SUBSET V
      OBVIOUS
    <3> QED BY <3>1, <3>2
  <2>3. \A U \in SUBSET C : V \ U \in I
    BY <2>1, <2>2
  <2> QED BY <2>3
<1>2. \A C \in SUBSET V : C \in J
  <2> HIDE DEF J
  <2> QED BY <1>1, AllSubsets
<1>3. ASSUME NEW S \in SUBSET V PROVE S \in I
  <2> DEFINE U == V \ S
  <2>1. U \in J /\ V \ U = S /\ U \in SUBSET U
    BY <1>2
  <2> HIDE DEF U
  <2>2. V \ U \in I
    BY <2>1
  <2> QED BY <2>1, <2>2
<1> QED BY <1>3

(* What it grows to is whole, and has nothing that no step can bring in.    *)
LEMMA GrownIs ==
  ASSUME NEW V, IsFiniteSet(V), NEW G, Grows(V, G), NEW f, IsGrown(V, G, f)
  PROVE  \A S \in SUBSET V :
           /\ f[S] \in SUBSET V /\ S \subseteq f[S] /\ G[f[S]] = f[S]
           /\ \A B : (\A T \in SUBSET V : T \cap B = {} => G[T] \cap B = {}) /\ S \cap B = {} => f[S] \cap B = {}
<1> DEFINE Good(S) ==
             /\ f[S] \in SUBSET V /\ S \subseteq f[S] /\ G[f[S]] = f[S]
             /\ \A B : (\A T \in SUBSET V : T \cap B = {} => G[T] \cap B = {}) /\ S \cap B = {} => f[S] \cap B = {}
           I == {S \in SUBSET V : Good(S)}
<1>1. \A S \in SUBSET V : f[S] = IF G[S] = S THEN S ELSE f[G[S]]
  BY DEF IsGrown
<1>2. \A S \in SUBSET V : G[S] \in SUBSET V /\ S \subseteq G[S]
  BY DEF Grows
<1>3. ASSUME NEW S \in SUBSET V, \A T \in SUBSET V : S \subseteq T /\ S # T => T \in I
      PROVE  Good(S)
  <2>1. CASE G[S] = S
    <3>1. f[S] = S
      BY <1>1, <2>1
    <3> QED BY <2>1, <3>1
  <2>2. CASE G[S] # S
    <3>1. G[S] \in I /\ f[S] = f[G[S]]
      BY <1>1, <1>2, <1>3, <2>2
    <3>2. Good(G[S])
      BY <3>1
    <3>3. /\ f[S] \in SUBSET V /\ S \subseteq f[S] /\ G[f[S]] = f[S]
      BY <1>2, <3>1, <3>2
    <3>4. ASSUME NEW B, \A T \in SUBSET V : T \cap B = {} => G[T] \cap B = {}, S \cap B = {}
          PROVE  f[S] \cap B = {}
      BY <3>1, <3>2, <3>4
    <3> QED BY <3>3, <3>4
  <2> QED BY <2>1, <2>2
<1>4. \A S \in SUBSET V : S \in I
  <2>1. \A S \in SUBSET V : (\A T \in SUBSET V : S \subseteq T /\ S # T => T \in I) => S \in I
    BY <1>3
  <2> HIDE DEF I
  <2> QED BY <2>1, AllFromAbove
<1> QED BY <1>4

----------------------------------------------------------------------------
Chosen(s) == CHOOSE x \in s : TRUE

(* One step of the recursion, and a function that satisfies it below S. *)
SumBody(f, g, U) == IF U = {} THEN 0 ELSE f[Chosen(U)] + g[U \ {Chosen(U)}]
Sums(f, g, S)    == \A U \in SUBSET S : g[U] = SumBody(f, g, U)

LEMMA ChosenIn == ASSUME NEW S, S # {} PROVE Chosen(S) \in S
BY DEF Chosen

(* Built up by size, there is a function that satisfies the recursion. *)
LEMMA SumsExist ==
  ASSUME NEW f, NEW S, IsFiniteSet(S)
  PROVE  \E g : g = [U \in SUBSET S |-> SumBody(f, g, U)]
<1> DEFINE To(g, n) == \A U \in SUBSET S : Cardinality(U) < n => g[U] = SumBody(f, g, U)
           I == {n \in Nat : \E g : To(g, n)}
<1>1. \A U \in SUBSET S : IsFiniteSet(U) /\ Cardinality(U) \in Nat
  BY FS_Subset, FS_CardinalityType
<1>2. 0 \in I
  BY <1>1
<1>3. ASSUME NEW n \in Nat, n \in I PROVE n + 1 \in I
  <2>1. PICK g : To(g, n)
    BY <1>3
  <2> DEFINE k == [U \in SUBSET S |-> SumBody(f, g, U)]
  <2>2. ASSUME NEW U \in SUBSET S, Cardinality(U) < n + 1
        PROVE  k[U] = SumBody(f, k, U)
    <3>1. CASE U = {}
      BY <3>1 DEF SumBody
    <3>2. CASE U # {}
      <4> DEFINE W == U \ {Chosen(U)}
      <4>1. Chosen(U) \in U /\ W \in SUBSET S
        BY <3>2, ChosenIn
      <4>2. Cardinality(W) = Cardinality(U) - 1
        BY <1>1, <4>1, FS_RemoveElement
      <4>3. Cardinality(W) < n
        BY <1>1, <2>2, <4>2
      <4>4. g[W] = k[W]
        BY <2>1, <4>1, <4>3
      <4> QED BY <3>2, <4>4 DEF SumBody
    <3> QED BY <3>1, <3>2
  <2>3. To(k, n + 1)
    <3> HIDE DEF k
    <3> QED BY <2>2
  <2>4. \E b : To(b, n + 1)
    <3> HIDE DEF To
    <3> QED BY <2>3
  <2>5. n + 1 \in Nat
    OBVIOUS
  <2> HIDE DEF To
  <2> QED BY <2>4, <2>5
<1>4. Cardinality(S) + 1 \in I
  <2>1. Cardinality(S) + 1 \in Nat
    BY <1>1
  <2> HIDE DEF I
  <2> QED BY <1>2, <1>3, <2>1, AllNaturals
<1>5. PICK g : To(g, Cardinality(S) + 1)
  BY <1>4
<1>6. \A U \in SUBSET S : Cardinality(U) < Cardinality(S) + 1
  BY <1>1, FS_Subset
<1> DEFINE k == [U \in SUBSET S |-> g[U]]
<1>7. ASSUME NEW U \in SUBSET S PROVE k[U] = SumBody(f, k, U)
  <2>1. g[U] = SumBody(f, g, U)
    BY <1>5, <1>6
  <2>2. U \ {Chosen(U)} \in SUBSET S
    OBVIOUS
  <2> QED BY <2>1, <2>2 DEF SumBody
<1>8. k = [U \in SUBSET S |-> SumBody(f, k, U)]
  BY <1>7
<1> QED BY <1>8

(* Only one: two functions that satisfy it agree wherever both do. *)
LEMMA SumsAgree ==
  ASSUME NEW f, NEW S, IsFiniteSet(S), NEW g, NEW k, Sums(f, g, S), Sums(f, k, S)
  PROVE  g[S] = k[S]
<1> DEFINE I == {T \in SUBSET S : g[T] = k[T]}
<1>1. ASSUME NEW T \in SUBSET S, \A x \in T : T \ {x} \in I PROVE T \in I
  <2>1. g[T] = SumBody(f, g, T) /\ k[T] = SumBody(f, k, T)
    BY DEF Sums
  <2>2. T # {} => g[T \ {Chosen(T)}] = k[T \ {Chosen(T)}]
    BY <1>1, ChosenIn
  <2> QED BY <2>1, <2>2 DEF SumBody
<1>2. \A T \in SUBSET S : T \in I
  <2> HIDE DEF I
  <2> QED BY <1>1, AllSubsets
<1> QED BY <1>2

LEMMA SumIsSums ==
  ASSUME NEW f, NEW S, IsFiniteSet(S)
  PROVE  \E g : Sums(f, g, S) /\ SumFunctionOnSet(f, S) = g[S]
<1> DEFINE g == CHOOSE k : k = [U \in SUBSET S |-> SumBody(f, k, U)]
<1>1. SumFunctionOnSet(f, S) = g[S]
  BY DEF SumFunctionOnSet, FoldFunctionOnSet, MapThenFoldSet, Chosen, SumBody
<1>2. g = [U \in SUBSET S |-> SumBody(f, g, U)]
  BY SumsExist
<1>3. Sums(f, g, S)
  BY <1>2 DEF Sums
<1> QED BY <1>1, <1>3

(* A sum is 0, or its first summand and the sum of the others. *)
LEMMA SumStep ==
  ASSUME NEW f, NEW S, IsFiniteSet(S)
  PROVE  SumFunctionOnSet(f, S) =
           IF S = {} THEN 0
           ELSE f[Chosen(S)] + SumFunctionOnSet(f, S \ {Chosen(S)})
<1>1. PICK g : Sums(f, g, S) /\ SumFunctionOnSet(f, S) = g[S]
  BY SumIsSums
<1>2. g[S] = SumBody(f, g, S)
  BY <1>1 DEF Sums
<1>3. CASE S = {}
  BY <1>1, <1>2, <1>3 DEF SumBody
<1>4. CASE S # {}
  <2> DEFINE W == S \ {Chosen(S)}
  <2>1. IsFiniteSet(W) /\ W \in SUBSET S
    BY FS_Subset
  <2>2. PICK k : Sums(f, k, W) /\ SumFunctionOnSet(f, W) = k[W]
    <3> HIDE DEF W
    <3> QED BY <2>1, SumIsSums
  <2>3. Sums(f, g, W)
    BY <1>1, <2>1 DEF Sums
  <2>4. g[W] = k[W]
    <3> HIDE DEF W
    <3> QED BY <2>1, <2>2, <2>3, SumsAgree
  <2> QED BY <1>1, <1>2, <1>4, <2>2, <2>4 DEF SumBody
<1> QED BY <1>3, <1>4

----------------------------------------------------------------------------
LEMMA SumEmpty == \A f : SumFunctionOnSet(f, {}) = 0
BY SumStep, FS_EmptySet

LEMMA SumInt ==
  ASSUME NEW f, NEW S, IsFiniteSet(S), \A x \in S : f[x] \in Int
  PROVE  SumFunctionOnSet(f, S) \in Int
<1> DEFINE I == {T \in SUBSET S : SumFunctionOnSet(f, T) \in Int}
<1>1. ASSUME NEW T \in SUBSET S, \A x \in T : T \ {x} \in I PROVE T \in I
  <2>1. IsFiniteSet(T)
    BY FS_Subset
  <2>2. CASE T = {}
    BY <2>2, SumEmpty
  <2>3. CASE T # {}
    <3>1. Chosen(T) \in T
      BY <2>3, ChosenIn
    <3>2. SumFunctionOnSet(f, T) = f[Chosen(T)] + SumFunctionOnSet(f, T \ {Chosen(T)})
      BY <2>1, <2>3, SumStep
    <3> QED BY <1>1, <3>1, <3>2
  <2> QED BY <2>2, <2>3
<1>2. \A T \in SUBSET S : T \in I
  <2> HIDE DEF I
  <2> QED BY <1>1, AllSubsets
<1> QED BY <1>2

(* Any element can be taken first. *)
LEMMA SumRemove ==
  ASSUME NEW f, NEW S, IsFiniteSet(S), \A y \in S : f[y] \in Int, NEW x \in S
  PROVE  SumFunctionOnSet(f, S) = f[x] + SumFunctionOnSet(f, S \ {x})
<1> DEFINE Sum(T) == SumFunctionOnSet(f, T)
           I == {T \in SUBSET S : \A y \in T : Sum(T) = f[y] + Sum(T \ {y})}
<1>0. \A T \in SUBSET S : IsFiniteSet(T) /\ Sum(T) \in Int
  BY FS_Subset, SumInt
<1>1. ASSUME NEW T \in SUBSET S, \A y \in T : T \ {y} \in I PROVE T \in I
  <2> SUFFICES ASSUME NEW y \in T PROVE Sum(T) = f[y] + Sum(T \ {y})
    OBVIOUS
  <2> DEFINE a == Chosen(T)
  <2>1. a \in T
    BY ChosenIn
  <2>2. Sum(T) = f[a] + Sum(T \ {a})
    BY <1>0, SumStep
  <2>3. CASE y = a
    BY <2>2, <2>3
  <2>4. CASE y # a
    <3> HIDE DEF a
    <3>1. T \ {a} \in I /\ T \ {y} \in I /\ y \in T \ {a} /\ a \in T \ {y}
      BY <1>1, <2>1, <2>4
    <3>2. Sum(T \ {a}) = f[y] + Sum((T \ {a}) \ {y})
      BY <3>1
    <3>3. Sum(T \ {y}) = f[a] + Sum((T \ {y}) \ {a})
      BY <3>1
    <3>4. (T \ {a}) \ {y} = (T \ {y}) \ {a}
      OBVIOUS
    <3>5. Sum((T \ {a}) \ {y}) \in Int /\ f[y] \in Int /\ f[a] \in Int
      BY <1>0, <2>1
    <3>6. Sum(T) = f[a] + Sum(T \ {a})
      BY <2>2
    <3>7. Sum(T \ {y}) = f[a] + Sum((T \ {a}) \ {y})
      BY <3>3, <3>4
    <3> HIDE DEF Sum
    <3> QED BY <3>6, <3>2, <3>7, <3>5
  <2> QED BY <2>3, <2>4
<1>2. \A T \in SUBSET S : T \in I
  <2> HIDE DEF I
  <2> QED BY <1>1, AllSubsets
<1> QED BY <1>2

LEMMA SumLess ==
  ASSUME NEW f, NEW S, IsFiniteSet(S), \A y \in S : f[y] \in Int, NEW x
  PROVE  /\ SumFunctionOnSet(f, S) = (IF x \in S THEN f[x] ELSE 0) + SumFunctionOnSet(f, S \ {x})
         /\ SumFunctionOnSet(f, S \ {x}) \in Int
<1>1. IsFiniteSet(S \ {x}) /\ \A y \in S \ {x} : f[y] \in Int
  BY FS_Subset
<1>2. SumFunctionOnSet(f, S \ {x}) \in Int
  BY <1>1, SumInt
<1>3. CASE x \in S
  BY <1>2, <1>3, SumRemove
<1>4. CASE x \notin S
  <2>1. S \ {x} = S
    BY <1>4
  <2>2. SumFunctionOnSet(f, S \ {x}) = SumFunctionOnSet(f, S)
    BY <2>1
  <2> DEFINE all == SumFunctionOnSet(f, S)
             less == SumFunctionOnSet(f, S \ {x})
  <2>3. less \in Int /\ less = all
    BY <1>2, <2>2
  <2> HIDE DEF all, less
  <2>4. all = 0 + less
    BY <2>3
  <2> QED BY <1>2, <1>4, <2>4 DEF all, less
<1> QED BY <1>3, <1>4

LEMMA SumAdd ==
  ASSUME NEW f, NEW S, IsFiniteSet(S), NEW x, x \notin S, \A y \in S \cup {x} : f[y] \in Int
  PROVE  SumFunctionOnSet(f, S \cup {x}) = f[x] + SumFunctionOnSet(f, S)
<1>1. IsFiniteSet(S \cup {x}) /\ (S \cup {x}) \ {x} = S
  BY FS_AddElement
<1> QED BY <1>1, SumRemove

(* Equal summands, equal sums. *)
LEMMA SumSame ==
  ASSUME NEW f, NEW g, NEW S, IsFiniteSet(S), \A x \in S : f[x] = g[x]
  PROVE  SumFunctionOnSet(f, S) = SumFunctionOnSet(g, S)
<1> DEFINE I == {T \in SUBSET S : SumFunctionOnSet(f, T) = SumFunctionOnSet(g, T)}
<1>1. ASSUME NEW T \in SUBSET S, \A x \in T : T \ {x} \in I PROVE T \in I
  <2>1. IsFiniteSet(T)
    BY FS_Subset
  <2>2. CASE T = {}
    BY <2>2, SumEmpty
  <2>3. CASE T # {}
    <3>1. Chosen(T) \in T
      BY <2>3, ChosenIn
    <3>2. /\ SumFunctionOnSet(f, T) = f[Chosen(T)] + SumFunctionOnSet(f, T \ {Chosen(T)})
          /\ SumFunctionOnSet(g, T) = g[Chosen(T)] + SumFunctionOnSet(g, T \ {Chosen(T)})
      BY <2>1, <2>3, SumStep
    <3> QED BY <1>1, <3>1, <3>2
  <2> QED BY <2>2, <2>3
<1>2. \A T \in SUBSET S : T \in I
  <2> HIDE DEF I
  <2> QED BY <1>1, AllSubsets
<1> QED BY <1>2

(* Summands of at least 0: a larger set, a sum at least as large. *)
LEMMA SumGrows ==
  ASSUME NEW f, NEW S, IsFiniteSet(S), \A x \in S : f[x] \in Nat, NEW T \in SUBSET S
  PROVE  /\ SumFunctionOnSet(f, T) \in Nat /\ SumFunctionOnSet(f, S) \in Nat
         /\ SumFunctionOnSet(f, T) <= SumFunctionOnSet(f, S)
<1> DEFINE Sum(U) == SumFunctionOnSet(f, U)
           I == {U \in SUBSET S : Sum(U) \in Nat /\ \A W \in SUBSET U : Sum(W) <= Sum(U)}
<1>1. ASSUME NEW U \in SUBSET S, \A x \in U : U \ {x} \in I PROVE U \in I
  <2>1. IsFiniteSet(U) /\ \A x \in U : f[x] \in Int
    BY FS_Subset
  <2>2. \A x \in U : Sum(U) = f[x] + Sum(U \ {x})
    BY <2>1, SumRemove
  <2>3. Sum(U) \in Nat
    <3>1. CASE U = {}
      BY <3>1, SumEmpty
    <3>2. CASE U # {}
      <4>1. PICK x \in U : TRUE
        BY <3>2
      <4>2. f[x] \in Nat /\ Sum(U \ {x}) \in Nat /\ Sum(U) = f[x] + Sum(U \ {x})
        BY <1>1, <2>2, <4>1
      <4> HIDE DEF Sum
      <4> QED BY <4>2
    <3> QED BY <3>1, <3>2
  <2>4. ASSUME NEW W \in SUBSET U PROVE Sum(W) <= Sum(U)
    <3>1. CASE W = U
      BY <2>3, <3>1
    <3>2. CASE W # U
      <4>1. PICK x \in U : x \notin W
        BY <3>2
      <4>2. f[x] \in Nat /\ Sum(U \ {x}) \in Nat /\ Sum(U) = f[x] + Sum(U \ {x})
        BY <1>1, <2>2, <4>1
      <4>3. W \in SUBSET (U \ {x}) /\ U \ {x} \in I
        BY <1>1, <4>1
      <4>4. Sum(W) <= Sum(U \ {x})
        BY <4>3
      <4>5. Sum(W) \in Int
        <5>1. IsFiniteSet(W) /\ \A y \in W : f[y] \in Int
          BY FS_Subset
        <5> QED BY <5>1, SumInt
      <4> HIDE DEF Sum
      <4> QED BY <4>2, <4>4, <4>5
    <3> QED BY <3>1, <3>2
  <2> QED BY <2>3, <2>4
<1>2. \A U \in SUBSET S : U \in I
  <2> HIDE DEF I
  <2> QED BY <1>1, AllSubsets
<1> QED BY <1>2

(* A single summand. *)
LEMMA SumOne ==
  ASSUME NEW f, NEW x, f[x] \in Int
  PROVE  SumFunctionOnSet(f, {x}) = f[x]
<1>1. IsFiniteSet({x}) /\ {x} \ {x} = {} /\ x \in {x} /\ \A y \in {x} : f[y] \in Int
  BY FS_Singleton
<1>2. SumFunctionOnSet(f, {x}) = f[x] + SumFunctionOnSet(f, {})
  BY <1>1, SumRemove
<1> QED BY <1>2, SumEmpty

(* The sum of ones is the number of summands. *)
LEMMA SumOnes ==
  ASSUME NEW f, NEW S, IsFiniteSet(S), \A x \in S : f[x] = 1
  PROVE  SumFunctionOnSet(f, S) = Cardinality(S)
<1> DEFINE I == {T \in SUBSET S : SumFunctionOnSet(f, T) = Cardinality(T)}
<1>1. ASSUME NEW T \in SUBSET S, \A x \in T : T \ {x} \in I PROVE T \in I
  <2>1. IsFiniteSet(T) /\ \A y \in T : f[y] \in Int
    BY FS_Subset
  <2>2. CASE T = {}
    BY <2>2, SumEmpty, FS_EmptySet
  <2>3. CASE T # {}
    <3>1. PICK x \in T : TRUE
      BY <2>3
    <3>2. SumFunctionOnSet(f, T) = f[x] + SumFunctionOnSet(f, T \ {x})
      BY <2>1, SumRemove
    <3>3. SumFunctionOnSet(f, T \ {x}) = Cardinality(T \ {x})
      BY <1>1
    <3>4. Cardinality(T \ {x}) = Cardinality(T) - 1 /\ Cardinality(T) \in Nat
      BY <2>1, FS_RemoveElement, FS_CardinalityType
    <3> QED BY <3>2, <3>3, <3>4
  <2> QED BY <2>2, <2>3
<1>2. \A T \in SUBSET S : T \in I
  <2> HIDE DEF I
  <2> QED BY <1>1, AllSubsets
<1> QED BY <1>2

LEMMA LeastIn ==
  ASSUME NEW S \in SUBSET Nat, S # {}
  PROVE  Min(S) \in S /\ \A k \in S : Min(S) <= k
<1>1. \E m \in S : \A k \in S : m =< k
  BY LeastNatural
<1> QED
  BY <1>1 DEF Min

(* The greatest of finitely many values, at least 0 *)
LatestIn(F, f) == Max({0} \cup {f[u] : u \in F})

LEMMA LatestOf ==
  ASSUME NEW F, IsFiniteSet(F), NEW f, \A u \in F : f[u] \in Nat, NEW M, M = LatestIn(F, f)
  PROVE  M \in Nat /\ (\A u \in F : f[u] <= M) /\ (M = 0 \/ \E u \in F : M = f[u])
<1> DEFINE A == {f[u] : u \in F}
           S == {0} \cup A
<1>1. IsFiniteSet(A)
  <2> DEFINE h == [u \in F |-> f[u]]
  <2>1. h \in Surjection(F, A)
    BY DEF Surjection
  <2> QED
    BY <2>1, FS_Surjection
<1>2. IsFiniteSet(S)
  <2> HIDE DEF A
  <2>1. IsFiniteSet(A \cup {0})
    BY <1>1, FS_AddElement
  <2>2. S = A \cup {0}
    OBVIOUS
  <2> QED
    BY <2>1, <2>2
<1>3. S \in SUBSET Int /\ 0 \in S /\ \A x \in S : x \in Nat
  OBVIOUS
<1>4. \A u \in F : f[u] \in S
  OBVIOUS
<1>5. \A x \in S : x = 0 \/ \E u \in F : x = f[u]
  OBVIOUS
<1>6. M = Max(S)
  BY DEF LatestIn
<1> HIDE DEF S
<1>7. \E x \in S : \A y \in S : x >= y
  <2>1. S # {}
    BY <1>3
  <2> QED
    BY <1>2, <1>3, <2>1, Greatest
<1>8. M \in S /\ \A y \in S : M >= y
  BY <1>6, <1>7 DEF Max
<1> QED
  BY <1>3, <1>4, <1>5, <1>8

----------------------------------------------------------------------------
(* Lists *)
(* R is a strict total order of S. *)
Orders(R, S) ==
  /\ \A x \in S : <<x, x>> \notin R
  /\ \A x, y \in S : x = y \/ <<x, y>> \in R \/ <<y, x>> \in R
  /\ \A x, y, z \in S : <<x, y>> \in R /\ <<y, z>> \in R => <<x, z>> \in R

LEMMA EarlierCounts ==
  ASSUME NEW S, IsFiniteSet(S), NEW R, Orders(R, S), NEW x \in S
  PROVE  /\ Earlier(x, S, R) \in 0 .. Cardinality(S) - 1
         /\ \A y \in S : <<x, y>> \in R => Earlier(x, S, R) < Earlier(y, S, R)
<1> DEFINE Before(y) == {z \in S : <<z, y>> \in R}
<1>1. \A y : IsFiniteSet(Before(y)) /\ Cardinality(Before(y)) \in Nat
  <2> SUFFICES ASSUME NEW y PROVE IsFiniteSet(Before(y)) /\ Cardinality(Before(y)) \in Nat
    OBVIOUS
  <2>1. Before(y) \in SUBSET S
    OBVIOUS
  <2> HIDE DEF Before
  <2> QED BY <2>1, FS_Subset, FS_CardinalityType
<1>2. Cardinality(Before(x)) < Cardinality(S) /\ Cardinality(S) \in Nat
  <2>1. Before(x) \in SUBSET S /\ x \notin Before(x)
    BY DEF Orders
  <2> HIDE DEF Before
  <2>2. Cardinality(Before(x)) <= Cardinality(S) /\ Cardinality(Before(x)) # Cardinality(S)
    BY <2>1, FS_Subset
  <2> QED BY <1>1, <2>2, FS_CardinalityType
<1>3. ASSUME NEW y \in S, <<x, y>> \in R PROVE Cardinality(Before(x)) < Cardinality(Before(y))
  <2>1. Before(x) \in SUBSET Before(y) /\ x \in Before(y) /\ x \notin Before(x)
    BY <1>3 DEF Orders
  <2> HIDE DEF Before
  <2>2. Cardinality(Before(x)) <= Cardinality(Before(y)) /\ Cardinality(Before(x)) # Cardinality(Before(y))
    BY <1>1, <2>1, FS_Subset
  <2> QED BY <1>1, <2>2
<1>4. \A y : Earlier(y, S, R) = Cardinality(Before(y))
  BY DEF Earlier
<1> HIDE DEF Before
<1> QED BY <1>1, <1>2, <1>3, <1>4

LEMMA EarlierInjective ==
  ASSUME NEW S, IsFiniteSet(S), NEW R, Orders(R, S), NEW x \in S, NEW y \in S,
         Earlier(x, S, R) = Earlier(y, S, R)
  PROVE  x = y
<1>1. Earlier(x, S, R) \in Int /\ Earlier(y, S, R) \in Int /\ Cardinality(S) \in Nat
  BY EarlierCounts, FS_CardinalityType
<1>2. <<x, y>> \notin R /\ <<y, x>> \notin R
  BY <1>1, EarlierCounts
<1> QED BY <1>2 DEF Orders

LEMMA EarlierOnto ==
  ASSUME NEW S, IsFiniteSet(S), NEW R, Orders(R, S), NEW i \in 1 .. Cardinality(S)
  PROVE  \E x \in S : Earlier(x, S, R) = i - 1
<1> DEFINE N == 0 .. Cardinality(S) - 1
           r == [x \in S |-> Earlier(x, S, R)]
<1>1. Cardinality(S) \in Nat
  BY FS_CardinalityType
<1>2. IsFiniteSet(N) /\ Cardinality(N) = Cardinality(S)
  <2>1. ASSUME NEW b \in Int PROVE IsFiniteSet(0 .. b) /\ Cardinality(0 .. b) = IF 0 > b THEN 0 ELSE b - 0 + 1
    BY FS_Interval
  <2>2. Cardinality(S) - 1 \in Int
    BY <1>1
  <2>3. IsFiniteSet(N) /\ Cardinality(N) = IF 0 > Cardinality(S) - 1 THEN 0 ELSE Cardinality(S) - 1 - 0 + 1
    BY <2>1, <2>2
  <2> QED BY <1>1, <2>3
<1>3. r \in Injection(S, N)
  <2>1. \A x \in S : Earlier(x, S, R) \in N
    BY EarlierCounts
  <2>2. \A x, y \in S : Earlier(x, S, R) = Earlier(y, S, R) => x = y
    BY EarlierInjective
  <2> HIDE DEF N
  <2> QED BY <2>1, <2>2 DEF Injection, IsInjective
<1>4. r \in Surjection(S, N)
  <2> HIDE DEF r, N
  <2> QED BY <1>2, <1>3, FS_Injection
<1>5. i - 1 \in N
  BY <1>1
<1>6. \E x \in S : r[x] = i - 1
  <2> HIDE DEF r, N
  <2> QED BY <1>4, <1>5 DEF Surjection
<1> QED BY <1>6

(* A list has every element of its set once. *)
LEMMA ListedIs ==
  ASSUME NEW S, IsFiniteSet(S), NEW R, Orders(R, S)
  PROVE  /\ Listed(S, R) \in Seq(S) /\ Len(Listed(S, R)) = Cardinality(S)
         /\ \A i, j \in DOMAIN Listed(S, R) : Listed(S, R)[i] = Listed(S, R)[j] => i = j
<1> DEFINE s == Listed(S, R)
<1>1. Cardinality(S) \in Nat
  BY FS_CardinalityType
<1>2. \A i \in 1 .. Cardinality(S) : s[i] \in S /\ Earlier(s[i], S, R) = i - 1
  BY EarlierOnto DEF Listed
<1>3. s = [i \in 1 .. Cardinality(S) |-> s[i]]
  BY DEF Listed
<1> HIDE DEF s
<1>4. s \in [1 .. Cardinality(S) -> S]
  BY <1>2, <1>3
<1>5. s \in Seq(S) /\ Len(s) = Cardinality(S) /\ DOMAIN s = 1 .. Cardinality(S)
  BY <1>1, <1>4
<1>6. ASSUME NEW i \in DOMAIN s, NEW j \in DOMAIN s, s[i] = s[j] PROVE i = j
  <2>1. i - 1 = j - 1 /\ i \in Int /\ j \in Int
    BY <1>2, <1>5, <1>6
  <2> QED BY <2>1
<1> QED BY <1>5, <1>6 DEF s

LEMMA ByIdOrders ==
  ASSUME NEW S \in SUBSET Nat, NEW T \in SUBSET S
  PROVE  Orders(ById(S), T)
<1>1. \A x, y \in S : <<x, y>> \in ById(S) <=> x < y
  BY DEF ById
<1>2. \A x, y \in T : x \in Nat /\ y \in Nat /\ (<<x, y>> \in ById(S) <=> x < y)
  BY <1>1
<1>3. /\ \A x \in T : <<x, x>> \notin ById(S)
      /\ \A x, y \in T : x = y \/ <<x, y>> \in ById(S) \/ <<y, x>> \in ById(S)
  BY <1>2
<1>4. \A x, y, z \in T : <<x, y>> \in ById(S) /\ <<y, z>> \in ById(S) => <<x, z>> \in ById(S)
  BY <1>2
<1> QED BY <1>3, <1>4 DEF Orders

----------------------------------------------------------------------------
LEMMA Typed ==
  ASSUME NEW n, IsNetwork(n)
  PROVE  /\ n.max \in Nat /\ n.pi \cap n.node = {}
         /\ \A v \in Vertices(n) : v \in Nat /\ v < n.max
         /\ \A v \in n.node : n.fanin[v] \in Seq(Vertices(n))
         /\ \A v \in Vertices(n) : n.part[v] \in Nat \cup {NoPart}
         /\ \A o \in DOMAIN n.po : n.po[o] \in Vertices(n)
BY DEF IsNetwork

(* A vertex reads vertices, and a vertex that reads something is a node. *)
LEMMA FaninsTyped ==
  ASSUME NEW n, IsNetwork(n), NEW v
  PROVE  /\ Fanins(n, v) \subseteq Vertices(n)
         /\ Fanins(n, v) # {} => v \in n.node
         /\ v \in n.node => Fanins(n, v) = {n.fanin[v][i] : i \in 1 .. Len(n.fanin[v])}
<1>1. CASE v \notin n.node
  BY <1>1 DEF Fanins
<1>2. CASE v \in n.node
  <2>1. n.fanin[v] \in Seq(Vertices(n))
    BY <1>2, Typed
  <2>2. /\ DOMAIN n.fanin[v] = 1 .. Len(n.fanin[v])
        /\ \A i \in DOMAIN n.fanin[v] : n.fanin[v][i] \in Vertices(n)
    BY <2>1
  <2> QED
    BY <1>2, <2>2 DEF Fanins, ToSet
<1> QED
  BY <1>1, <1>2

LEMMA VerticesFinite ==
  ASSUME NEW n, IsNetwork(n)
  PROVE  IsFiniteSet(Vertices(n)) /\ IsFiniteSet(n.node) /\ Vertices(n) \subseteq Nat
<1>1. Vertices(n) \subseteq 0 .. n.max - 1 /\ n.max \in Nat /\ n.node \subseteq Vertices(n)
  BY DEF IsNetwork, Vertices
<1>2. IsFiniteSet(0 .. n.max - 1)
  BY <1>1, FS_Interval
<1> QED
  BY <1>1, <1>2, FS_Subset

----------------------------------------------------------------------------
(* A set of vertices that has every vertex whose fanins it has is all of    *)
(* them.                                                                    *)
LEMMA FromFanins ==
  ASSUME NEW n, IsNetwork(n), Acyclic(n), NEW S,
         \A v \in Vertices(n) : Fanins(n, v) \subseteq S => v \in S
  PROVE  \A v \in Vertices(n) : v \in S
<1> DEFINE Bad == Vertices(n) \ S
<1>1. Bad \subseteq n.node
  BY FaninsTyped
<1>2. SUFFICES ASSUME Bad # {} PROVE FALSE
  OBVIOUS
<1>3. PICK v \in Bad : Fanins(n, v) \cap Bad = {}
  BY <1>1, <1>2 DEF Acyclic
<1>4. Fanins(n, v) \subseteq S
  BY <1>3, FaninsTyped
<1> QED
  BY <1>4

(* There is a solution to equations that look at the fanins only. *)
NetFlow(n, Val, B) ==
  /\ \A v \in Vertices(n), g \in [Vertices(n) -> Val] : B[v][g] \in Val
  /\ \A v \in Vertices(n), g, h \in [Vertices(n) -> Val] :
       (\A u \in Fanins(n, v) : g[u] = h[u]) => B[v][g] = B[v][h]

LEMMA NetFlowExists ==
  ASSUME NEW n, IsNetwork(n), Acyclic(n), NEW Val, Val # {}, NEW B, NetFlow(n, Val, B)
  PROVE  Solvable(Vertices(n), Val, B)
<1> DEFINE D == [v \in Vertices(n) |-> Fanins(n, v)]
<1>1. IsFiniteSet(Vertices(n))
  BY VerticesFinite
<1>2. \A v \in Vertices(n) : D[v] = Fanins(n, v)
  OBVIOUS
<1> HIDE DEF D
<1>3. Grounded(Vertices(n), D)
  <2>1. \A v \in Vertices(n) : D[v] \subseteq Vertices(n)
    BY <1>2, FaninsTyped
  <2>2. ASSUME NEW S \in SUBSET Vertices(n), S # {}
        PROVE  \E v \in S : D[v] \cap S = {}
    <3>1. CASE S \subseteq n.node
      <4>1. PICK v \in S : Fanins(n, v) \cap S = {}
        BY <2>2, <3>1 DEF Acyclic
      <4> QED BY <1>2, <4>1
    <3>2. CASE ~(S \subseteq n.node)
      <4>1. PICK v \in S : v \notin n.node
        BY <3>2
      <4> QED BY <1>2, <4>1 DEF Fanins
    <3> QED BY <3>1, <3>2
  <2> QED BY <2>1, <2>2 DEF Grounded
<1>4. IsFlow(Vertices(n), D, Val, B)
  BY <1>2 DEF IsFlow, NetFlow
<1> QED BY <1>1, <1>3, <1>4, FlowExists

----------------------------------------------------------------------------
(* The edits, field by field *)
Fields == {"max", "pi", "node", "fanin", "truth", "part", "po"}

LEMMA SameFields ==
  ASSUME NEW r, NEW q, r = [x \in Fields |-> r[x]], q = [x \in Fields |-> q[x]],
         r.max = q.max, r.pi = q.pi, r.node = q.node, r.fanin = q.fanin, r.truth = q.truth,
         r.part = q.part, r.po = q.po
  PROVE  r = q
<1>1. \A x \in Fields : r[x] = q[x]
  BY DEF Fields
<1> QED
  BY <1>1

LEMMA NetworkFields ==
  ASSUME NEW n, IsNetwork(n)
  PROVE  /\ n = [x \in Fields |-> n[x]] /\ DOMAIN n = Fields
         /\ DOMAIN n.fanin = n.node /\ DOMAIN n.truth = n.node /\ DOMAIN n.part = Vertices(n)
<1>1. n = [ max |-> n.max, pi |-> n.pi, node |-> n.node, fanin |-> n.fanin,
            truth |-> n.truth, part |-> n.part, po |-> n.po ]
      /\ DOMAIN n.fanin = n.node /\ DOMAIN n.truth = n.node /\ DOMAIN n.part = Vertices(n)
  BY DEF IsNetwork
<1>2. DOMAIN n = Fields /\ n = [x \in DOMAIN n |-> n[x]]
  BY <1>1 DEF Fields
<1> QED
  BY <1>1, <1>2

LEMMA AsRecord ==
  ASSUME NEW m, m = [x \in Fields |-> m[x]]
  PROVE  m = [ max |-> m.max, pi |-> m.pi, node |-> m.node, fanin |-> m.fanin,
               truth |-> m.truth, part |-> m.part, po |-> m.po ]
<1> DEFINE q == [ max |-> m.max, pi |-> m.pi, node |-> m.node, fanin |-> m.fanin,
                  truth |-> m.truth, part |-> m.part, po |-> m.po ]
<1>1. DOMAIN q = Fields /\ q = [x \in DOMAIN q |-> q[x]]
  BY DEF Fields
<1>2. /\ m.max = q.max /\ m.pi = q.pi /\ m.node = q.node /\ m.fanin = q.fanin
      /\ m.truth = q.truth /\ m.part = q.part /\ m.po = q.po
  OBVIOUS
<1> HIDE DEF q
<1>3. m = q
  BY <1>1, <1>2, SameFields
<1> QED
  BY <1>3 DEF q

(* m has the form of a network. *)
Shaped(m) ==
  /\ m = [x \in Fields |-> m[x]]
  /\ m.fanin = [v \in m.node |-> m.fanin[v]]
  /\ m.truth = [v \in m.node |-> m.truth[v]]
  /\ m.part = [v \in Vertices(m) |-> m.part[v]]

LEMMA NetworkShaped ==
  ASSUME NEW n, IsNetwork(n)
  PROVE  Shaped(n)
<1>1. n = [x \in Fields |-> n[x]]
  BY NetworkFields
<1>2. /\ n.fanin = [v \in n.node |-> n.fanin[v]]
      /\ n.truth = [v \in n.node |-> n.truth[v]]
      /\ n.part = [v \in Vertices(n) |-> n.part[v]]
  BY DEF IsNetwork
<1> QED
  BY <1>1, <1>2 DEF Shaped

(* Networks are the same if all but the next number is. *)
Same(a, b) ==
  /\ Shaped(a) /\ Shaped(b)
  /\ a.pi = b.pi /\ a.node = b.node /\ a.fanin = b.fanin /\ a.truth = b.truth
  /\ a.part = b.part /\ a.po = b.po

LEMMA SameAt ==
  ASSUME NEW a, NEW b, Shaped(a), Shaped(b), a.pi = b.pi, a.node = b.node, a.po = b.po,
         \A v \in a.node : a.fanin[v] = b.fanin[v] /\ a.truth[v] = b.truth[v],
         \A v \in Vertices(a) : a.part[v] = b.part[v]
  PROVE  Same(a, b)
<1>1. Vertices(a) = Vertices(b)
  BY DEF Vertices
<1>2. a.fanin = b.fanin
  BY DEF Shaped
<1>3. a.truth = b.truth
  BY DEF Shaped
<1>4. a.part = b.part
  BY <1>1 DEF Shaped
<1> QED
  BY <1>2, <1>3, <1>4 DEF Same

IsExtension(m, n, f, t, p) ==
  /\ m = [x \in Fields |-> m[x]]
  /\ m.max = n.max + 1 /\ m.pi = n.pi /\ m.node = n.node \cup {n.max} /\ m.po = n.po
  /\ m.fanin = [v \in m.node |-> m.fanin[v]]
  /\ m.truth = [v \in m.node |-> m.truth[v]]
  /\ m.part = [v \in Vertices(m) |-> m.part[v]]
  /\ m.fanin[n.max] = f /\ m.truth[n.max] = t /\ m.part[n.max] = p
  /\ \A v \in n.node : m.fanin[v] = n.fanin[v] /\ m.truth[v] = n.truth[v]
  /\ \A v \in Vertices(n) : m.part[v] = n.part[v]
  /\ Vertices(m) = Vertices(n) \cup {n.max} /\ n.max \notin Vertices(n)

LEMMA ExtendedFields ==
  ASSUME NEW n, IsNetwork(n), NEW f, NEW t, NEW p, NEW m, m = Extended(n, f, t, p)
  PROVE  IsExtension(m, n, f, t, p)
<1>1. /\ DOMAIN n = Fields
      /\ DOMAIN n.fanin = n.node /\ DOMAIN n.truth = n.node /\ DOMAIN n.part = Vertices(n)
  BY NetworkFields
<1>2. m = [x \in Fields |-> m[x]]
  BY <1>1 DEF Extended
<1>3. m.max = n.max + 1 /\ m.pi = n.pi /\ m.node = n.node \cup {n.max} /\ m.po = n.po
  BY <1>1 DEF Extended, Fields
<1>4. m.fanin = [v \in n.node \cup {n.max} |-> IF v = n.max THEN f ELSE n.fanin[v]]
  BY <1>1 DEF Extended, Fields
<1>5. m.truth = [v \in n.node \cup {n.max} |-> IF v = n.max THEN t ELSE n.truth[v]]
  BY <1>1 DEF Extended, Fields
<1>6. m.part = [v \in Vertices(n) \cup {n.max} |-> IF v = n.max THEN p ELSE n.part[v]]
  BY <1>1 DEF Extended, Fields
<1>7. Vertices(m) = Vertices(n) \cup {n.max} /\ n.max \notin Vertices(n) /\ n.node \subseteq Vertices(n)
  <2>1. \A v \in Vertices(n) : v < n.max /\ n.max \in Nat
    BY Typed
  <2> QED
    BY <1>3, <2>1 DEF Vertices
<1>8. /\ m.fanin[n.max] = f /\ m.truth[n.max] = t /\ m.part[n.max] = p
      /\ \A v \in n.node : m.fanin[v] = n.fanin[v] /\ m.truth[v] = n.truth[v]
      /\ \A v \in Vertices(n) : m.part[v] = n.part[v]
  BY <1>4, <1>5, <1>6, <1>7
<1>9. /\ m.fanin = [v \in m.node |-> m.fanin[v]]
      /\ m.truth = [v \in m.node |-> m.truth[v]]
      /\ m.part = [v \in Vertices(m) |-> m.part[v]]
  BY <1>3, <1>4, <1>5, <1>6, <1>7
<1> QED
  BY <1>2, <1>3, <1>7, <1>8, <1>9 DEF IsExtension

LEMMA PatchedFields ==
  ASSUME NEW n, IsNetwork(n), NEW S, NEW u, NEW w, NEW m, m = Patched(n, S, u, w)
  PROVE  /\ m = [x \in Fields |-> m[x]]
         /\ m.max = n.max /\ m.pi = n.pi /\ m.node = n.node /\ m.po = n.po
         /\ m.fanin = [v \in n.node |-> IF v \in S THEN ReplaceAll(n.fanin[v], u, w) ELSE n.fanin[v]]
         /\ m.truth = n.truth /\ m.part = n.part /\ Vertices(m) = Vertices(n)
<1>1. DOMAIN n = Fields
  BY NetworkFields
<1>2. m = [x \in Fields |-> m[x]]
  BY <1>1 DEF Patched
<1>3. /\ m.max = n.max /\ m.pi = n.pi /\ m.node = n.node /\ m.po = n.po
      /\ m.fanin = [v \in n.node |-> IF v \in S THEN ReplaceAll(n.fanin[v], u, w) ELSE n.fanin[v]]
      /\ m.truth = n.truth /\ m.part = n.part
  BY <1>1 DEF Patched, Fields
<1> QED
  BY <1>2, <1>3 DEF Vertices

(* m is n without the nodes in D. *)
IsWithout(m, n, D) ==
  /\ Shaped(m) /\ m.max = n.max /\ m.pi = n.pi /\ m.node = n.node \ D /\ m.po = n.po
  /\ \A v \in m.node : m.fanin[v] = n.fanin[v] /\ m.truth[v] = n.truth[v]
  /\ \A v \in Vertices(m) : m.part[v] = n.part[v]

LEMMA WithoutIs ==
  ASSUME NEW n, IsNetwork(n), NEW D, NEW m, m = Without(n, D)
  PROVE  IsWithout(m, n, D)
<1>1. DOMAIN n = Fields
  BY NetworkFields
<1>2. m = [x \in Fields |-> m[x]]
  BY <1>1 DEF Without
<1>3. m.max = n.max /\ m.pi = n.pi /\ m.node = n.node \ D /\ m.po = n.po
  BY <1>1 DEF Without, Fields
<1>4. /\ m.fanin = [v \in m.node |-> n.fanin[v]]
      /\ m.truth = [v \in m.node |-> n.truth[v]]
  BY <1>1, <1>3 DEF Without, Fields
<1>5. m.part = [v \in Vertices(m) |-> n.part[v]]
  BY <1>1, <1>3 DEF Without, Fields, Vertices
<1> QED
  BY <1>2, <1>3, <1>4, <1>5 DEF IsWithout, Shaped

(* What they keep of the types *)
LEMMA SeqGrows ==
  ASSUME NEW V, NEW W, V \subseteq W, NEW s \in Seq(V)
  PROVE  s \in Seq(W)
OBVIOUS

LEMMA ReplacedIn ==
  ASSUME NEW V, NEW W, NEW s \in Seq(V), NEW u, NEW w \in W, V \ {u} \subseteq W
  PROVE  /\ ReplaceAll(s, u, w) \in Seq(W) /\ Len(ReplaceAll(s, u, w)) = Len(s)
         /\ DOMAIN ReplaceAll(s, u, w) = DOMAIN s
         /\ \A i \in DOMAIN s : ReplaceAll(s, u, w)[i] = (IF s[i] = u THEN w ELSE s[i])
<1> DEFINE r == ReplaceAll(s, u, w)
<1>1. /\ DOMAIN r = 1 .. Len(s) /\ DOMAIN s = 1 .. Len(s) /\ Len(s) \in Nat
      /\ \A i \in 1 .. Len(s) : r[i] = (IF s[i] = u THEN w ELSE s[i])
  BY DEF ReplaceAll
<1>2. \A i \in 1 .. Len(s) : r[i] \in W
  BY <1>1
<1>3. r = [i \in 1 .. Len(s) |-> r[i]]
  BY DEF ReplaceAll
<1>4. r \in Seq(W) /\ Len(r) = Len(s)
  BY <1>1, <1>2, <1>3
<1> QED
  BY <1>1, <1>4

LEMMA ReplacedAt ==
  ASSUME NEW V, NEW s \in Seq(V), NEW u, NEW w
  PROVE  /\ DOMAIN ReplaceAll(s, u, w) = DOMAIN s
         /\ \A i \in DOMAIN s : ReplaceAll(s, u, w)[i] = (IF s[i] = u THEN w ELSE s[i])
BY DEF ReplaceAll

LEMMA ExtendedNetwork ==
  ASSUME NEW n, IsNetwork(n), NEW f \in Seq(Vertices(n)), NEW t \in SUBSET SUBSET DOMAIN f,
         NEW p \in Nat \cup {NoPart}, NEW m, m = Extended(n, f, t, p)
  PROVE  IsNetwork(m)
<1>0. IsExtension(m, n, f, t, p)
  BY ExtendedFields
<1>1. /\ m = [x \in Fields |-> m[x]]
      /\ m.max = n.max + 1 /\ m.pi = n.pi /\ m.node = n.node \cup {n.max} /\ m.po = n.po
      /\ m.fanin = [v \in m.node |-> m.fanin[v]]
      /\ m.truth = [v \in m.node |-> m.truth[v]]
      /\ m.part = [v \in Vertices(m) |-> m.part[v]]
  BY <1>0 DEF IsExtension
<1>2. /\ m.fanin[n.max] = f /\ m.truth[n.max] = t /\ m.part[n.max] = p
      /\ \A v \in n.node : m.fanin[v] = n.fanin[v] /\ m.truth[v] = n.truth[v]
      /\ \A v \in Vertices(n) : m.part[v] = n.part[v]
      /\ Vertices(m) = Vertices(n) \cup {n.max} /\ n.max \notin Vertices(n)
  BY <1>0 DEF IsExtension
<1>3. /\ n.max \in Nat /\ n.pi \cap n.node = {} /\ n.pi \subseteq Vertices(n)
      /\ \A v \in Vertices(n) : v \in 0 .. n.max - 1
      /\ \A v \in n.node : n.fanin[v] \in Seq(Vertices(n))
      /\ \A v \in n.node : n.truth[v] \subseteq SUBSET DOMAIN n.fanin[v]
      /\ \A v \in Vertices(n) : n.part[v] \in Nat \cup {NoPart}
      /\ n.po \in Seq(Vertices(n))
  BY DEF IsNetwork, Vertices
<1>4. m.max \in Nat
  BY <1>1, <1>3
<1>5. m.pi \cap m.node = {}
  BY <1>1, <1>2, <1>3
<1>6. \A v \in Vertices(m) : v \in 0 .. m.max - 1
  BY <1>1, <1>2, <1>3
<1>7. m.po \in Seq(Vertices(m)) /\ \A s \in Seq(Vertices(n)) : s \in Seq(Vertices(m))
  BY <1>1, <1>2, <1>3, SeqGrows
<1>8. m.fanin \in [m.node -> Seq(Vertices(m))]
  <2>1. \A v \in m.node : m.fanin[v] \in Seq(Vertices(m))
    BY <1>1, <1>2, <1>3, <1>7
  <2> QED
    BY <1>1, <2>1
<1>9. m.truth = [v \in m.node |-> m.truth[v] \cap SUBSET DOMAIN m.fanin[v]]
  <2>1. m.truth[n.max] \subseteq SUBSET DOMAIN m.fanin[n.max]
    BY <1>2
  <2>2. \A v \in n.node : m.truth[v] \subseteq SUBSET DOMAIN m.fanin[v]
    BY <1>2, <1>3
  <2>3. \A v \in m.node : m.truth[v] = m.truth[v] \cap SUBSET DOMAIN m.fanin[v]
    BY <1>1, <2>1, <2>2
  <2> QED
    BY <1>1, <2>3
<1>10. m.part \in [Vertices(m) -> Nat \cup {NoPart}]
  <2>1. \A v \in Vertices(m) : m.part[v] \in Nat \cup {NoPart}
    BY <1>2, <1>3
  <2> QED
    BY <1>1, <2>1
<1>11. m = [ max |-> m.max, pi |-> m.pi, node |-> m.node, fanin |-> m.fanin,
             truth |-> m.truth, part |-> m.part, po |-> m.po ]
  BY <1>1, AsRecord
<1> QED
  BY <1>4, <1>5, <1>6, <1>7, <1>8, <1>9, <1>10, <1>11 DEF IsNetwork

LEMMA PatchedNetwork ==
  ASSUME NEW n, IsNetwork(n), NEW S, NEW u, NEW w \in Vertices(n), NEW m, m = Patched(n, S, u, w)
  PROVE  IsNetwork(m)
<1>1. /\ m = [x \in Fields |-> m[x]]
      /\ m.max = n.max /\ m.pi = n.pi /\ m.node = n.node /\ m.po = n.po
      /\ m.fanin = [v \in n.node |-> IF v \in S THEN ReplaceAll(n.fanin[v], u, w) ELSE n.fanin[v]]
      /\ m.truth = n.truth /\ m.part = n.part /\ Vertices(m) = Vertices(n)
  BY PatchedFields
<1>2. /\ n.max \in Nat /\ n.pi \cap n.node = {}
      /\ \A v \in Vertices(n) : v \in 0 .. n.max - 1
      /\ \A v \in n.node : n.fanin[v] \in Seq(Vertices(n))
      /\ n.truth = [v \in n.node |-> n.truth[v] \cap SUBSET DOMAIN n.fanin[v]]
      /\ n.part \in [Vertices(n) -> Nat \cup {NoPart}]
      /\ n.po \in Seq(Vertices(n))
  BY DEF IsNetwork
<1>3. \A v \in n.node : /\ ReplaceAll(n.fanin[v], u, w) \in Seq(Vertices(n))
                        /\ DOMAIN ReplaceAll(n.fanin[v], u, w) = DOMAIN n.fanin[v]
  BY <1>2, ReplacedIn
<1>4. \A v \in m.node : m.fanin[v] \in Seq(Vertices(m)) /\ DOMAIN m.fanin[v] = DOMAIN n.fanin[v]
  <2> TAKE v \in m.node
  <2>1. CASE v \in S
    BY <1>1, <1>3, <2>1
  <2>2. CASE v \notin S
    BY <1>1, <1>2, <2>2
  <2> QED
    BY <2>1, <2>2
<1>5. m.fanin \in [m.node -> Seq(Vertices(m))]
  BY <1>1, <1>4
<1>6. m.truth = [v \in m.node |-> m.truth[v] \cap SUBSET DOMAIN m.fanin[v]]
  BY ZenonT(30), <1>1, <1>2, <1>4
<1>7. /\ m.max \in Nat /\ m.pi \cap m.node = {}
      /\ \A v \in Vertices(m) : v \in 0 .. m.max - 1
      /\ m.part \in [Vertices(m) -> Nat \cup {NoPart}] /\ m.po \in Seq(Vertices(m))
  BY <1>1, <1>2
<1>8. m = [ max |-> m.max, pi |-> m.pi, node |-> m.node, fanin |-> m.fanin,
            truth |-> m.truth, part |-> m.part, po |-> m.po ]
  BY <1>1, AsRecord
<1> QED
  BY <1>5, <1>6, <1>7, <1>8 DEF IsNetwork

(* Another labelling with parts, another next number: the rest is the same. *)
LEMMA RepartNetwork ==
  ASSUME NEW n, IsNetwork(n), NEW q \in [Vertices(n) -> Nat \cup {NoPart}], NEW m, m = [n EXCEPT !.part = q]
  PROVE  /\ IsNetwork(m) /\ m.part = q /\ m.max = n.max /\ m.pi = n.pi /\ m.node = n.node
         /\ m.fanin = n.fanin /\ m.truth = n.truth /\ m.po = n.po
<1>1. DOMAIN n = Fields
  BY NetworkFields
<1>2. m = [x \in Fields |-> m[x]]
  BY <1>1
<1>3. /\ m.max = n.max /\ m.pi = n.pi /\ m.node = n.node /\ m.fanin = n.fanin
      /\ m.truth = n.truth /\ m.part = q /\ m.po = n.po
  BY <1>1 DEF Fields
<1>4. Vertices(m) = Vertices(n)
  BY <1>3 DEF Vertices
<1>5. m = [ max |-> m.max, pi |-> m.pi, node |-> m.node, fanin |-> m.fanin,
            truth |-> m.truth, part |-> m.part, po |-> m.po ]
  BY <1>2, AsRecord
<1> QED
  BY ZenonT(30), <1>3, <1>4, <1>5 DEF IsNetwork

LEMMA LaterNetwork ==
  ASSUME NEW n, IsNetwork(n), NEW k \in Nat, k >= n.max, NEW m, m = [n EXCEPT !.max = k]
  PROVE  /\ IsNetwork(m) /\ m.part = n.part /\ m.max = k /\ m.pi = n.pi /\ m.node = n.node
         /\ m.fanin = n.fanin /\ m.truth = n.truth /\ m.po = n.po
<1>1. DOMAIN n = Fields
  BY NetworkFields
<1>2. m = [x \in Fields |-> m[x]]
  BY <1>1
<1>3. /\ m.max = k /\ m.pi = n.pi /\ m.node = n.node /\ m.fanin = n.fanin
      /\ m.truth = n.truth /\ m.part = n.part /\ m.po = n.po
  BY <1>1 DEF Fields
<1>4. Vertices(m) = Vertices(n)
  BY <1>3 DEF Vertices
<1>5. m = [ max |-> m.max, pi |-> m.pi, node |-> m.node, fanin |-> m.fanin,
            truth |-> m.truth, part |-> m.part, po |-> m.po ]
  BY <1>2, AsRecord
<1>6. /\ n.max \in Nat /\ n.pi \cap n.node = {}
      /\ \A v \in Vertices(n) : v \in 0 .. n.max - 1
  BY DEF IsNetwork
<1>7. \A v \in Vertices(m) : v \in 0 .. m.max - 1
  BY <1>3, <1>4, <1>6
<1> QED
  BY ZenonT(30), <1>3, <1>4, <1>5, <1>6, <1>7 DEF IsNetwork

(* Acyclicity is about fanins and nothing else. *)
LEMMA AcyclicSame ==
  ASSUME NEW n, NEW m, Acyclic(n), m.node = n.node, m.fanin = n.fanin
  PROVE  Acyclic(m)
BY DEF Acyclic, Fanins

(* Cut nets are counted by naturals. *)
LEMMA CutsTyped ==
  ASSUME NEW n, IsNetwork(n)
  PROVE  CutDrivers(n) \subseteq Vertices(n) /\ CutNets(n) \in Nat
<1>1. CutDrivers(n) \subseteq Vertices(n)
  <2>1. \A v \in n.node : \A i \in DOMAIN n.fanin[v] : n.fanin[v][i] \in Vertices(n)
    BY Typed
  <2> QED
    BY <2>1 DEF CutDrivers, CutSlots, Slots, Driver
<1> QED
  BY <1>1, VerticesFinite, FS_Subset, FS_CardinalityType DEF CutNets

LEMMA CutsAre ==
  ASSUME NEW n, IsNetwork(n)
  PROVE  CutNets(n) \in Nat /\ CutNets(n) = Cardinality(CutDrivers(n))
BY CutsTyped DEF CutNets

LEMMA CutsSame ==
  ASSUME NEW m, NEW n, m.node = n.node, m.fanin = n.fanin, m.part = n.part
  PROVE  CutDrivers(m) = CutDrivers(n)
<1>1. Slots(m) = Slots(n)
  BY DEF Slots
<1>2. \A s : Driver(m, s) = Driver(n, s)
  BY DEF Driver
<1>3. \A u, v : Crosses(m, u, v) = Crosses(n, u, v)
  BY DEF Crosses
<1>4. CutSlots(m) = CutSlots(n)
  BY <1>1, <1>2, <1>3 DEF CutSlots
<1> QED
  BY <1>2, <1>4 DEF CutDrivers

----------------------------------------------------------------------------
(* Sameness *)
LEMMA SameTwice ==
  ASSUME NEW a, NEW b, NEW d, Same(a, b), Same(b, d)
  PROVE  Same(a, d)
BY DEF Same

LEMMA SameNetwork ==
  ASSUME NEW a, NEW b, Same(a, b), IsNetwork(b), a.max \in Nat, a.max >= b.max
  PROVE  IsNetwork(a)
<1>1. /\ b.pi \cap b.node = {} /\ b.max \in Nat
      /\ \A v \in Vertices(b) : v \in 0 .. b.max - 1
      /\ b.fanin \in [b.node -> Seq(Vertices(b))]
      /\ b.truth = [v \in b.node |-> b.truth[v] \cap SUBSET DOMAIN b.fanin[v]]
      /\ b.part \in [Vertices(b) -> Nat \cup {NoPart}]
      /\ b.po \in Seq(Vertices(b))
  BY DEF IsNetwork
<1>2. Vertices(a) = Vertices(b)
  BY DEF Same, Vertices
<1>3. /\ a.pi = b.pi /\ a.node = b.node /\ a.fanin = b.fanin /\ a.truth = b.truth
      /\ a.part = b.part /\ a.po = b.po
  BY DEF Same
<1>4. a = [ max |-> a.max, pi |-> a.pi, node |-> a.node, fanin |-> a.fanin, truth |-> a.truth,
            part |-> a.part, po |-> a.po ]
  <2>1. a = [x \in Fields |-> a[x]]
    BY DEF Same, Shaped
  <2> QED
    BY <2>1, AsRecord
<1>5. \A v \in Vertices(a) : v \in 0 .. a.max - 1
  BY <1>1, <1>2
<1>6. a.truth = [v \in a.node |-> a.truth[v] \cap SUBSET DOMAIN a.fanin[v]]
  BY <1>1, <1>3
<1> QED
  BY <1>1, <1>2, <1>3, <1>4, <1>5, <1>6 DEF IsNetwork

LEMMA LaterSame ==
  ASSUME NEW n, IsNetwork(n), NEW k \in Nat, k >= n.max, NEW m, m = [n EXCEPT !.max = k]
  PROVE  Same(m, n) /\ IsNetwork(m) /\ m.max = k
<1>1. /\ IsNetwork(m) /\ m.part = n.part /\ m.max = k /\ m.pi = n.pi /\ m.node = n.node
      /\ m.fanin = n.fanin /\ m.truth = n.truth /\ m.po = n.po
  BY LaterNetwork
<1>2. Shaped(m) /\ Shaped(n)
  BY <1>1, NetworkShaped
<1> QED
  BY <1>1, <1>2 DEF Same

LEMMA SameRefl == ASSUME NEW n, IsNetwork(n) PROVE Same(n, n)
BY NetworkShaped DEF Same

LEMMA SameBack == ASSUME NEW a, NEW b, Same(a, b) PROVE Same(b, a)
BY DEF Same

(* Networks that are the same differ in the next number only. *)
LEMMA SameCircuit ==
  ASSUME NEW m, NEW n, Same(m, n)
  PROVE  Circuit(m) = Circuit(n)
<1> DEFINE a == Circuit(m)
           b == Circuit(n)
<1>1. DOMAIN m = Fields /\ DOMAIN n = Fields
  BY DEF Same, Shaped
<1>2. a = [x \in Fields |-> a[x]] /\ b = [x \in Fields |-> b[x]]
  BY <1>1 DEF Circuit
<1>3. /\ a.max = 0 /\ a.pi = m.pi /\ a.node = m.node /\ a.fanin = m.fanin /\ a.truth = m.truth
      /\ a.part = m.part /\ a.po = m.po
  BY <1>1 DEF Circuit, Fields
<1>4. /\ b.max = 0 /\ b.pi = n.pi /\ b.node = n.node /\ b.fanin = n.fanin /\ b.truth = n.truth
      /\ b.part = n.part /\ b.po = n.po
  BY <1>1 DEF Circuit, Fields
<1> HIDE DEF a, b
<1>5. a = b
  BY <1>2, <1>3, <1>4, SameFields DEF Same
<1> QED
  BY <1>5 DEF a, b

----------------------------------------------------------------------------
(* Other changes of the network give vertices other parts. *)
IsReparted(m, n) ==
  /\ m.pi = n.pi /\ m.node = n.node /\ m.fanin = n.fanin /\ m.truth = n.truth /\ m.po = n.po
  /\ m.max = n.max /\ IsNetwork(m)

LEMMA MovedIs ==
  ASSUME NEW n, IsNetwork(n), NEW v \in Vertices(n), NEW p \in Nat, NEW m, m = Moved(n, v, p)
  PROVE  IsReparted(m, n)
<1> DEFINE r == [n.part EXCEPT ![v] = p]
<1>1. r \in [Vertices(n) -> Nat \cup {NoPart}]
  BY DEF IsNetwork
<1>2. m = [n EXCEPT !.part = r]
  <2>1. m = [n EXCEPT !.part = [n.part EXCEPT ![v] = p]]
    BY DEF Moved
  <2> QED
    BY <2>1
<1> HIDE DEF r
<1> QED
  BY <1>1, <1>2, RepartNetwork DEF IsReparted

LEMMA RepartedAcyclic ==
  ASSUME NEW n, NEW m, Acyclic(n), IsReparted(m, n)
  PROVE  Acyclic(m)
BY AcyclicSame DEF IsReparted

----------------------------------------------------------------------------
(* Sizes, and the balance: some part is below the limit if one is over it.  *)
LEMMA SizesAre ==
  ASSUME NEW n, IsNetwork(n), NEW parts \in Nat, NEW sz, sz = Sizes(n, parts)
  PROVE  DOMAIN sz = 0 .. parts - 1 /\ \A p \in 0 .. parts - 1 : sz[p] \in Nat
<1>1. \A p \in 0 .. parts - 1 : sz[p] = Cardinality({v \in Vertices(n) : n.part[v] = p})
  BY DEF Sizes
<1>2. ASSUME NEW p \in 0 .. parts - 1
      PROVE  Cardinality({v \in Vertices(n) : n.part[v] = p}) \in Nat
  <2> DEFINE S == {v \in Vertices(n) : n.part[v] = p}
  <2>1. IsFiniteSet(S)
    <3>1. S \subseteq Vertices(n)
      OBVIOUS
    <3> HIDE DEF S
    <3> QED
      BY <3>1, VerticesFinite, FS_Subset
  <2> HIDE DEF S
  <2>2. Cardinality(S) \in Nat
    BY <2>1, FS_CardinalityType
  <2> QED
    BY <2>2 DEF S
<1> QED
  BY <1>1, <1>2 DEF Sizes

LEMMA SumAtLeast ==
  ASSUME NEW f, NEW S, IsFiniteSet(S), NEW b \in Int, \A x \in S : f[x] \in Int /\ f[x] >= b
  PROVE  SumFunctionOnSet(f, S) >= b * Cardinality(S)
<1> DEFINE I == {T \in SUBSET S : SumFunctionOnSet(f, T) >= b * Cardinality(T)}
<1>1. ASSUME NEW T \in SUBSET S, \A x \in T : T \ {x} \in I
      PROVE  T \in I
  <2>1. IsFiniteSet(T) /\ Cardinality(T) \in Nat
    BY FS_Subset, FS_CardinalityType
  <2>2. CASE T = {}
    <3>1. Cardinality(T) = 0 /\ SumFunctionOnSet(f, T) = 0
      BY <2>2, FS_EmptySet, SumEmpty
    <3> QED
      BY <3>1
  <2>3. CASE T # {}
    <3>1. PICK x \in T : TRUE
      BY <2>3
    <3> DEFINE W == T \ {x}
               s == SumFunctionOnSet(f, T)
               r == SumFunctionOnSet(f, W)
    <3>2. s = f[x] + r
      BY <2>1, SumRemove
    <3>3. r \in Int
      <4>1. IsFiniteSet(W) /\ \A y \in W : f[y] \in Int
        BY <2>1, FS_Subset
      <4> QED
        BY <4>1, SumInt
    <3>4. r >= b * Cardinality(W)
      BY <1>1
    <3>5. Cardinality(W) = Cardinality(T) - 1
      BY <2>1, FS_RemoveElement
    <3> DEFINE c == Cardinality(T)
    <3> HIDE DEF W, s, r, c
    <3>6. c \in Nat /\ r >= b * (c - 1) /\ s = f[x] + r /\ f[x] \in Int /\ f[x] >= b
      BY <2>1, <3>2, <3>4, <3>5 DEF c
    <3>7. b * (c - 1) = b * c - b /\ b * c \in Int
      BY <3>6
    <3>8. s >= b * c
      <4> DEFINE z == b * c
      <4> HIDE DEF z
      <4>1. z \in Int /\ r >= z - b
        BY <3>6, <3>7 DEF z
      <4>2. s >= z
        BY <3>3, <3>6, <4>1
      <4> QED
        BY <4>2 DEF z
    <3> QED
      BY <3>8 DEF s, c
  <2> QED
    BY <2>2, <2>3
<1>2. \A T \in SUBSET S : T \in I
  <2> HIDE DEF I
  <2> QED
    BY <1>1, AllSubsets
<1> QED
  BY <1>2

(* The limit is more than the average. *)
LEMMA LimitAbove ==
  ASSUME NEW D, IsFiniteSet(D), NEW sz, D = DOMAIN sz, \A p \in D : sz[p] \in Nat,
         NEW pct \in Nat, NEW most, most = MaxAllowed(sz, pct), NEW o \in D, sz[o] > most
  PROVE  most \in Nat /\ \E p \in D : sz[p] < most
<1> DEFINE c == Cardinality(D)
           total == SumFunctionOnSet(sz, D)
           avg == total \div c
           slack == Max({(avg * pct + 99) \div 100, 1})
<1>1. c \in Nat /\ c > 0
  <2>1. c \in Nat
    BY FS_CardinalityType
  <2>2. c # 0
    BY FS_EmptySet
  <2> QED
    BY <2>1, <2>2
<1>2. total \in Nat /\ \A p \in D : sz[p] \in Int
  BY SumGrows
<1>3. MapThenSumSet(LAMBDA p : sz[p], DOMAIN sz) = total
  BY DEF MapThenSumSet, SumFunctionOnSet, FoldFunctionOnSet
<1>4. most = IF total = 0 THEN 0 ELSE avg + slack
  BY <1>3 DEF MaxAllowed
<1>5. total >= sz[o]
  <2>1. SumFunctionOnSet(sz, {o}) <= total
    BY SumGrows
  <2>2. SumFunctionOnSet(sz, {o}) = sz[o]
    BY SumOne
  <2> QED
    BY <2>1, <2>2
<1>6. avg \in Nat /\ total < c * (avg + 1)
  <2> HIDE DEF c, total
  <2> QED
    BY <1>1, <1>2
<1>7. slack \in Nat /\ slack >= 1
  <2> DEFINE x == (avg * pct + 99) \div 100
  <2>1. x \in Nat
    <3>1. avg * pct \in Nat
      <4> HIDE DEF avg
      <4> QED
        BY <1>6
    <3> DEFINE y == avg * pct
    <3> HIDE DEF y
    <3>2. (y + 99) \div 100 \in Nat
      BY <3>1 DEF y
    <3> QED
      BY <3>2 DEF y
  <2> HIDE DEF x
  <2>2. slack = Max({x, 1})
    BY DEF x
  <2>3. \E z \in {x, 1} : \A y \in {x, 1} : z >= y
    <3>1. CASE x >= 1
      BY <2>1, <3>1
    <3>2. CASE ~(x >= 1)
      BY <2>1, <3>2
    <3> QED
      BY <3>1, <3>2
  <2> HIDE DEF slack
  <2>4. slack \in {x, 1} /\ \A y \in {x, 1} : slack >= y
    BY <2>2, <2>3 DEF Max
  <2> QED
    BY <2>1, <2>4
<1>8. most \in Nat /\ (total # 0 => most >= avg + 1)
  <2> HIDE DEF total, avg, slack
  <2> QED
    BY <1>4, <1>6, <1>7
<1>9. SUFFICES ASSUME \A p \in D : sz[p] >= most
               PROVE  FALSE
  <2> HIDE DEF total, avg, slack, c
  <2> QED
    BY <1>8
<1>10. total = sz[o] + SumFunctionOnSet(sz, D \ {o})
  BY <1>2, SumRemove
<1>11. Cardinality(D \ {o}) = c - 1
  BY FS_RemoveElement
<1>12. SumFunctionOnSet(sz, D \ {o}) >= most * Cardinality(D \ {o})
  <2>1. IsFiniteSet(D \ {o}) /\ \A p \in D \ {o} : sz[p] \in Int /\ sz[p] >= most
    BY <1>2, <1>9, FS_Subset
  <2>2. most \in Int
    BY <1>8
  <2> QED
    BY <2>1, <2>2, SumAtLeast
<1>13. SumFunctionOnSet(sz, D \ {o}) \in Int
  <2>1. IsFiniteSet(D \ {o}) /\ \A p \in D \ {o} : sz[p] \in Int
    BY <1>2, FS_Subset
  <2> QED
    BY <2>1, SumInt
<1> DEFINE rest == SumFunctionOnSet(sz, D \ {o})
<1> HIDE DEF total, avg, slack, c, rest
<1>14. rest \in Int /\ rest >= most * (c - 1) /\ total = sz[o] + rest
  BY <1>10, <1>11, <1>12, <1>13 DEF rest
<1>15. most * (c - 1) = most * c - most /\ most * c \in Nat
  BY <1>1, <1>8
<1>16. sz[o] \in Nat /\ sz[o] > most
  OBVIOUS
<1>17. total > most * c
  <2> DEFINE z == most * c
  <2> HIDE DEF z
  <2>1. z \in Nat /\ rest >= z - most
    BY <1>14, <1>15 DEF z
  <2>2. total > z
    BY <1>2, <1>8, <1>14, <1>16, <2>1
  <2> QED
    BY <2>2 DEF z
<1>18. total # 0
  BY <1>2, <1>15, <1>17
<1>19. most * c >= c * (avg + 1)
  <2>1. most >= avg + 1
    BY <1>8, <1>18
  <2> QED
    BY <1>1, <1>6, <1>8, <2>1
<1> QED
  BY <1>1, <1>2, <1>6, <1>15, <1>17, <1>19

LEMMA UnderIs ==
  ASSUME NEW D \in SUBSET Nat, NEW sz, D = DOMAIN sz, D # {}, \A p \in D : sz[p] \in Nat
  PROVE  Under(sz) \in D /\ \A p \in D : sz[Under(sz)] <= sz[p]
<1> DEFINE S == {p \in D : \A q \in D : sz[p] <= sz[q]}
           A == {sz[p] : p \in D}
<1>1. A \in SUBSET Nat /\ A # {}
  OBVIOUS
<1>2. PICK x \in A : \A y \in A : x <= y
  <2> HIDE DEF A
  <2> QED
    BY <1>1, LeastNatural
<1>3. S # {}
  <2>1. PICK p \in D : x = sz[p]
    OBVIOUS
  <2>2. \A q \in D : sz[q] \in A
    OBVIOUS
  <2> QED
    BY <1>2, <2>1, <2>2
<1>4. S \in SUBSET Nat
  OBVIOUS
<1>5. Under(sz) = Min(S)
  BY DEF Under
<1>6. Min(S) \in S
  <2> HIDE DEF S
  <2> QED
    BY <1>3, <1>4, LeastIn
<1> QED
  BY <1>5, <1>6

LEMMA PartsAre ==
  ASSUME NEW n, IsNetwork(n), NEW c, c.parts \in Int
  PROVE  Parts(n, c) \in Nat /\ Parts(n, c) >= 1
<1> DEFINE A == {n.part[v] : v \in Vertices(n)}
           S == {0} \cup (A \ {NoPart})
<1>1. S \in SUBSET Nat /\ S # {}
  BY Typed
<1>2. IsFiniteSet(S)
  <2>1. IsFiniteSet(A)
    <3> DEFINE h == [v \in Vertices(n) |-> n.part[v]]
    <3>1. h \in Surjection(Vertices(n), A)
      BY DEF Surjection
    <3> QED
      BY <3>1, VerticesFinite, FS_Surjection
  <2> DEFINE C == A \ {NoPart}
  <2>2. C \subseteq A
    OBVIOUS
  <2> HIDE DEF A
  <2>3. IsFiniteSet(C)
    BY <2>1, <2>2, FS_Subset
  <2> HIDE DEF C
  <2>4. IsFiniteSet(C \cup {0})
    BY <2>3, FS_AddElement
  <2>5. S = C \cup {0}
    BY DEF C
  <2> QED
    BY <2>4, <2>5
<1>3. Max(S) \in S
  <2> HIDE DEF S
  <2>1. S \in SUBSET Int
    BY <1>1
  <2> QED
    BY <1>1, <1>2, <2>1, Greatest DEF Max
<1>4. Parts(n, c) = IF c.parts > 0 THEN c.parts ELSE 1 + Max(S)
  BY DEF Parts
<1>5. Max(S) \in Nat
  BY <1>1, <1>3
<1> HIDE DEF S
<1> QED
  BY <1>4, <1>5

(* The greater of two *)
LEMMA MaxOfTwo ==
  ASSUME NEW a \in Int, NEW b \in Int, NEW m, m = Max({a, b})
  PROVE  m \in Int /\ m >= a /\ m >= b /\ (m = a \/ m = b)
<1>1. \E z \in {a, b} : \A y \in {a, b} : z >= y
  <2>1. CASE a >= b
    BY <2>1
  <2>2. CASE ~(a >= b)
    BY <2>2
  <2> QED
    BY <2>1, <2>2
<1>2. m \in {a, b} /\ \A y \in {a, b} : m >= y
  BY <1>1 DEF Max
<1> QED
  BY <1>2

----------------------------------------------------------------------------
WellFormed(n) == IsNetwork(n) /\ Acyclic(n)

(* The rank of a vertex: it ranks after its fanins. *)
RankBody(n, r, v) == 1 + Max({0} \cup {r[u] : u \in Fanins(n, v)})

LEMMA RankBodyIs ==
  ASSUME NEW n, IsNetwork(n), NEW v, NEW r, \A u \in Fanins(n, v) : r[u] \in Nat
  PROVE  RankBody(n, r, v) \in Nat /\ \A u \in Fanins(n, v) : r[u] < RankBody(n, r, v)
<1> DEFINE F == Fanins(n, v)
           M == LatestIn(F, r)
<1>1. IsFiniteSet(F)
  BY FaninsTyped, VerticesFinite, FS_Subset
<1>2. M \in Nat /\ \A u \in F : r[u] <= M
  <2> HIDE DEF F
  <2> QED
    BY <1>1, LatestOf DEF F
<1>3. RankBody(n, r, v) = 1 + M
  BY DEF RankBody, LatestIn
<1> HIDE DEF M
<1> QED
  BY <1>2, <1>3

LEMMA RankBodySame ==
  ASSUME NEW n, NEW v, NEW g, NEW h, \A u \in Fanins(n, v) : g[u] = h[u]
  PROVE  RankBody(n, g, v) = RankBody(n, h, v)
<1>1. {g[u] : u \in Fanins(n, v)} = {h[u] : u \in Fanins(n, v)}
  OBVIOUS
<1> QED
  BY <1>1 DEF RankBody

Ranks(n) == CHOOSE r : r = [v \in Vertices(n) |-> RankBody(n, r, v)]

LEMMA RanksAre ==
  ASSUME NEW n, WellFormed(n)
  PROVE  \A v \in Vertices(n) : /\ Ranks(n)[v] \in Nat
                                /\ \A u \in Fanins(n, v) : Ranks(n)[u] < Ranks(n)[v]
                                /\ Ranks(n)[v] = RankBody(n, Ranks(n), v)
<1> DEFINE V == Vertices(n)
           B == [v \in V |-> [g \in [V -> Nat] |-> RankBody(n, g, v)]]
           r == Ranks(n)
<1>0. IsNetwork(n) /\ Acyclic(n) /\ \A v \in V : Fanins(n, v) \subseteq V
  BY FaninsTyped DEF WellFormed
<1>1. \A v \in V, g \in [V -> Nat] : B[v][g] = RankBody(n, g, v)
  OBVIOUS
<1>2. ASSUME NEW v \in V, NEW g \in [V -> Nat]
      PROVE  B[v][g] \in Nat
  <2>1. \A u \in Fanins(n, v) : g[u] \in Nat
    BY <1>0
  <2> QED
    BY <1>0, <1>1, <2>1, RankBodyIs
<1>3. ASSUME NEW v \in V, NEW g \in [V -> Nat], NEW h \in [V -> Nat],
             \A u \in Fanins(n, v) : g[u] = h[u]
      PROVE  B[v][g] = B[v][h]
  BY <1>1, <1>3, RankBodySame
<1>4. \E f \in [V -> Nat] : \A v \in V : f[v] = B[v][f]
  <2> DEFINE Val == Nat
  <2> HIDE DEF B
  <2>1. \A v \in V, g \in [V -> Val] : B[v][g] \in Val
    BY <1>2
  <2>2. \A v \in V, g, h \in [V -> Val] :
          (\A u \in Fanins(n, v) : g[u] = h[u]) => B[v][g] = B[v][h]
    BY <1>3
  <2>3. Val # {}
    OBVIOUS
  <2> HIDE DEF Val
  <2>4. NetFlow(n, Val, B)
    BY <2>1, <2>2 DEF NetFlow
  <2>5. Solvable(Vertices(n), Val, B)
    BY <1>0, <2>3, <2>4, NetFlowExists
  <2> QED
    BY <2>5 DEF Val, Solvable
<1>5. PICK f \in [V -> Nat] : \A v \in V : f[v] = RankBody(n, f, v)
  BY <1>1, <1>4
<1>6. f = [v \in V |-> RankBody(n, f, v)]
  BY <1>5
<1>7. r = [v \in V |-> RankBody(n, r, v)]
  BY <1>6 DEF Ranks
<1> HIDE DEF r
<1>8. \A v \in V : r[v] = RankBody(n, r, v)
  BY <1>7
<1> DEFINE S == {v \in V : r[v] \in Nat}
<1>9. ASSUME NEW v \in V, Fanins(n, v) \subseteq S
      PROVE  v \in S
  BY <1>0, <1>8, <1>9, RankBodyIs
<1>10. \A v \in V : v \in S
  <2> HIDE DEF S
  <2> QED
    BY <1>0, <1>9, FromFanins
<1>11. ASSUME NEW v \in V
       PROVE  \A u \in Fanins(n, v) : r[u] < r[v]
  <2>1. \A u \in Fanins(n, v) : r[u] \in Nat
    BY <1>0, <1>10
  <2> QED
    BY <1>0, <1>8, <2>1, RankBodyIs
<1> QED
  BY <1>8, <1>10, <1>11 DEF r

(* A network with a map to one without cycles that keeps the edges has none. *)
LEMMA AcyclicMapped ==
  ASSUME NEW n, NEW m, Acyclic(n), NEW h, \A v \in m.node : h[v] \in n.node,
         \A v \in m.node : \A u \in Fanins(m, v) : u \in m.node => h[u] \in Fanins(n, h[v])
  PROVE  Acyclic(m)
<1> SUFFICES ASSUME NEW S \in SUBSET m.node, S # {}
             PROVE  \E v \in S : Fanins(m, v) \cap S = {}
  BY DEF Acyclic
<1> DEFINE T == {h[v] : v \in S}
<1>1. T \in SUBSET n.node /\ T # {}
  OBVIOUS
<1>2. PICK x \in T : Fanins(n, x) \cap T = {}
  <2> HIDE DEF T
  <2> QED
    BY <1>1 DEF Acyclic
<1>3. PICK v \in S : x = h[v]
  OBVIOUS
<1>4. \A u \in Fanins(m, v) : u \notin S
  <2> SUFFICES ASSUME NEW u \in Fanins(m, v), u \in S
               PROVE  FALSE
    OBVIOUS
  <2>1. h[u] \in Fanins(n, x) /\ h[u] \in T
    BY <1>3
  <2> QED
    BY <1>2, <2>1
<1> QED
  BY <1>4

(* No part of a network without cycles is without a node that it does not   *)
(* read.                                                                    *)
LEMMA Unread ==
  ASSUME NEW n, WellFormed(n), NEW S \in SUBSET Vertices(n), S # {}
  PROVE  \E u \in S : \A w \in S : u \notin Fanins(n, w)
<1> DEFINE r == Ranks(n)
           R == {r[v] : v \in S}
<1>1. IsFiniteSet(S)
  BY VerticesFinite, FS_Subset DEF WellFormed
<1>2. \A v \in S : r[v] \in Nat /\ \A u \in Fanins(n, v) : r[u] < r[v]
  BY RanksAre
<1> HIDE DEF r
<1>3. R \in SUBSET Int /\ R # {}
  BY <1>2
<1>4. IsFiniteSet(R)
  <2> DEFINE h == [u \in S |-> r[u]]
  <2>1. h \in Surjection(S, R)
    BY DEF Surjection
  <2> QED
    BY <1>1, <2>1, FS_Surjection
<1>5. PICK x \in R : \A y \in R : x >= y
  <2> HIDE DEF R
  <2> QED
    BY <1>3, <1>4, Greatest
<1>6. PICK u \in S : x = r[u]
  OBVIOUS
<1>7. ASSUME NEW w \in S, u \in Fanins(n, w)
      PROVE  FALSE
  <2>1. r[u] < r[w] /\ r[u] \in Nat /\ r[w] \in Nat /\ r[w] \in R
    BY <1>2, <1>7
  <2> QED
    BY <1>5, <1>6, <2>1
<1> QED
  BY <1>7

----------------------------------------------------------------------------
(* A network without the nodes that nothing reads, or with one node in      *)
(* the place of another, is a network without cycles.                       *)
LEMMA AcyclicRanked ==
  ASSUME NEW m, NEW r, \A v \in m.node : r[v] \in Nat,
         \A v \in m.node : \A u \in Fanins(m, v) : u \in m.node => r[u] < r[v]
  PROVE  Acyclic(m)
<1> SUFFICES ASSUME NEW S \in SUBSET m.node, S # {}
             PROVE  \E v \in S : Fanins(m, v) \cap S = {}
  BY DEF Acyclic
<1> DEFINE R == {r[v] : v \in S}
<1>1. R \in SUBSET Nat /\ R # {}
  OBVIOUS
<1>2. PICK x \in R : \A y \in R : x <= y
  <2> HIDE DEF R
  <2> QED
    BY <1>1, LeastNatural
<1>3. PICK v \in S : x = r[v]
  OBVIOUS
<1>4. ASSUME NEW u \in Fanins(m, v), u \in S
      PROVE  FALSE
  <2>1. r[u] < r[v] /\ r[u] \in R /\ r[u] \in Nat /\ r[v] \in Nat
    BY <1>4
  <2> QED
    BY <1>2, <1>3, <2>1
<1> QED
  BY <1>4

LEMMA NetworkFrom ==
  ASSUME NEW m, Shaped(m), m.max \in Nat, m.pi \cap m.node = {},
         \A v \in Vertices(m) : v \in 0 .. m.max - 1,
         \A v \in m.node : m.fanin[v] \in Seq(Vertices(m)),
         \A v \in m.node : m.truth[v] \in SUBSET SUBSET DOMAIN m.fanin[v],
         \A v \in Vertices(m) : m.part[v] \in Nat \cup {NoPart},
         m.po \in Seq(Vertices(m))
  PROVE  IsNetwork(m)
<1>1. m = [ max |-> m.max, pi |-> m.pi, node |-> m.node, fanin |-> m.fanin,
            truth |-> m.truth, part |-> m.part, po |-> m.po ]
  BY AsRecord DEF Shaped
<1>2. /\ m.fanin = [v \in m.node |-> m.fanin[v]]
      /\ m.truth = [v \in m.node |-> m.truth[v]]
      /\ m.part = [v \in Vertices(m) |-> m.part[v]]
  BY DEF Shaped
<1>3. m.fanin \in [m.node -> Seq(Vertices(m))]
  BY <1>2
<1>4. m.truth = [v \in m.node |-> m.truth[v] \cap SUBSET DOMAIN m.fanin[v]]
  <2>1. \A v \in m.node : m.truth[v] = m.truth[v] \cap SUBSET DOMAIN m.fanin[v]
    OBVIOUS
  <2> QED
    BY <1>2, <2>1
<1>5. m.part \in [Vertices(m) -> Nat \cup {NoPart}]
  BY <1>2
<1> QED
  BY <1>1, <1>3, <1>4, <1>5 DEF IsNetwork

(* What it takes the other way *)
LEMMA NetworkIs ==
  ASSUME NEW n, IsNetwork(n)
  PROVE  /\ n.max \in Nat /\ n.pi \cap n.node = {} /\ Vertices(n) = n.pi \cup n.node
         /\ \A v \in Vertices(n) : v \in 0 .. n.max - 1
         /\ \A v \in n.node : n.fanin[v] \in Seq(Vertices(n))
         /\ \A v \in n.node : n.truth[v] \in SUBSET SUBSET DOMAIN n.fanin[v]
         /\ \A v \in Vertices(n) : n.part[v] \in Nat \cup {NoPart}
         /\ n.po \in Seq(Vertices(n))
<1>1. \A v \in n.node : n.truth[v] = n.truth[v] \cap SUBSET DOMAIN n.fanin[v]
  BY DEF IsNetwork
<1> QED
  BY <1>1 DEF IsNetwork, Vertices

LEMMA SeqIn ==
  ASSUME NEW V, NEW W, NEW s \in Seq(V), \A i \in DOMAIN s : s[i] \in W
  PROVE  s \in Seq(W)
OBVIOUS

(* Nodes go that no other node and no output reads. *)
LEMMA WithoutWellFormed ==
  ASSUME NEW n, WellFormed(n), NEW D \in SUBSET n.node,
         \A v \in n.node \ D : Fanins(n, v) \cap D = {},
         \A o \in DOMAIN n.po : n.po[o] \notin D, NEW m, m = Without(n, D)
  PROVE  WellFormed(m)
<1>0. IsNetwork(n) /\ Acyclic(n)
  BY DEF WellFormed
<1>1. IsWithout(m, n, D)
  BY <1>0, WithoutIs
<1>2. /\ Shaped(m) /\ m.max = n.max /\ m.pi = n.pi /\ m.node = n.node \ D /\ m.po = n.po
      /\ \A v \in m.node : m.fanin[v] = n.fanin[v] /\ m.truth[v] = n.truth[v]
      /\ \A v \in Vertices(m) : m.part[v] = n.part[v]
  BY <1>1 DEF IsWithout
<1>3. /\ n.max \in Nat /\ n.pi \cap n.node = {} /\ Vertices(n) = n.pi \cup n.node
      /\ \A v \in Vertices(n) : v \in 0 .. n.max - 1
      /\ \A v \in n.node : n.fanin[v] \in Seq(Vertices(n))
      /\ \A v \in n.node : n.truth[v] \in SUBSET SUBSET DOMAIN n.fanin[v]
      /\ \A v \in Vertices(n) : n.part[v] \in Nat \cup {NoPart}
      /\ n.po \in Seq(Vertices(n))
  BY <1>0, NetworkIs
<1>4. Vertices(m) = Vertices(n) \ D
  BY <1>2, <1>3 DEF Vertices
<1>5. ASSUME NEW v \in m.node
      PROVE  m.fanin[v] \in Seq(Vertices(m))
  <2>1. v \in n.node \ D /\ n.fanin[v] \in Seq(Vertices(n))
    BY <1>2, <1>3
  <2>2. \A i \in DOMAIN n.fanin[v] : n.fanin[v][i] \in Fanins(n, v)
    BY <2>1 DEF Fanins, ToSet
  <2>3. \A i \in DOMAIN n.fanin[v] : n.fanin[v][i] \in Vertices(m)
    BY <1>4, <2>1, <2>2
  <2>4. n.fanin[v] \in Seq(Vertices(m))
    BY <2>1, <2>3, SeqIn
  <2> QED
    BY <1>2, <2>4
<1>6. m.po \in Seq(Vertices(m))
  <2>1. \A o \in DOMAIN n.po : n.po[o] \in Vertices(m)
    BY <1>3, <1>4
  <2>2. n.po \in Seq(Vertices(m))
    BY <1>3, <2>1, SeqIn
  <2> QED
    BY <1>2, <2>2
<1>7. \A v \in m.node : m.truth[v] \in SUBSET SUBSET DOMAIN m.fanin[v]
  BY <1>2, <1>3
<1>8. \A v \in Vertices(m) : m.part[v] \in Nat \cup {NoPart} /\ v \in 0 .. m.max - 1
  BY <1>2, <1>3, <1>4
<1>9. m.max \in Nat /\ m.pi \cap m.node = {}
  BY <1>2, <1>3
<1>10. IsNetwork(m)
  BY <1>2, <1>5, <1>6, <1>7, <1>8, <1>9, NetworkFrom
<1>11. Acyclic(m)
  <2>1. \A v \in m.node : Fanins(m, v) = Fanins(n, v)
    BY <1>2 DEF Fanins
  <2>2. \A S \in SUBSET m.node : S \in SUBSET n.node
    BY <1>2
  <2> QED
    BY <1>0, <2>1, <2>2 DEF Acyclic
<1> QED
  BY <1>10, <1>11 DEF WellFormed

----------------------------------------------------------------------------
(* Cones *)
ConeBody(n, c, u) == {u} \cup UNION {c[w] : w \in Fanins(n, u)}
Cones(n) == CHOOSE c : c = [u \in Vertices(n) |-> ConeBody(n, c, u)]

LEMMA ConesAre ==
  ASSUME NEW n, WellFormed(n)
  PROVE  \A v \in Vertices(n) : /\ Cone(n, v) \subseteq Vertices(n)
                                /\ Cone(n, v) = {v} \cup UNION {Cone(n, w) : w \in Fanins(n, v)}
<1> DEFINE V == Vertices(n)
           W == SUBSET V
           B == [v \in V |-> [g \in [V -> W] |-> ConeBody(n, g, v)]]
           c == Cones(n)
<1>0. IsNetwork(n) /\ Acyclic(n) /\ \A v \in V : Fanins(n, v) \subseteq V
  BY FaninsTyped DEF WellFormed
<1>1. \A v \in V, g \in [V -> W] : B[v][g] = ConeBody(n, g, v)
  OBVIOUS
<1>2. ASSUME NEW v \in V, NEW g \in [V -> W]
      PROVE  B[v][g] \in W
  <2>1. \A u \in Fanins(n, v) : g[u] \subseteq V
    BY <1>0
  <2> QED
    BY <1>1, <2>1 DEF ConeBody
<1>3. ASSUME NEW v \in V, NEW g \in [V -> W], NEW h \in [V -> W],
             \A u \in Fanins(n, v) : g[u] = h[u]
      PROVE  B[v][g] = B[v][h]
  <2>1. {g[u] : u \in Fanins(n, v)} = {h[u] : u \in Fanins(n, v)}
    BY <1>3
  <2> QED
    BY <1>1, <2>1 DEF ConeBody
<1>4. \E f \in [V -> W] : \A v \in V : f[v] = B[v][f]
  <2> DEFINE Val == W
  <2> HIDE DEF B
  <2>1. \A v \in V, g \in [V -> Val] : B[v][g] \in Val
    BY <1>2
  <2>2. \A v \in V, g, h \in [V -> Val] :
          (\A u \in Fanins(n, v) : g[u] = h[u]) => B[v][g] = B[v][h]
    BY <1>3
  <2>3. Val # {}
    OBVIOUS
  <2> HIDE DEF Val
  <2>4. NetFlow(n, Val, B)
    BY <2>1, <2>2 DEF NetFlow
  <2>5. Solvable(Vertices(n), Val, B)
    BY <1>0, <2>3, <2>4, NetFlowExists
  <2> QED
    BY <2>5 DEF Val, Solvable
<1>5. PICK f \in [V -> W] : \A v \in V : f[v] = ConeBody(n, f, v)
  BY <1>1, <1>4
<1>6. f = [v \in V |-> ConeBody(n, f, v)]
  BY <1>5
<1>7. c = [v \in V |-> ConeBody(n, c, v)]
  BY <1>6 DEF Cones
<1>8. \A v \in V : Cone(n, v) = c[v]
  BY DEF Cone, Cones, ConeBody
<1> HIDE DEF c
<1>9. \A v \in V : c[v] = ConeBody(n, c, v)
  BY <1>7
<1> DEFINE S == {v \in V : c[v] \subseteq V}
<1>10. ASSUME NEW v \in V, Fanins(n, v) \subseteq S
       PROVE  v \in S
  BY <1>9, <1>10 DEF ConeBody
<1>11. \A v \in V : v \in S
  <2> HIDE DEF S
  <2> QED
    BY <1>0, <1>10, FromFanins
<1>12. ASSUME NEW v \in V
       PROVE  Cone(n, v) = {v} \cup UNION {Cone(n, w) : w \in Fanins(n, v)}
  <2>1. {c[w] : w \in Fanins(n, v)} = {Cone(n, w) : w \in Fanins(n, v)}
    BY <1>0, <1>8
  <2> QED
    BY <1>8, <1>9, <2>1 DEF ConeBody
<1> QED
  BY <1>8, <1>11, <1>12

(* A cone is closed under fanins, and nothing is in the cone of what it reads. *)
LEMMA ConeOf ==
  ASSUME NEW n, WellFormed(n), NEW v \in Vertices(n)
  PROVE  /\ Cone(n, v) \subseteq Vertices(n) /\ v \in Cone(n, v)
         /\ \A u \in Fanins(n, v) : Cone(n, u) \subseteq Cone(n, v)
         /\ \A u \in Cone(n, v) : Fanins(n, u) \subseteq Cone(n, v)
         /\ \A u \in Cone(n, v) : u = v \/ v \notin Cone(n, u)
         /\ \A u \in Fanins(n, v) : v \notin Cone(n, u)
<1> DEFINE r == Ranks(n)
           S == {w \in Vertices(n) : \A u \in Cone(n, w) : /\ Fanins(n, u) \subseteq Cone(n, w)
                                                           /\ u = w \/ r[u] < r[w]}
<1>0. IsNetwork(n) /\ Acyclic(n) /\ \A w : Fanins(n, w) \subseteq Vertices(n)
  BY FaninsTyped DEF WellFormed
<1>1. \A w \in Vertices(n) : /\ Cone(n, w) \subseteq Vertices(n)
                             /\ Cone(n, w) = {w} \cup UNION {Cone(n, u) : u \in Fanins(n, w)}
  BY ConesAre
<1>2. \A w \in Vertices(n) : r[w] \in Nat /\ \A u \in Fanins(n, w) : r[u] < r[w]
  BY RanksAre
<1> HIDE DEF r
<1>3. \A w \in Vertices(n) : \A u \in Fanins(n, w) : Cone(n, u) \subseteq Cone(n, w) /\ u \in Cone(n, u)
  <2> TAKE w \in Vertices(n)
  <2> TAKE u \in Fanins(n, w)
  <2>1. u \in Cone(n, u)
    BY <1>0, <1>1
  <2> QED
    BY <1>1, <2>1
<1>4. ASSUME NEW w \in Vertices(n), Fanins(n, w) \subseteq S
      PROVE  w \in S
  <2>1. ASSUME NEW u \in Cone(n, w)
        PROVE  Fanins(n, u) \subseteq Cone(n, w) /\ (u = w \/ r[u] < r[w])
    <3>1. CASE u = w
      BY <1>3, <3>1
    <3>2. CASE u # w
      <4>1. PICK y \in Fanins(n, w) : u \in Cone(n, y)
        BY <1>1, <2>1, <3>2
      <4>2. y \in S /\ y \in Vertices(n) /\ Cone(n, y) \subseteq Cone(n, w)
        BY <1>0, <1>3, <1>4
      <4>3. Fanins(n, u) \subseteq Cone(n, y) /\ (u = y \/ r[u] < r[y])
        BY <4>1, <4>2
      <4>4. u \in Vertices(n)
        BY <1>1, <2>1
      <4>5. r[u] \in Nat /\ r[y] \in Nat /\ r[w] \in Nat /\ r[y] < r[w]
        BY <1>2, <4>2, <4>4
      <4> QED
        BY <4>2, <4>3, <4>5
    <3> QED
      BY <3>1, <3>2
  <2> QED
    BY <2>1
<1>5. \A w \in Vertices(n) : w \in S
  <2> HIDE DEF S
  <2> QED
    BY <1>0, <1>4, FromFanins
<1>6. ASSUME NEW u \in Cone(n, v), v \in Cone(n, u), u # v
      PROVE  FALSE
  <2>1. u \in Vertices(n)
    BY <1>1
  <2>2. r[u] < r[v] /\ r[v] < r[u] /\ r[u] \in Nat /\ r[v] \in Nat
    BY <1>2, <1>5, <1>6, <2>1
  <2> QED
    BY <2>2
<1>7. ASSUME NEW u \in Fanins(n, v), v \in Cone(n, u)
      PROVE  FALSE
  <2>1. u \in Vertices(n) /\ r[u] < r[v] /\ r[u] \in Nat /\ r[v] \in Nat
    BY <1>0, <1>2
  <2>2. u # v
    BY <2>1
  <2> QED
    BY <1>3, <1>6, <1>7, <2>2
<1>8. v \in Cone(n, v)
  BY <1>1
<1>9. \A u \in Cone(n, v) : Fanins(n, u) \subseteq Cone(n, v)
  BY <1>5
<1> QED
  BY <1>1, <1>3, <1>6, <1>7, <1>8, <1>9

LEMMA CleanedWellFormed ==
  ASSUME NEW n, WellFormed(n)
  PROVE  WellFormed(Cleaned(n))
<1> DEFINE U == UNION {Cone(n, n.po[o]) : o \in DOMAIN n.po}
           D == n.node \ U
<1>1. \A o \in DOMAIN n.po : n.po[o] \in Vertices(n)
  BY NetworkIs DEF WellFormed
<1>2. \A v \in n.node \ D : Fanins(n, v) \cap D = {}
  <2> TAKE v \in n.node \ D
  <2>1. PICK o \in DOMAIN n.po : v \in Cone(n, n.po[o])
    OBVIOUS
  <2>2. Fanins(n, v) \subseteq Cone(n, n.po[o])
    BY <1>1, <2>1, ConeOf
  <2> QED
    BY <2>2
<1>3. \A o \in DOMAIN n.po : n.po[o] \notin D
  <2> TAKE o \in DOMAIN n.po
  <2>1. n.po[o] \in Cone(n, n.po[o])
    BY <1>1, ConeOf
  <2> QED
    BY <2>1
<1>4. Cleaned(n) = Without(n, D)
  BY DEF Cleaned
<1> HIDE DEF D
<1>5. D \in SUBSET n.node
  BY DEF D
<1> QED
  BY <1>2, <1>3, <1>4, <1>5, WithoutWellFormed

----------------------------------------------------------------------------
(* What goes with a node that nothing reads *)
GoneBody(n, v, g, u) ==
  \/ u = v
  \/ /\ u \in n.node /\ ~Drives(n, u) /\ Fanouts(n, u) # {}
     /\ \A w \in Fanouts(n, u) : g[w]
Gone(n, v) == CHOOSE g : g = [u \in Vertices(n) |-> GoneBody(n, v, g, u)]

LEMMA GoneIs ==
  ASSUME NEW n, WellFormed(n), NEW v
  PROVE  \A u \in Vertices(n) : Gone(n, v)[u] = GoneBody(n, v, Gone(n, v), u)
<1> DEFINE V == Vertices(n)
           D == [u \in V |-> Fanouts(n, u)]
           B == [u \in V |-> [g \in [V -> BOOLEAN] |-> GoneBody(n, v, g, u)]]
<1>0. IsNetwork(n) /\ \A u : Fanouts(n, u) \subseteq V
  BY DEF WellFormed, Fanouts, Vertices
<1>1. IsFiniteSet(V)
  BY <1>0, VerticesFinite
<1>2. Grounded(V, D)
  <2>1. \A u \in V : D[u] \subseteq V
    BY <1>0
  <2>2. ASSUME NEW S \in SUBSET V, S # {}
        PROVE  \E u \in S : D[u] \cap S = {}
    <3>1. PICK u \in S : \A w \in S : u \notin Fanins(n, w)
      BY <2>2, Unread
    <3> QED
      BY <3>1 DEF Fanouts
  <2> HIDE DEF D
  <2> QED
    BY <2>1, <2>2 DEF Grounded
<1>3. \A u \in V, g \in [V -> BOOLEAN] : B[u][g] = GoneBody(n, v, g, u)
  OBVIOUS
<1>4. IsFlow(V, D, BOOLEAN, B)
  <2>1. ASSUME NEW u \in V, NEW g \in [V -> BOOLEAN]
        PROVE  B[u][g] \in BOOLEAN
    BY <1>3 DEF GoneBody
  <2>2. ASSUME NEW u \in V, NEW g \in [V -> BOOLEAN], NEW h \in [V -> BOOLEAN],
               \A w \in D[u] : g[w] = h[w]
        PROVE  B[u][g] = B[u][h]
    <3>1. D[u] = Fanouts(n, u)
      OBVIOUS
    <3>2. \A w \in Fanouts(n, u) : g[w] = h[w]
      BY <2>2, <3>1
    <3>3. (\A w \in Fanouts(n, u) : g[w]) <=> (\A w \in Fanouts(n, u) : h[w])
      BY <3>2
    <3>4. GoneBody(n, v, g, u) = GoneBody(n, v, h, u)
      BY <3>3 DEF GoneBody
    <3> QED
      BY <1>3, <3>4
  <2> HIDE DEF B, D
  <2> QED
    BY <2>1, <2>2 DEF IsFlow
<1>5. PICK f \in [V -> BOOLEAN] : \A u \in V : f[u] = GoneBody(n, v, f, u)
  <2>1. Solvable(V, BOOLEAN, B)
    <3> HIDE DEF V, D, B
    <3> QED
      BY <1>1, <1>2, <1>4, FlowExists
  <2>2. PICK f \in [V -> BOOLEAN] : \A u \in V : f[u] = B[u][f]
    <3> HIDE DEF B
    <3> QED
      BY <2>1 DEF Solvable
  <2> QED
    BY <1>3, <2>2
<1>6. f = [u \in V |-> GoneBody(n, v, f, u)]
  BY <1>5
<1>7. Gone(n, v) = [u \in V |-> GoneBody(n, v, Gone(n, v), u)]
  BY <1>6 DEF Gone
<1> QED
  BY <1>7

LEMMA DeletedWellFormed ==
  ASSUME NEW n, WellFormed(n), NEW v \in n.node, Fanouts(n, v) = {}, ~Drives(n, v)
  PROVE  /\ WellFormed(Deleted(n, v))
         /\ \E D \in SUBSET n.node : v \in D /\ Deleted(n, v) = Without(n, D)
<1> DEFINE D == {u \in n.node : Gone(n, v)[u]}
<1>1. \A u \in Vertices(n) : Gone(n, v)[u] = GoneBody(n, v, Gone(n, v), u)
  BY GoneIs
<1>2. n.node \subseteq Vertices(n)
  BY DEF Vertices
<1>3. \A w \in n.node \ D : Fanins(n, w) \cap D = {}
  <2> SUFFICES ASSUME NEW w \in n.node, NEW u \in D, u \in Fanins(n, w)
               PROVE  w \in D
    OBVIOUS
  <2>1. w \in Fanouts(n, u)
    BY DEF Fanouts
  <2>2. u # v
    BY <2>1
  <2>3. GoneBody(n, v, Gone(n, v), u)
    BY <1>1, <1>2
  <2> QED
    BY <2>1, <2>2, <2>3 DEF GoneBody
<1>4. \A o \in DOMAIN n.po : n.po[o] \notin D
  <2> SUFFICES ASSUME NEW u \in D
               PROVE  ~Drives(n, u)
    BY DEF Drives
  <2>1. GoneBody(n, v, Gone(n, v), u)
    BY <1>1, <1>2
  <2> QED
    BY <2>1 DEF GoneBody
<1>5. Deleted(n, v) = Without(n, D)
  BY DEF Deleted, Gone, GoneBody
<1>6. v \in D
  <2>1. Gone(n, v)[v] = TRUE
    BY <1>1, <1>2 DEF GoneBody
  <2> QED
    BY <2>1
<1> HIDE DEF D
<1>7. D \in SUBSET n.node
  BY DEF D
<1> QED
  BY <1>3, <1>4, <1>5, <1>6, <1>7, WithoutWellFormed

----------------------------------------------------------------------------
(* Divisors do not depend on the node. *)
DivisorBody(n, v, g, d) ==
  /\ d \notin Fanins(n, v) \cup {v}
  /\ \/ d \in Cone(n, v)
     \/ Fanins(n, d) # {} /\ \A u \in Fanins(n, d) : g[u]
IsDivisor(n, v) == CHOOSE g : g = [d \in Vertices(n) |-> DivisorBody(n, v, g, d)]

LEMMA DivisorIs ==
  ASSUME NEW n, WellFormed(n), NEW v
  PROVE  \A d \in Vertices(n) : IsDivisor(n, v)[d] = DivisorBody(n, v, IsDivisor(n, v), d)
<1> DEFINE V == Vertices(n)
           B == [d \in V |-> [g \in [V -> BOOLEAN] |-> DivisorBody(n, v, g, d)]]
<1>0. IsNetwork(n) /\ Acyclic(n)
  BY DEF WellFormed
<1>1. \A d \in V, g \in [V -> BOOLEAN] : B[d][g] = DivisorBody(n, v, g, d)
  OBVIOUS
<1>2. ASSUME NEW d \in V, NEW g \in [V -> BOOLEAN]
      PROVE  B[d][g] \in BOOLEAN
  BY <1>1 DEF DivisorBody
<1>3. ASSUME NEW d \in V, NEW g \in [V -> BOOLEAN], NEW h \in [V -> BOOLEAN],
             \A u \in Fanins(n, d) : g[u] = h[u]
      PROVE  B[d][g] = B[d][h]
  <2>1. (\A u \in Fanins(n, d) : g[u]) <=> (\A u \in Fanins(n, d) : h[u])
    BY <1>3
  <2>2. DivisorBody(n, v, g, d) = DivisorBody(n, v, h, d)
    BY <2>1 DEF DivisorBody
  <2> QED
    BY <1>1, <2>2
<1>4. PICK f \in [V -> BOOLEAN] : \A d \in V : f[d] = DivisorBody(n, v, f, d)
  <2> DEFINE Val == BOOLEAN
  <2> HIDE DEF B
  <2>1. \A d \in V, g \in [V -> Val] : B[d][g] \in Val
    BY <1>2
  <2>2. \A d \in V, g, h \in [V -> Val] : (\A u \in Fanins(n, d) : g[u] = h[u]) => B[d][g] = B[d][h]
    BY <1>3
  <2>3. Val # {}
    OBVIOUS
  <2> HIDE DEF Val
  <2>4. NetFlow(n, Val, B)
    BY <2>1, <2>2 DEF NetFlow
  <2>5. Solvable(Vertices(n), Val, B)
    BY <1>0, <2>3, <2>4, NetFlowExists
  <2>6. PICK f \in [V -> BOOLEAN] : \A d \in V : f[d] = B[d][f]
    BY <2>5 DEF Val, Solvable
  <2> QED
    BY <1>1, <2>6
<1>5. f = [d \in V |-> DivisorBody(n, v, f, d)]
  BY <1>4
<1>6. IsDivisor(n, v) = [d \in V |-> DivisorBody(n, v, IsDivisor(n, v), d)]
  BY <1>5 DEF IsDivisor
<1> QED
  BY <1>6

LEMMA DivisorsApart ==
  ASSUME NEW n, WellFormed(n), NEW v \in Vertices(n), NEW d \in Divisors(n, v)
  PROVE  d \in Vertices(n) /\ n.part[d] = n.part[v] /\ v \notin Cone(n, d)
<1> DEFINE g == IsDivisor(n, v)
           S == {e \in Vertices(n) : g[e] => v \notin Cone(n, e)}
<1>0. IsNetwork(n) /\ Acyclic(n) /\ \A w : Fanins(n, w) \subseteq Vertices(n)
  BY FaninsTyped DEF WellFormed
<1>1. \A e \in Vertices(n) : g[e] = DivisorBody(n, v, g, e)
  BY DivisorIs
<1>2. d \in Vertices(n) /\ g[d] /\ n.part[d] = n.part[v]
  BY DEF Divisors, IsDivisor, DivisorBody
<1> HIDE DEF g
<1>3. ASSUME NEW e \in Vertices(n), Fanins(n, e) \subseteq S
      PROVE  e \in S
  <2> SUFFICES ASSUME g[e] PROVE v \notin Cone(n, e)
    OBVIOUS
  <2>1. DivisorBody(n, v, g, e)
    BY <1>1
  <2>2. e # v
    BY <2>1 DEF DivisorBody
  <2>3. CASE e \in Cone(n, v)
    BY <2>2, <2>3, ConeOf
  <2>4. CASE \A u \in Fanins(n, e) : g[u]
    <3>1. \A u \in Fanins(n, e) : v \notin Cone(n, u)
      BY <1>3, <2>4
    <3> QED
      BY <2>2, <3>1, ConesAre
  <2> QED
    BY <2>1, <2>3, <2>4 DEF DivisorBody
<1>4. \A e \in Vertices(n) : e \in S
  <2> HIDE DEF S
  <2> QED
    BY <1>0, <1>3, FromFanins
<1> QED
  BY <1>2, <1>4

----------------------------------------------------------------------------
(* k is n with a new node that has taken the readers of v, *)
IsReplaced(k, n, v, f, t) ==
  /\ IsNetwork(k) /\ k.max = n.max + 1 /\ k.pi = n.pi /\ k.node = n.node \cup {n.max}
  /\ n.max \notin Vertices(n) /\ Vertices(k) = Vertices(n) \cup {n.max}
  /\ k.fanin[n.max] = f /\ k.truth[n.max] = t /\ k.part[n.max] = n.part[v]
  /\ \A w \in Vertices(n) : k.part[w] = n.part[w]
  /\ \A w \in n.node : /\ k.truth[w] = n.truth[w] /\ DOMAIN k.fanin[w] = DOMAIN n.fanin[w]
                       /\ \A i \in DOMAIN n.fanin[w] :
                            k.fanin[w][i] = IF n.fanin[w][i] = v THEN n.max ELSE n.fanin[w][i]
  /\ DOMAIN k.po = DOMAIN n.po
  /\ \A o \in DOMAIN n.po : k.po[o] = IF n.po[o] = v THEN n.max ELSE n.po[o]

(* and the outputs of v. *)
PassedOn(m, v, x) == [m EXCEPT !.po = [o \in DOMAIN @ |-> IF @[o] = v THEN x ELSE @[o]]]

LEMMA PosReplaced ==
  ASSUME NEW m, IsNetwork(m), NEW v, NEW x \in Vertices(m), NEW k, k = PassedOn(m, v, x)
  PROVE  /\ IsNetwork(k) /\ k.max = m.max /\ k.pi = m.pi /\ k.node = m.node /\ k.fanin = m.fanin
         /\ k.truth = m.truth /\ k.part = m.part /\ Vertices(k) = Vertices(m)
         /\ DOMAIN k.po = DOMAIN m.po
         /\ \A o \in DOMAIN m.po : k.po[o] = IF m.po[o] = v THEN x ELSE m.po[o]
<1>1. DOMAIN m = Fields
  BY NetworkFields
<1>2. k = [y \in Fields |-> k[y]]
  BY <1>1 DEF PassedOn
<1>3. /\ k.max = m.max /\ k.pi = m.pi /\ k.node = m.node /\ k.fanin = m.fanin
      /\ k.truth = m.truth /\ k.part = m.part
      /\ k.po = [o \in DOMAIN m.po |-> IF m.po[o] = v THEN x ELSE m.po[o]]
  BY <1>1 DEF Fields, PassedOn
<1>4. Vertices(k) = Vertices(m)
  BY <1>3 DEF Vertices
<1>5. /\ m.max \in Nat /\ m.pi \cap m.node = {} /\ Vertices(m) = m.pi \cup m.node
      /\ \A w \in Vertices(m) : w \in 0 .. m.max - 1
      /\ \A w \in m.node : m.fanin[w] \in Seq(Vertices(m))
      /\ \A w \in m.node : m.truth[w] \in SUBSET SUBSET DOMAIN m.fanin[w]
      /\ \A w \in Vertices(m) : m.part[w] \in Nat \cup {NoPart}
      /\ m.po \in Seq(Vertices(m))
  BY NetworkIs
<1>6. k.po \in Seq(Vertices(k))
  <2>1. DOMAIN m.po = 1 .. Len(m.po) /\ Len(m.po) \in Nat /\ \A o \in DOMAIN m.po : m.po[o] \in Vertices(m)
    BY <1>5
  <2>2. k.po \in [1 .. Len(m.po) -> Vertices(k)]
    BY <1>3, <1>4, <2>1
  <2> QED
    BY <2>1, <2>2
<1>7. Shaped(k)
  <2>1. /\ m.fanin = [w \in m.node |-> m.fanin[w]]
        /\ m.truth = [w \in m.node |-> m.truth[w]]
        /\ m.part = [w \in Vertices(m) |-> m.part[w]]
    BY NetworkShaped DEF Shaped
  <2>2. /\ k.fanin = [w \in k.node |-> k.fanin[w]]
        /\ k.truth = [w \in k.node |-> k.truth[w]]
        /\ k.part = [w \in Vertices(k) |-> k.part[w]]
    BY ONLY <1>3, <1>4, <2>1
  <2> QED
    BY ONLY <1>2, <2>2 DEF Shaped
<1>8. IsNetwork(k)
  BY <1>3, <1>4, <1>5, <1>6, <1>7, NetworkFrom
<1> QED
  BY <1>3, <1>4, <1>8

LEMMA ReplacedIs ==
  ASSUME NEW n, IsNetwork(n), NEW v \in n.node, NEW f \in Seq(Vertices(n)),
         NEW t \in SUBSET SUBSET DOMAIN f
  PROVE  \E k : IsReplaced(k, n, v, f, t) /\ Resubbed(n, v, f, t) = Deleted(k, v)
<1> DEFINE e == Extended(n, f, t, n.part[v])
           m == Patched(e, n.node, v, n.max)
           k == PassedOn(m, v, n.max)
<1>1. Resubbed(n, v, f, t) = Deleted(k, v)
  BY DEF Resubbed, PassedOn
<1>2. v \in Vertices(n) /\ n.part[v] \in Nat \cup {NoPart}
  BY Typed DEF Vertices
<1>3. IsNetwork(e) /\ IsExtension(e, n, f, t, n.part[v])
  BY <1>2, ExtendedFields, ExtendedNetwork
<1> HIDE DEF e
<1>4. /\ e.max = n.max + 1 /\ e.pi = n.pi /\ e.node = n.node \cup {n.max} /\ e.po = n.po
      /\ e.fanin[n.max] = f /\ e.truth[n.max] = t /\ e.part[n.max] = n.part[v]
      /\ \A w \in n.node : e.fanin[w] = n.fanin[w] /\ e.truth[w] = n.truth[w]
      /\ \A w \in Vertices(n) : e.part[w] = n.part[w]
      /\ Vertices(e) = Vertices(n) \cup {n.max} /\ n.max \notin Vertices(n)
  BY <1>3 DEF IsExtension
<1>5. IsNetwork(m)
  BY <1>3, <1>4, PatchedNetwork
<1>6. /\ m.max = e.max /\ m.pi = e.pi /\ m.node = e.node /\ m.po = e.po
      /\ m.fanin = [w \in e.node |-> IF w \in n.node THEN ReplaceAll(e.fanin[w], v, n.max) ELSE e.fanin[w]]
      /\ m.truth = e.truth /\ m.part = e.part /\ Vertices(m) = Vertices(e)
  BY <1>3, PatchedFields
<1> HIDE DEF m
<1>7. /\ IsNetwork(k) /\ k.max = m.max /\ k.pi = m.pi /\ k.node = m.node /\ k.fanin = m.fanin
      /\ k.truth = m.truth /\ k.part = m.part /\ Vertices(k) = Vertices(m)
      /\ DOMAIN k.po = DOMAIN m.po
      /\ \A o \in DOMAIN m.po : k.po[o] = IF m.po[o] = v THEN n.max ELSE m.po[o]
  <2>1. n.max \in Vertices(m)
    BY <1>4, <1>6
  <2>2. k = PassedOn(m, v, n.max)
    OBVIOUS
  <2> HIDE DEF k
  <2> QED
    BY <1>5, <2>1, <2>2, PosReplaced
<1> HIDE DEF k
<1>8. ASSUME NEW w \in n.node
      PROVE  /\ k.truth[w] = n.truth[w] /\ DOMAIN k.fanin[w] = DOMAIN n.fanin[w]
             /\ \A i \in DOMAIN n.fanin[w] :
                  k.fanin[w][i] = IF n.fanin[w][i] = v THEN n.max ELSE n.fanin[w][i]
  <2>1. n.fanin[w] \in Seq(Vertices(n))
    BY NetworkIs
  <2>2. k.fanin[w] = ReplaceAll(n.fanin[w], v, n.max)
    BY <1>4, <1>6, <1>7
  <2>3. /\ DOMAIN k.fanin[w] = DOMAIN n.fanin[w]
        /\ \A i \in DOMAIN n.fanin[w] :
             k.fanin[w][i] = IF n.fanin[w][i] = v THEN n.max ELSE n.fanin[w][i]
    BY <2>1, <2>2, ReplacedAt
  <2>4. k.truth[w] = n.truth[w]
    BY <1>4, <1>6, <1>7
  <2> QED
    BY ONLY <2>3, <2>4
<1>9. /\ k.fanin[n.max] = f /\ k.truth[n.max] = t /\ k.part[n.max] = n.part[v]
      /\ \A w \in Vertices(n) : k.part[w] = n.part[w]
  <2>1. n.max \notin n.node /\ n.max \in e.node
    BY <1>4 DEF Vertices
  <2> QED
    BY <1>4, <1>6, <1>7, <2>1
<1>10. IsReplaced(k, n, v, f, t)
  <2>1. /\ IsNetwork(k) /\ k.max = n.max + 1 /\ k.pi = n.pi /\ k.node = n.node \cup {n.max}
        /\ n.max \notin Vertices(n) /\ Vertices(k) = Vertices(n) \cup {n.max}
    BY ONLY <1>4, <1>6, <1>7
  <2>2. /\ DOMAIN k.po = DOMAIN n.po
        /\ \A o \in DOMAIN n.po : k.po[o] = IF n.po[o] = v THEN n.max ELSE n.po[o]
    BY ONLY <1>4, <1>6, <1>7
  <2> QED
    BY ONLY <1>8, <1>9, <2>1, <2>2 DEF IsReplaced
<1> QED
  BY <1>1, <1>10

LEMMA ReplacedFanins ==
  ASSUME NEW n, IsNetwork(n), NEW v \in n.node, NEW f, NEW t, NEW k, IsReplaced(k, n, v, f, t)
  PROVE  /\ Fanins(k, n.max) = ToSet(f)
         /\ \A w \in n.node : /\ Fanins(k, w) \ {n.max} = Fanins(n, w) \ {v}
                              /\ n.max \in Fanins(k, w) <=> v \in Fanins(n, w)
                              /\ v \notin Fanins(k, w)
<1>1. /\ k.node = n.node \cup {n.max} /\ k.fanin[n.max] = f
      /\ n.max \notin Vertices(n) /\ v \in Vertices(n)
      /\ \A w \in n.node : /\ DOMAIN k.fanin[w] = DOMAIN n.fanin[w]
                           /\ \A i \in DOMAIN n.fanin[w] :
                                k.fanin[w][i] = IF n.fanin[w][i] = v THEN n.max ELSE n.fanin[w][i]
  BY DEF IsReplaced, Vertices
<1>2. ASSUME NEW w \in n.node
      PROVE  /\ Fanins(k, w) \ {n.max} = Fanins(n, w) \ {v}
             /\ n.max \in Fanins(k, w) <=> v \in Fanins(n, w)
             /\ v \notin Fanins(k, w)
  <2>1. Fanins(n, w) = {n.fanin[w][i] : i \in DOMAIN n.fanin[w]}
    BY DEF Fanins, ToSet
  <2>2. Fanins(k, w) = {k.fanin[w][i] : i \in DOMAIN n.fanin[w]}
    BY <1>1 DEF Fanins, ToSet
  <2>3. n.max # v /\ n.max \notin Fanins(n, w)
    BY <1>1, FaninsTyped
  <2>4. \A i \in DOMAIN n.fanin[w] :
          k.fanin[w][i] = IF n.fanin[w][i] = v THEN n.max ELSE n.fanin[w][i]
    BY <1>1
  <2> QED
    BY <2>1, <2>2, <2>3, <2>4
<1>3. Fanins(k, n.max) = ToSet(f)
  BY <1>1 DEF Fanins
<1> QED
  BY <1>2, <1>3

LEMMA ReplacedAcyclic ==
  ASSUME NEW n, WellFormed(n), NEW v \in n.node, NEW f, NEW t, NEW k, IsReplaced(k, n, v, f, t),
         \A u \in ToSet(f) : u \in Vertices(n) /\ v \notin Cone(n, u)
  PROVE  Acyclic(k)
<1> SUFFICES ASSUME NEW S \in SUBSET k.node, S # {}
             PROVE  \E w \in S : Fanins(k, w) \cap S = {}
  BY DEF Acyclic
<1>0. IsNetwork(n) /\ Acyclic(n) /\ n.node \subseteq Vertices(n)
  BY DEF WellFormed, Vertices
<1>1. /\ Fanins(k, n.max) = ToSet(f)
      /\ \A w \in n.node : /\ Fanins(k, w) \ {n.max} = Fanins(n, w) \ {v}
                           /\ n.max \in Fanins(k, w) <=> v \in Fanins(n, w)
                           /\ v \notin Fanins(k, w)
  BY <1>0, ReplacedFanins
<1>2. k.node = n.node \cup {n.max} /\ n.max \notin Vertices(n)
  BY DEF IsReplaced
<1>3. CASE n.max \notin S
  <2>1. S \in SUBSET n.node
    BY <1>2, <1>3
  <2>2. PICK w \in S : Fanins(n, w) \cap S = {}
    BY <1>0, <2>1 DEF Acyclic
  <2>3. Fanins(k, w) \cap S = {}
    BY <1>1, <1>3, <2>1, <2>2
  <2> QED
    BY <2>3
<1>4. CASE n.max \in S
  <2> DEFINE T == {u \in S \cap n.node : v \notin Cone(n, u)}
  <2>1. CASE T = {}
    <3>1. n.max \notin ToSet(f)
      BY <1>2
    <3>2. Fanins(k, n.max) \cap S = {}
      BY <1>1, <1>2, <2>1, <3>1
    <3> QED
      BY <1>4, <3>2
  <2>2. CASE T # {}
    <3>1. PICK w \in T : Fanins(n, w) \cap T = {}
      <4>1. T \in SUBSET n.node
        OBVIOUS
      <4> HIDE DEF T
      <4> QED
        BY <1>0, <2>2, <4>1 DEF Acyclic
    <3>2. \A u \in Fanins(n, w) : Cone(n, u) \subseteq Cone(n, w) /\ u \in Cone(n, u)
      <4>1. \A u \in Fanins(n, w) : u \in Vertices(n)
        BY <1>0, FaninsTyped
      <4> QED
        BY <1>0, <4>1, ConeOf
    <3>3. \A u \in Fanins(n, w) : v \notin Cone(n, u) /\ u # v
      BY <3>2
    <3>4. ASSUME NEW u \in Fanins(k, w), u \in S
          PROVE  FALSE
      <4>1. u # n.max /\ u \in Fanins(n, w)
        BY <1>1, <3>3, <3>4
      <4>2. u \in T
        BY <1>2, <3>3, <3>4, <4>1
      <4> QED
        BY <3>1, <4>1, <4>2
    <3> QED
      BY <3>4
  <2> QED
    BY <2>1, <2>2
<1> QED
  BY <1>3, <1>4

LEMMA ResubbedWellFormed ==
  ASSUME NEW n, WellFormed(n), NEW v \in n.node, NEW f \in Seq(Vertices(n)),
         NEW t \in SUBSET SUBSET DOMAIN f,
         \A u \in ToSet(f) : v \notin Cone(n, u)
  PROVE  \E k, D : /\ IsReplaced(k, n, v, f, t) /\ v \in D /\ Resubbed(n, v, f, t) = Without(k, D)
                   /\ WellFormed(Resubbed(n, v, f, t))
<1>0. IsNetwork(n) /\ v \in Vertices(n)
  BY DEF WellFormed, Vertices
<1>1. PICK k : IsReplaced(k, n, v, f, t) /\ Resubbed(n, v, f, t) = Deleted(k, v)
  BY <1>0, ReplacedIs
<1>2. \A u \in ToSet(f) : u \in Vertices(n)
  BY DEF ToSet
<1>3. Acyclic(k)
  BY <1>1, <1>2, ReplacedAcyclic
<1>4. WellFormed(k) /\ v \in k.node
  BY <1>1, <1>3 DEF WellFormed, IsReplaced
<1>5. Fanouts(k, v) = {}
  <2>1. /\ Fanins(k, n.max) = ToSet(f)
        /\ \A w \in n.node : v \notin Fanins(k, w)
    BY <1>0, <1>1, ReplacedFanins
  <2>2. v \notin ToSet(f)
    BY <1>0, ConeOf
  <2>3. k.node = n.node \cup {n.max}
    BY <1>1 DEF IsReplaced
  <2> QED
    BY <2>1, <2>2, <2>3 DEF Fanouts
<1>6. ~Drives(k, v)
  <2>1. n.max # v
    BY <1>0, <1>1 DEF IsReplaced
  <2> QED
    BY <1>1, <2>1 DEF IsReplaced, Drives
<1>7. PICK D \in SUBSET k.node : WellFormed(Deleted(k, v)) /\ v \in D /\ Deleted(k, v) = Without(k, D)
  BY <1>4, <1>5, <1>6, DeletedWellFormed
<1> QED
  BY <1>1, <1>7

(* The slots of a fanin list. *)
LEMMA SlotsAre ==
  ASSUME NEW V, NEW s \in Seq(V)
  PROVE  DOMAIN s = 1 .. Len(s) /\ Len(s) \in Nat /\ IsFiniteSet(DOMAIN s)
<1> DEFINE k == Len(s)
<1>1. DOMAIN s = 1 .. k /\ k \in Nat
  OBVIOUS
<1> HIDE DEF k
<1>2. k \in Int /\ 1 \in Int
  BY <1>1
<1>3. IsFiniteSet(1 .. k)
  BY <1>2, FS_Interval
<1> QED
  BY <1>1, <1>3 DEF k

LEMMA SlotsFinite ==
  ASSUME NEW n, IsNetwork(n)
  PROVE  /\ IsFiniteSet(Slots(n)) /\ IsFiniteSet(CutSlots(n)) /\ CutEdges(n) \in Nat
         /\ \A s \in Slots(n) : /\ s = <<s[1], s[2]>> /\ s[1] \in n.node /\ s[2] \in DOMAIN n.fanin[s[1]]
                                /\ s[2] \in Nat /\ Driver(n, s) \in Fanins(n, s[1])
         /\ \A v \in n.node : \A i : i \in DOMAIN n.fanin[v] => <<v, i>> \in Slots(n)
<1> DEFINE D == {{v} \X DOMAIN n.fanin[v] : v \in n.node}
           g == [v \in n.node |-> {v} \X DOMAIN n.fanin[v]]
<1>1. IsFiniteSet(n.node) /\ \A v \in n.node : n.fanin[v] \in Seq(Vertices(n))
  BY VerticesFinite, NetworkIs
<1>2. IsFiniteSet(D)
  <2>1. g \in Surjection(n.node, D)
    BY DEF Surjection
  <2> QED
    BY <1>1, <2>1, FS_Surjection
<1>3. ASSUME NEW v \in n.node
      PROVE  IsFiniteSet({v} \X DOMAIN n.fanin[v])
  <2>1. IsFiniteSet({v})
    BY FS_Singleton
  <2>4. IsFiniteSet(DOMAIN n.fanin[v])
    BY <1>1, SlotsAre
  <2> QED
    BY <2>1, <2>4, FS_Product
<1>4. \A T \in D : IsFiniteSet(T)
  BY <1>3
<1>5. IsFiniteSet(UNION D)
  <2> HIDE DEF D
  <2> QED
    BY <1>2, <1>4, FS_UNION
<1>6. Slots(n) = UNION D
  BY DEF Slots
<1>7. CutSlots(n) \subseteq Slots(n)
  BY DEF CutSlots
<1>8. IsFiniteSet(Slots(n)) /\ IsFiniteSet(CutSlots(n)) /\ CutEdges(n) \in Nat
  BY <1>5, <1>6, <1>7, FS_Subset, FS_CardinalityType DEF CutEdges
<1>9. ASSUME NEW s \in Slots(n)
      PROVE  /\ s = <<s[1], s[2]>> /\ s[1] \in n.node /\ s[2] \in DOMAIN n.fanin[s[1]]
             /\ s[2] \in Nat /\ Driver(n, s) \in Fanins(n, s[1])
  <2>1. s = <<s[1], s[2]>> /\ s[1] \in n.node /\ s[2] \in DOMAIN n.fanin[s[1]]
    BY <1>6
  <2>2. s[2] \in Nat
    BY <1>1, <2>1
  <2> QED
    BY <2>1, <2>2 DEF Driver, Fanins, ToSet
<1>10. \A v \in n.node : \A i : i \in DOMAIN n.fanin[v] => <<v, i>> \in Slots(n)
  BY <1>6
<1> QED
  BY <1>8, <1>9, <1>10

(* Sets of which the elements of one are those of the other, one each, have *)
(* as many.                                                                 *)
LEMMA OneEach ==
  ASSUME NEW P, IsFiniteSet(P), NEW Q, NEW h, \A x \in P : h[x] \in Q,
         \A x, y \in P : h[x] = h[y] => x = y, \A z \in Q : \E x \in P : z = h[x]
  PROVE  Cardinality(P) = Cardinality(Q) /\ IsFiniteSet(Q)
<1> DEFINE g == [x \in P |-> h[x]]
<1>1. g \in Bijection(P, Q)
  BY DEF Bijection, Injection, Surjection, IsInjective
<1>2. g \in Surjection(P, Q) /\ ExistsBijection(P, Q)
  BY <1>1 DEF Bijection, ExistsBijection
<1> HIDE DEF g
<1> QED
  BY <1>1, <1>2, FS_Bijection, FS_Surjection

----------------------------------------------------------------------------
(* Arrivals *)
ArrivalBody(n, a, v) ==
  IF v \in n.pi \/ n.part[v] = NoPart THEN 0
  ELSE HopsOver(n, [u \in Fanins(n, v) |-> a[u]], n.fanin[v], n.part[v])

HopsTo(n, a, v) ==
  {a[u] + (IF n.part[u] # n.part[v] THEN 1 ELSE 0) : u \in {u \in Fanins(n, v) : n.part[u] # NoPart}}

LEMMA ArrivalBodyIs ==
  ASSUME NEW n, IsNetwork(n), NEW v \in Vertices(n), NEW a
  PROVE  ArrivalBody(n, a, v) = IF v \in n.pi \/ n.part[v] = NoPart THEN 0
                                ELSE Max({0} \cup HopsTo(n, a, v))
<1>1. v \notin n.pi => v \in n.node /\ Fanins(n, v) = ToSet(n.fanin[v])
  BY DEF Vertices, Fanins
<1>2. v \notin n.pi =>
        {[u \in Fanins(n, v) |-> a[u]][w] + (IF n.part[w] # n.part[v] THEN 1 ELSE 0) :
           w \in {u \in ToSet(n.fanin[v]) : n.part[u] # NoPart}} = HopsTo(n, a, v)
  BY <1>1 DEF HopsTo
<1> QED
  BY <1>2 DEF ArrivalBody, HopsOver

LEMMA ArrivalBodyTyped ==
  ASSUME NEW n, IsNetwork(n), NEW v \in Vertices(n), NEW a, \A u \in Fanins(n, v) : a[u] \in Nat
  PROVE  ArrivalBody(n, a, v) \in Nat
<1> DEFINE F == {u \in Fanins(n, v) : n.part[u] # NoPart}
           g == [u \in F |-> a[u] + (IF n.part[u] # n.part[v] THEN 1 ELSE 0)]
           M == LatestIn(F, g)
<1>1. IsFiniteSet(F)
  BY FaninsTyped, VerticesFinite, FS_Subset
<1>2. \A u \in F : g[u] \in Nat
  OBVIOUS
<1>3. HopsTo(n, a, v) = {g[u] : u \in F}
  BY DEF HopsTo
<1>4. M \in Nat
  <2> HIDE DEF F, g
  <2> QED
    BY <1>1, <1>2, LatestOf
<1>5. M = Max({0} \cup HopsTo(n, a, v))
  <2> HIDE DEF F, g
  <2> QED
    BY <1>3 DEF LatestIn
<1> HIDE DEF M
<1> QED
  BY <1>4, <1>5, ArrivalBodyIs

LEMMA ArrivalIs ==
  ASSUME NEW n, WellFormed(n)
  PROVE  /\ \A v \in Vertices(n) : Arrival(n)[v] \in Nat /\ Arrival(n)[v] = ArrivalBody(n, Arrival(n), v)
         /\ HopNum(n) \in Nat /\ DOMAIN Arrival(n) = Vertices(n)
<1> DEFINE V == Vertices(n)
           B == [v \in V |-> [g \in [V -> Nat] |-> ArrivalBody(n, g, v)]]
           r == CHOOSE a : a = [v \in V |-> ArrivalBody(n, a, v)]
<1>0. IsNetwork(n) /\ Acyclic(n) /\ \A v \in V : Fanins(n, v) \subseteq V
  BY FaninsTyped DEF WellFormed
<1>1. \A v \in V, g \in [V -> Nat] : B[v][g] = ArrivalBody(n, g, v)
  OBVIOUS
<1>2. ASSUME NEW v \in V, NEW g \in [V -> Nat]
      PROVE  B[v][g] \in Nat
  <2>1. \A u \in Fanins(n, v) : g[u] \in Nat
    BY <1>0
  <2> QED
    BY <1>0, <1>1, <2>1, ArrivalBodyTyped
<1>3. ASSUME NEW v \in V, NEW g \in [V -> Nat], NEW k \in [V -> Nat],
             \A u \in Fanins(n, v) : g[u] = k[u]
      PROVE  B[v][g] = B[v][k]
  <2>1. HopsTo(n, g, v) = HopsTo(n, k, v)
    BY <1>3 DEF HopsTo
  <2>2. ArrivalBody(n, g, v) = IF v \in n.pi \/ n.part[v] = NoPart THEN 0
                                ELSE Max({0} \cup HopsTo(n, g, v))
    BY <1>0, ArrivalBodyIs
  <2>3. ArrivalBody(n, k, v) = IF v \in n.pi \/ n.part[v] = NoPart THEN 0
                                ELSE Max({0} \cup HopsTo(n, k, v))
    BY <1>0, ArrivalBodyIs
  <2>4. ArrivalBody(n, g, v) = ArrivalBody(n, k, v)
    BY ONLY <2>1, <2>2, <2>3
  <2> QED
    BY <1>1, <2>4
<1>4. PICK f \in [V -> Nat] : \A v \in V : f[v] = ArrivalBody(n, f, v)
  <2> DEFINE Val == Nat
  <2> HIDE DEF B
  <2>1. \A v \in V, g \in [V -> Val] : B[v][g] \in Val
    BY <1>2
  <2>2. \A v \in V, g, k \in [V -> Val] : (\A u \in Fanins(n, v) : g[u] = k[u]) => B[v][g] = B[v][k]
    BY <1>3
  <2>3. Val # {}
    OBVIOUS
  <2> HIDE DEF Val
  <2>4. NetFlow(n, Val, B)
    BY <2>1, <2>2 DEF NetFlow
  <2>5. Solvable(Vertices(n), Val, B)
    BY <1>0, <2>3, <2>4, NetFlowExists
  <2>6. PICK f \in [V -> Nat] : \A v \in V : f[v] = B[v][f]
    BY <2>5 DEF Val, Solvable
  <2> QED
    BY <1>1, <2>6
<1>5. f = [v \in V |-> ArrivalBody(n, f, v)]
  BY <1>4
<1>6. r = [v \in V |-> ArrivalBody(n, r, v)]
  BY <1>5
<1>7. Arrival(n) = r
  BY DEF Arrival, ArrivalBody
<1> HIDE DEF r
<1>8. DOMAIN r = V /\ \A v \in V : r[v] = ArrivalBody(n, r, v)
  BY <1>6
<1> DEFINE S == {v \in V : r[v] \in Nat}
<1>9. ASSUME NEW v \in V, Fanins(n, v) \subseteq S
      PROVE  v \in S
  BY <1>0, <1>8, <1>9, ArrivalBodyTyped
<1>10. \A v \in V : v \in S
  <2> HIDE DEF S
  <2> QED
    BY <1>0, <1>9, FromFanins
<1>11. HopNum(n) \in Nat
  <2> DEFINE M == LatestIn(n.node, r)
  <2>1. IsFiniteSet(n.node) /\ \A v \in n.node : r[v] \in Nat
    BY <1>0, <1>10, VerticesFinite DEF Vertices
  <2>2. M \in Nat
    BY <2>1, LatestOf
  <2>3. HopNum(n) = M
    BY <1>7 DEF HopNum, LatestIn
  <2> HIDE DEF M
  <2> QED
    BY <2>2, <2>3
<1> QED
  BY <1>7, <1>8, <1>10, <1>11

----------------------------------------------------------------------------
(* Moves of nodes between parts *)
LEMMA RepartedIs ==
  ASSUME NEW n, WellFormed(n), NEW q \in [Vertices(n) -> Nat \cup {NoPart}], NEW m, m = [n EXCEPT !.part = q]
  PROVE  WellFormed(m) /\ IsReparted(m, n) /\ m.part = q /\ Vertices(m) = Vertices(n)
<1>1. /\ IsNetwork(m) /\ m.part = q /\ m.max = n.max /\ m.pi = n.pi /\ m.node = n.node
      /\ m.fanin = n.fanin /\ m.truth = n.truth /\ m.po = n.po
  BY RepartNetwork DEF WellFormed
<1>2. IsReparted(m, n) /\ Vertices(m) = Vertices(n)
  BY <1>1 DEF IsReparted, Vertices
<1> QED
  BY <1>1, <1>2, RepartedAcyclic DEF WellFormed

LEMMA MovedParts ==
  ASSUME NEW n, WellFormed(n), NEW v \in Vertices(n), NEW p \in Nat \cup {NoPart}, NEW m, m = Moved(n, v, p)
  PROVE  /\ WellFormed(m) /\ IsReparted(m, n) /\ Vertices(m) = Vertices(n)
         /\ m.part[v] = p /\ \A w \in Vertices(n) : w # v => m.part[w] = n.part[w]
<1> DEFINE q == [n.part EXCEPT ![v] = p]
<1>0. DOMAIN n = Fields /\ DOMAIN n.part = Vertices(n) /\ \A w \in Vertices(n) : n.part[w] \in Nat \cup {NoPart}
  BY NetworkFields, NetworkIs DEF WellFormed
<1>1. q \in [Vertices(n) -> Nat \cup {NoPart}]
  BY <1>0
<1>2. q[v] = p /\ \A w \in Vertices(n) : w # v => q[w] = n.part[w]
  BY <1>0
<1>3. m = [n EXCEPT !.part = q]
  BY <1>0 DEF Moved, Fields
<1> HIDE DEF q
<1> QED
  BY <1>1, <1>2, <1>3, RepartedIs

LEMMA MovedFrom ==
  \A n, v, p, m : WellFormed(n) /\ v \in Vertices(n) /\ p \in Nat \cup {NoPart} /\ m = Moved(n, v, p) =>
    /\ WellFormed(m) /\ IsReparted(m, n) /\ Vertices(m) = Vertices(n)
    /\ m.part[v] = p /\ \A w \in Vertices(n) : w # v => m.part[w] = n.part[w]
<1> SUFFICES ASSUME NEW n, NEW v \in Vertices(n), NEW p \in Nat \cup {NoPart}, NEW m,
                    WellFormed(n), m = Moved(n, v, p)
             PROVE  /\ WellFormed(m) /\ IsReparted(m, n) /\ Vertices(m) = Vertices(n)
                    /\ m.part[v] = p /\ \A w \in Vertices(n) : w # v => m.part[w] = n.part[w]
  OBVIOUS
<1>1. WellFormed(m) /\ IsReparted(m, n) /\ Vertices(m) = Vertices(n)
  BY MovedParts
<1>2. m.part[v] = p
  BY MovedParts
<1>3. \A w \in Vertices(n) : w # v => m.part[w] = n.part[w]
  BY MovedParts
<1> QED
  BY <1>1, <1>2, <1>3

(* Networks that differ in nothing are equal. *)
LEMMA SameParts ==
  ASSUME NEW n, NEW a, NEW b, IsReparted(a, n), IsReparted(b, n),
         \A v \in Vertices(n) : a.part[v] = b.part[v]
  PROVE  a = b
<1>1. /\ a.pi = b.pi /\ a.node = b.node /\ a.fanin = b.fanin /\ a.truth = b.truth /\ a.po = b.po
      /\ a.max = b.max /\ IsNetwork(a) /\ IsNetwork(b)
      /\ Vertices(a) = Vertices(n) /\ Vertices(b) = Vertices(n)
  BY DEF IsReparted, Vertices
<1>2. a.part = [v \in Vertices(n) |-> a.part[v]] /\ b.part = [v \in Vertices(n) |-> b.part[v]]
  BY <1>1 DEF IsNetwork
<1>3. a.part = b.part
  BY <1>2
<1>4. a = [x \in Fields |-> a[x]] /\ b = [x \in Fields |-> b[x]]
  BY <1>1, NetworkFields
<1> QED
  BY <1>1, <1>3, <1>4, SameFields

----------------------------------------------------------------------------
(* The cut-edges of a change *)
LEMMA CountApart ==
  ASSUME NEW S, IsFiniteSet(S), NEW T, IsFiniteSet(T), S \cap T = {}
  PROVE  /\ IsFiniteSet(S \cup T) /\ Cardinality(S \cup T) = Cardinality(S) + Cardinality(T)
         /\ Cardinality(S) \in Nat /\ Cardinality(T) \in Nat /\ Cardinality(S \cup T) \in Nat
<1>1. Cardinality(S \cap T) = 0
  BY FS_EmptySet
<1>2. Cardinality(S) \in Nat /\ Cardinality(T) \in Nat
  BY FS_CardinalityType
<1>3. IsFiniteSet(S \cup T) /\ Cardinality(S \cup T) = Cardinality(S) + Cardinality(T) - Cardinality(S \cap T)
  BY FS_Union
<1> QED
  BY <1>1, <1>2, <1>3

LEMMA NoSelf ==
  ASSUME NEW n, WellFormed(n), NEW v
  PROVE  v \notin Fanins(n, v)
<1>1. v \in Vertices(n) => v \notin Fanins(n, v)
  <2>1. \A u \in Vertices(n) : u \in Cone(n, u)
    BY ConeOf
  <2> QED
    BY <2>1, ConeOf
<1>2. Fanins(n, v) \subseteq Vertices(n)
  BY FaninsTyped DEF WellFormed
<1> QED
  BY <1>1, <1>2

FaninSlots(n, v, p) == {s \in Slots(n) : s[1] = v /\ Foreign(n.part[Driver(n, s)], p)}
FanoutSlots(n, v, p) == {s \in Slots(n) : Driver(n, s) = v /\ Foreign(n.part[s[1]], p)}
OtherCuts(n, v) == {s \in CutSlots(n) : s[1] # v /\ Driver(n, s) # v}

LEMMA FaninCrossIs ==
  ASSUME NEW n, WellFormed(n), NEW v \in n.node, NEW p
  PROVE  /\ IsFiniteSet(FaninSlots(n, v, p))
         /\ Cardinality({i \in DOMAIN n.fanin[v] : Foreign(n.part[n.fanin[v][i]], p)}) = Cardinality(FaninSlots(n, v, p))
<1> DEFINE P == {i \in DOMAIN n.fanin[v] : Foreign(n.part[n.fanin[v][i]], p)}
           Q == FaninSlots(n, v, p)
           h == [i \in P |-> <<v, i>>]
<1>1. IsNetwork(n) /\ n.fanin[v] \in Seq(Vertices(n))
  BY NetworkIs DEF WellFormed
<1>2. IsFiniteSet(P)
  <2>2. IsFiniteSet(DOMAIN n.fanin[v])
    BY <1>1, SlotsAre
  <2>3. P \subseteq DOMAIN n.fanin[v]
    OBVIOUS
  <2> HIDE DEF P
  <2> QED
    BY <2>2, <2>3, FS_Subset
<1>3. \A i \in P : h[i] \in Q
  BY <1>1, SlotsFinite DEF FaninSlots, Driver
<1>4. \A i, j \in P : h[i] = h[j] => i = j
  OBVIOUS
<1>5. \A s \in Q : \E i \in P : s = h[i]
  <2> TAKE s \in Q
  <2>1. s \in Slots(n) /\ s[1] = v /\ Foreign(n.part[Driver(n, s)], p)
    BY DEF FaninSlots
  <2>2. s = <<v, s[2]>> /\ s[2] \in DOMAIN n.fanin[v]
    BY <1>1, <2>1, SlotsFinite
  <2>3. s[2] \in P
    BY <2>1, <2>2 DEF Driver
  <2> QED
    BY <2>2, <2>3
<1> HIDE DEF P, Q, h
<1>6. Cardinality(P) = Cardinality(Q) /\ IsFiniteSet(Q)
  BY <1>2, <1>3, <1>4, <1>5, OneEach
<1> QED
  BY <1>6 DEF P, Q

LEMMA IncidentIs ==
  ASSUME NEW n, WellFormed(n), NEW v \in n.node, NEW p
  PROVE  /\ IncidentCross(n, v, p) = Cardinality(FaninSlots(n, v, p)) + Cardinality(FanoutSlots(n, v, p))
         /\ IsFiniteSet(FaninSlots(n, v, p)) /\ IsFiniteSet(FanoutSlots(n, v, p))
         /\ FaninSlots(n, v, p) \cap FanoutSlots(n, v, p) = {}
<1>1. IsFiniteSet(Slots(n)) /\ \A s \in Slots(n) : Driver(n, s) \in Fanins(n, s[1])
  BY SlotsFinite DEF WellFormed
<1>2. FaninSlots(n, v, p) \cap FanoutSlots(n, v, p) = {}
  BY <1>1, NoSelf DEF FaninSlots, FanoutSlots
<1>3. IsFiniteSet(FanoutSlots(n, v, p))
  <2>1. FanoutSlots(n, v, p) \subseteq Slots(n)
    BY DEF FanoutSlots
  <2> QED
    BY <1>1, <2>1, FS_Subset
<1> QED
  BY <1>2, <1>3, FaninCrossIs DEF IncidentCross, FanoutSlots

LEMMA CutsAround ==
  ASSUME NEW n, WellFormed(n), NEW v \in n.node, n.part[v] # NoPart
  PROVE  /\ CutEdges(n) = IncidentCross(n, v, n.part[v]) + Cardinality(OtherCuts(n, v))
         /\ IncidentCross(n, v, n.part[v]) \in Nat /\ Cardinality(OtherCuts(n, v)) \in Nat
<1> DEFINE p == n.part[v]
           A == FaninSlots(n, v, p)
           B == FanoutSlots(n, v, p)
           R == OtherCuts(n, v)
<1>1. \A s \in Slots(n) : Driver(n, s) \in Fanins(n, s[1])
  BY SlotsFinite DEF WellFormed
<1>2. \A s \in Slots(n) : s[1] = v => (s \in CutSlots(n) <=> s \in A)
  BY DEF CutSlots, Crosses, FaninSlots, Foreign
<1>3. \A s \in Slots(n) : Driver(n, s) = v => (s \in CutSlots(n) <=> s \in B)
  BY DEF CutSlots, Crosses, FanoutSlots, Foreign
<1>4. CutSlots(n) = (A \cup B) \cup R
  BY <1>2, <1>3 DEF OtherCuts, CutSlots, FaninSlots, FanoutSlots
<1>5. (A \cup B) \cap R = {}
  BY DEF OtherCuts, FaninSlots, FanoutSlots
<1>6. /\ IncidentCross(n, v, p) = Cardinality(A) + Cardinality(B)
      /\ IsFiniteSet(A) /\ IsFiniteSet(B) /\ A \cap B = {}
  BY IncidentIs
<1>7. IsFiniteSet(R)
  <2>1. R \subseteq CutSlots(n) /\ IsFiniteSet(CutSlots(n))
    BY SlotsFinite DEF OtherCuts, WellFormed
  <2> QED
    BY <2>1, FS_Subset
<1> HIDE DEF A, B, R
<1>8. /\ IsFiniteSet(A \cup B) /\ Cardinality(A \cup B) = Cardinality(A) + Cardinality(B)
      /\ Cardinality(A \cup B) \in Nat
  BY <1>6, CountApart
<1>9. /\ Cardinality((A \cup B) \cup R) = Cardinality(A \cup B) + Cardinality(R) /\ Cardinality(R) \in Nat
  BY <1>5, <1>7, <1>8, CountApart
<1> QED
  BY <1>4, <1>6, <1>8, <1>9 DEF CutEdges, R, p

(* A node that moves to a part with fewer of its edges crossing takes that  *)
(* many from the cut.                                                       *)
LEMMA MoveLowers ==
  ASSUME NEW n, WellFormed(n), NEW v \in n.node, n.part[v] # NoPart, NEW p \in Nat, p # NoPart,
         IncidentCross(n, v, p) < IncidentCross(n, v, n.part[v])
  PROVE  CutEdges(Moved(n, v, p)) < CutEdges(n)
<1> DEFINE m == Moved(n, v, p)
<1>0. v \in Vertices(n)
  BY DEF Vertices
<1>1. /\ WellFormed(m) /\ IsReparted(m, n) /\ m.part[v] = p
      /\ \A w \in Vertices(n) : w # v => m.part[w] = n.part[w]
  BY <1>0, MovedParts
<1> HIDE DEF m
<1>2. m.node = n.node /\ m.fanin = n.fanin /\ Slots(m) = Slots(n) /\ \A s : Driver(m, s) = Driver(n, s)
  BY <1>1 DEF IsReparted, Slots, Driver
<1>3. \A s \in Slots(n) : s[1] \in n.node /\ s[1] \in Vertices(n) /\ Driver(n, s) \in Fanins(n, s[1]) /\ Driver(n, s) \in Vertices(n)
  <2>1. \A s \in Slots(n) : s[1] \in n.node /\ Driver(n, s) \in Fanins(n, s[1])
    BY SlotsFinite DEF WellFormed
  <2>2. \A w : Fanins(n, w) \subseteq Vertices(n)
    BY FaninsTyped DEF WellFormed
  <2> QED
    BY <2>1, <2>2 DEF Vertices
<1>4. OtherCuts(m, v) = OtherCuts(n, v)
  <2>1. \A s \in Slots(n) : s[1] # v /\ Driver(n, s) # v => (s \in CutSlots(m) <=> s \in CutSlots(n))
    BY <1>1, <1>2, <1>3 DEF CutSlots, Crosses
  <2> QED
    BY <1>2, <2>1 DEF OtherCuts, CutSlots
<1>5. FaninSlots(m, v, p) = FaninSlots(n, v, p)
  <2>1. \A s \in Slots(n) : s[1] = v => Driver(n, s) # v
    BY <1>3, NoSelf
  <2> QED
    BY <1>1, <1>2, <1>3, <2>1 DEF FaninSlots
<1>6. FanoutSlots(m, v, p) = FanoutSlots(n, v, p)
  <2>1. \A s \in Slots(n) : Driver(n, s) = v => s[1] # v
    BY <1>3, NoSelf
  <2> QED
    BY <1>1, <1>2, <1>3, <2>1 DEF FanoutSlots
<1>7. IncidentCross(m, v, p) = IncidentCross(n, v, p)
  <2>1. v \in m.node
    BY <1>2
  <2> QED
    BY <1>1, <1>5, <1>6, <2>1, IncidentIs
<1>8. /\ CutEdges(n) = IncidentCross(n, v, n.part[v]) + Cardinality(OtherCuts(n, v))
      /\ IncidentCross(n, v, n.part[v]) \in Nat /\ Cardinality(OtherCuts(n, v)) \in Nat
  BY CutsAround
<1>9. /\ CutEdges(m) = IncidentCross(m, v, p) + Cardinality(OtherCuts(m, v))
      /\ IncidentCross(m, v, p) \in Nat
  <2>1. v \in m.node /\ m.part[v] = p /\ p # NoPart
    BY <1>0, <1>1, <1>2
  <2> QED
    BY <1>1, <2>1, CutsAround
<1>10. CutEdges(m) < CutEdges(n)
  BY <1>4, <1>7, <1>8, <1>9
<1> QED
  BY <1>10 DEF m

----------------------------------------------------------------------------
(* What is left out takes its edges along. *)
LEMMA WithoutCuts ==
  ASSUME NEW n, IsNetwork(n), NEW D, NEW m, m = Without(n, D)
  PROVE  /\ Slots(m) = {s \in Slots(n) : s[1] \notin D}
         /\ \A s \in Slots(m) : Driver(m, s) = Driver(n, s)
         /\ WellFormed(m) => CutSlots(m) = {s \in CutSlots(n) : s[1] \notin D}
<1>1. /\ m.pi = n.pi /\ m.node = n.node \ D
      /\ \A v \in m.node : m.fanin[v] = n.fanin[v]
      /\ \A v \in Vertices(m) : m.part[v] = n.part[v]
  BY WithoutIs DEF IsWithout
<1>2. \A s \in Slots(n) : s = <<s[1], s[2]>> /\ s[1] \in n.node
  BY SlotsFinite
<1>3. Slots(m) = {s \in Slots(n) : s[1] \notin D}
  BY <1>1, <1>2 DEF Slots
<1>4. \A s \in Slots(m) : Driver(m, s) = Driver(n, s)
  BY <1>1, <1>2, <1>3 DEF Driver
<1>5. ASSUME WellFormed(m)
      PROVE  CutSlots(m) = {s \in CutSlots(n) : s[1] \notin D}
  <2>1. \A s \in Slots(m) : s[1] \in Vertices(m) /\ Driver(m, s) \in Fanins(m, s[1])
    BY <1>5, SlotsFinite DEF WellFormed, Vertices
  <2>2. \A v : Fanins(m, v) \subseteq Vertices(m)
    BY <1>5, FaninsTyped DEF WellFormed
  <2>3. \A s \in Slots(m) : m.part[s[1]] = n.part[s[1]] /\ m.part[Driver(m, s)] = n.part[Driver(n, s)]
    BY <1>1, <1>4, <2>1, <2>2
  <2> QED
    BY <1>3, <2>3 DEF CutSlots, Crosses
<1> QED
  BY <1>3, <1>4, <1>5

LEMMA FewerCuts ==
  ASSUME NEW m, NEW n, IsNetwork(n), CutSlots(m) \subseteq CutSlots(n)
  PROVE  CutEdges(m) <= CutEdges(n)
<1>1. IsFiniteSet(CutSlots(n))
  BY SlotsFinite
<1> QED
  BY <1>1, FS_Subset DEF CutEdges

LEMMA CleanedCuts ==
  ASSUME NEW n, WellFormed(n)
  PROVE  CutEdges(Cleaned(n)) <= CutEdges(n)
<1> DEFINE D == n.node \ UNION {Cone(n, n.po[o]) : o \in DOMAIN n.po}
           m == Cleaned(n)
<1>1. m = Without(n, D) /\ WellFormed(m)
  BY CleanedWellFormed DEF Cleaned
<1> HIDE DEF D, m
<1>2. CutSlots(m) \subseteq CutSlots(n)
  BY <1>1, WithoutCuts DEF WellFormed
<1>3. CutEdges(m) <= CutEdges(n)
  BY <1>2, FewerCuts DEF WellFormed
<1> QED
  BY <1>3 DEF m

----------------------------------------------------------------------------
(* A node is replaced by one that reads what it read but for a crossing     *)
(* slot, and divisors of its part: the cut is less by that slot.  h names   *)
(* the old slot that each new slot stands for.                              *)
Inherits(n, v, c, f, h) ==
  /\ \A i \in DOMAIN f : n.part[f[i]] = n.part[v] \/
        (h[i] \in DOMAIN n.fanin[v] /\ h[i] # c /\ f[i] = n.fanin[v][h[i]])
  /\ \A i, j \in DOMAIN f : h[i] = h[j] => i = j

LEMMA ReplacedLowers ==
  ASSUME NEW n, WellFormed(n), NEW v \in n.node, NEW t, NEW k, NEW f \in Seq(Vertices(n)),
         IsReplaced(k, n, v, f, t), NEW D, v \in D, NEW m, m = Without(k, D), WellFormed(m),
         NEW c, <<v, c>> \in CutSlots(n), NEW h, Inherits(n, v, c, f, h)
  PROVE  CutEdges(m) < CutEdges(n)
<1> DEFINE x == n.max
           A == CutSlots(m)
           B == CutSlots(n) \ {<<v, c>>}
           g == [s \in A |-> IF s[1] = x THEN <<v, h[s[2]]>> ELSE s]
<1>1. /\ IsNetwork(k) /\ k.node = n.node \cup {x} /\ x \notin Vertices(n) /\ Vertices(k) = Vertices(n) \cup {x}
      /\ k.fanin[x] = f /\ k.part[x] = n.part[v]
      /\ \A w \in Vertices(n) : k.part[w] = n.part[w]
      /\ \A w \in n.node : /\ DOMAIN k.fanin[w] = DOMAIN n.fanin[w]
                           /\ \A i \in DOMAIN n.fanin[w] :
                                k.fanin[w][i] = IF n.fanin[w][i] = v THEN x ELSE n.fanin[w][i]
  BY DEF IsReplaced
<1>h. /\ \A i \in DOMAIN f : n.part[f[i]] = n.part[v] \/
            (h[i] \in DOMAIN n.fanin[v] /\ h[i] # c /\ f[i] = n.fanin[v][h[i]])
      /\ \A i, j \in DOMAIN f : h[i] = h[j] => i = j
  BY DEF Inherits
<1>2. CutSlots(m) = {s \in CutSlots(k) : s[1] \notin D}
  BY <1>1, WithoutCuts
<1>3. \A w \in n.node : \A i \in DOMAIN n.fanin[w] : n.fanin[w][i] \in Vertices(n)
  BY NetworkIs DEF WellFormed
<1>4. v \in Vertices(n) /\ n.node \subseteq Vertices(n) /\ \A i \in DOMAIN f : f[i] \in Vertices(n)
  BY DEF Vertices
<1>5. ASSUME NEW s \in A, s[1] # x
      PROVE  s \in CutSlots(n) /\ s[1] # v
  <2>1. s \in Slots(k) /\ Crosses(k, Driver(k, s), s[1]) /\ s[1] # v
    BY <1>2 DEF CutSlots
  <2>2. s = <<s[1], s[2]>> /\ s[1] \in n.node /\ s[2] \in DOMAIN k.fanin[s[1]]
    BY <1>1, <1>5, <2>1, SlotsFinite
  <2>3. s \in Slots(n)
    BY <1>1, <2>2, SlotsFinite DEF WellFormed
  <2>4. k.part[Driver(k, s)] = n.part[Driver(n, s)] /\ k.part[s[1]] = n.part[s[1]]
    BY SMTT(30), <1>1, <1>3, <1>4, <2>2 DEF Driver
  <2> QED
    BY <2>1, <2>3, <2>4 DEF CutSlots, Crosses
<1>6. ASSUME NEW s \in A, s[1] = x
      PROVE  /\ <<v, h[s[2]]>> \in CutSlots(n) /\ h[s[2]] # c /\ s[2] \in DOMAIN f /\ s = <<s[1], s[2]>>
  <2>1. s \in Slots(k) /\ Crosses(k, Driver(k, s), s[1])
    BY <1>2 DEF CutSlots
  <2>2. s = <<x, s[2]>> /\ s[2] \in DOMAIN f
    BY <1>1, <1>6, <2>1, SlotsFinite
  <2>3. Driver(k, s) = f[s[2]] /\ k.part[f[s[2]]] = n.part[f[s[2]]] /\ k.part[s[1]] = n.part[v]
    BY <1>1, <1>4, <1>6, <2>2 DEF Driver
  <2>4. n.part[f[s[2]]] # n.part[v] /\ n.part[f[s[2]]] # NoPart /\ n.part[v] # NoPart
    BY <2>1, <2>3 DEF Crosses, Foreign
  <2>5. h[s[2]] \in DOMAIN n.fanin[v] /\ h[s[2]] # c /\ f[s[2]] = n.fanin[v][h[s[2]]]
    BY <1>h, <2>2, <2>4
  <2>6. <<v, h[s[2]]>> \in Slots(n) /\ Driver(n, <<v, h[s[2]]>>) = f[s[2]]
    BY <2>5, SlotsFinite DEF WellFormed, Driver
  <2> QED
    BY <2>2, <2>4, <2>5, <2>6 DEF CutSlots, Crosses, Foreign
<1>7. \A s \in A : g[s] \in B
  BY <1>5, <1>6
<1>8. \A s, r \in A : g[s] = g[r] => s = r
  <2> SUFFICES ASSUME NEW s \in A, NEW r \in A, g[s] = g[r] PROVE s = r
    OBVIOUS
  <2>1. CASE s[1] = x /\ r[1] = x
    <3>1. h[s[2]] = h[r[2]] /\ s[2] \in DOMAIN f /\ r[2] \in DOMAIN f
      BY <1>6, <2>1
    <3> QED
      BY SMTT(30), <1>6, <1>h, <2>1, <3>1
  <2>2. CASE s[1] = x /\ r[1] # x
    BY <1>5, <2>2
  <2>3. CASE s[1] # x /\ r[1] = x
    BY <1>5, <2>3
  <2>4. CASE s[1] # x /\ r[1] # x
    BY <2>4
  <2> QED
    BY <2>1, <2>2, <2>3, <2>4
<1>9. IsFiniteSet(CutSlots(n))
  BY SlotsFinite DEF WellFormed
<1>10. g \in [A -> B]
  BY <1>7
<1> HIDE DEF A, B, g
<1>11. g \in Injection(A, B)
  BY <1>8, <1>10 DEF Injection, IsInjective
<1>12. IsFiniteSet(B) /\ Cardinality(B) = Cardinality(CutSlots(n)) - 1
  BY <1>9, FS_RemoveElement DEF B
<1>13. Cardinality(A) <= Cardinality(B)
  BY <1>11, <1>12, FS_Injection
<1>14. CutEdges(n) \in Nat /\ CutEdges(m) \in Nat
  BY SlotsFinite DEF WellFormed
<1> QED
  BY <1>12, <1>13, <1>14 DEF CutEdges, A

----------------------------------------------------------------------------
(* A resubstitution *)
LEMMA SeqsJoined ==
  ASSUME NEW V, NEW a \in Seq(V), NEW b \in Seq(V)
  PROVE  /\ a \o b \in Seq(V) /\ Len(a \o b) = Len(a) + Len(b) /\ Len(a) \in Nat /\ Len(b) \in Nat
         /\ DOMAIN (a \o b) = 1 .. Len(a) + Len(b)
         /\ \A i \in 1 .. Len(a) + Len(b) : (a \o b)[i] = IF i <= Len(a) THEN a[i] ELSE b[i - Len(a)]
<1>1. a \o b \in Seq(V)
  OBVIOUS
<1>2. Len(a \o b) = Len(a) + Len(b) /\ Len(a) \in Nat /\ Len(b) \in Nat
  OBVIOUS
<1>3. \A i \in 1 .. Len(a) + Len(b) : (a \o b)[i] = IF i <= Len(a) THEN a[i] ELSE b[i - Len(a)]
  OBVIOUS
<1> QED
  BY <1>1, <1>2, <1>3

LEMMA RemovedAt ==
  ASSUME NEW V, NEW s \in Seq(V), NEW c \in 1 .. Len(s), NEW r, r = RemoveAt(s, c)
  PROVE  /\ r \in Seq(V) /\ Len(r) = Len(s) - 1 /\ Len(s) \in Nat
         /\ \A i \in 1 .. Len(s) - 1 : r[i] = IF i < c THEN s[i] ELSE s[i + 1]
<1> DEFINE a == SubSeq(s, 1, c - 1)
           b == SubSeq(s, c + 1, Len(s))
<1>1. r = a \o b
  BY DEF RemoveAt
<1>2. Len(s) \in Nat /\ c \in Nat /\ c >= 1 /\ c <= Len(s)
  OBVIOUS
<1>3. a \in Seq(V) /\ Len(a) = c - 1 /\ \A i \in 1 .. c - 1 : a[i] = s[i]
  BY <1>2
<1>4. b \in Seq(V) /\ Len(b) = Len(s) - c /\ \A i \in 1 .. Len(s) - c : b[i] = s[i + c]
  BY <1>2
<1> HIDE DEF a, b
<1>5. /\ a \o b \in Seq(V) /\ Len(a \o b) = Len(a) + Len(b)
      /\ \A i \in 1 .. Len(a) + Len(b) : (a \o b)[i] = IF i <= Len(a) THEN a[i] ELSE b[i - Len(a)]
  BY <1>3, <1>4, SeqsJoined
<1>6. Len(r) = Len(s) - 1 /\ r \in Seq(V)
  BY <1>1, <1>2, <1>3, <1>4, <1>5
<1>7. ASSUME NEW i \in 1 .. Len(s) - 1
      PROVE  r[i] = IF i < c THEN s[i] ELSE s[i + 1]
  <2>1. CASE i < c
    <3>1. i \in 1 .. c - 1 /\ i <= Len(a) /\ i \in 1 .. Len(a) + Len(b)
      BY <1>2, <1>3, <1>4, <2>1
    <3> QED
      BY <1>1, <1>3, <1>5, <2>1, <3>1
  <2>2. CASE i >= c
    <3>1. ~(i <= Len(a)) /\ i \in 1 .. Len(a) + Len(b) /\ i - Len(a) \in 1 .. Len(s) - c /\ (i - Len(a)) + c = i + 1
      BY <1>2, <1>3, <1>4, <2>2
    <3>2. r[i] = b[i - Len(a)]
      BY <1>1, <1>5, <3>1
    <3>3. b[i - Len(a)] = s[(i - Len(a)) + c]
      BY <1>4, <3>1
    <3> QED
      BY <1>2, <2>2, <3>1, <3>2, <3>3
  <2> QED
    BY <1>2, <2>1, <2>2
<1> QED
  BY <1>2, <1>6, <1>7

LEMMA RemovedFrom ==
  \A V : \A s \in Seq(V) : \A c \in 1 .. Len(s) : \A r : r = RemoveAt(s, c) =>
    /\ r \in Seq(V) /\ Len(r) = Len(s) - 1 /\ Len(s) \in Nat
    /\ \A i \in 1 .. Len(s) - 1 : r[i] = IF i < c THEN s[i] ELSE s[i + 1]
  BY RemovedAt

Reads(n, v, c, S) == RemoveAt(n.fanin[v], c) \o Listed(S, ById(S))

LEMMA ReadsAre ==
  ASSUME NEW n, WellFormed(n), NEW v \in n.node, NEW c \in 1 .. Len(n.fanin[v]),
         NEW S \in DivisorSets(n, v), NEW f, f = Reads(n, v, c, S)
  PROVE  /\ f \in Seq(Vertices(n)) /\ \A u \in ToSet(f) : v \notin Cone(n, u)
         /\ Len(n.fanin[v]) \in Nat
         /\ \A i \in DOMAIN f :
              IF i <= Len(n.fanin[v]) - 1
              THEN f[i] = n.fanin[v][IF i < c THEN i ELSE i + 1]
              ELSE n.part[f[i]] = n.part[v]
<1> DEFINE V == Vertices(n)
           a == RemoveAt(n.fanin[v], c)
           b == Listed(S, ById(S))
           len == Len(n.fanin[v])
<1>1. n.fanin[v] \in Seq(V) /\ IsFiniteSet(V) /\ V \subseteq Nat /\ v \in V
  BY NetworkIs, VerticesFinite DEF WellFormed, Vertices
<1>2. S \subseteq Divisors(n, v)
  BY DEF DivisorSets, kSubset
<1>3. S \subseteq V /\ \A d \in S : n.part[d] = n.part[v] /\ v \notin Cone(n, d)
  BY <1>1, <1>2, DivisorsApart
<1>4. IsFiniteSet(S) /\ Orders(ById(S), S)
  BY <1>1, <1>3, FS_Subset, ByIdOrders
<1>5. b \in Seq(S) /\ b \in Seq(V)
  BY <1>3, <1>4, ListedIs, SeqGrows
<1>6. /\ a \in Seq(V) /\ Len(a) = len - 1 /\ len \in Nat
      /\ \A i \in 1 .. len - 1 : a[i] = IF i < c THEN n.fanin[v][i] ELSE n.fanin[v][i + 1]
  <2> DEFINE g == n.fanin[v]
  <2>1. g \in Seq(V) /\ c \in 1 .. Len(g) /\ a = RemoveAt(g, c) /\ len = Len(g)
    BY <1>1
  <2> HIDE DEF g, a, len, V
  <2>2. /\ a \in Seq(V) /\ Len(a) = Len(g) - 1 /\ Len(g) \in Nat
        /\ \A i \in 1 .. Len(g) - 1 : a[i] = IF i < c THEN g[i] ELSE g[i + 1]
    BY ONLY SMTT(30), <2>1, RemovedFrom
  <2> QED
    BY <2>1, <2>2 DEF g
<1>7. f = a \o b
  BY DEF Reads
<1>c. c \in 1 .. len
  OBVIOUS
<1>v. \A u : u \in Fanins(n, v) => v \notin Cone(n, u)
  BY <1>1, ConeOf
<1>u. \A i \in 1 .. len : n.fanin[v][i] \in Fanins(n, v)
  BY <1>1 DEF Fanins, ToSet
<1> HIDE DEF V, a, b, len
<1>8. /\ f \in Seq(V) /\ DOMAIN f = 1 .. (Len(a) + Len(b)) /\ Len(b) \in Nat /\ Len(a) \in Nat
      /\ \A i \in 1 .. Len(a) + Len(b) : f[i] = IF i <= Len(a) THEN a[i] ELSE b[i - Len(a)]
  <2>1. a \in Seq(V) /\ b \in Seq(V)
    BY <1>5, <1>6
  <2>2. /\ a \o b \in Seq(V) /\ Len(a) \in Nat /\ Len(b) \in Nat
        /\ DOMAIN (a \o b) = 1 .. Len(a) + Len(b)
        /\ \A i \in 1 .. Len(a) + Len(b) : (a \o b)[i] = IF i <= Len(a) THEN a[i] ELSE b[i - Len(a)]
    BY ONLY <2>1, SeqsJoined
  <2> QED
    BY <1>7, <2>2
<1>9. \A j \in 1 .. Len(b) : b[j] \in S
  BY <1>5
<1>10. ASSUME NEW i \in DOMAIN f, i <= len - 1
       PROVE  f[i] = n.fanin[v][IF i < c THEN i ELSE i + 1] /\ f[i] \in Fanins(n, v)
  <2>1. i \in 1 .. len - 1 /\ i <= Len(a) /\ i \in 1 .. Len(a) + Len(b)
    BY <1>6, <1>8, <1>10
  <2>2. f[i] = a[i]
    BY <1>8, <2>1
  <2>3. f[i] = n.fanin[v][IF i < c THEN i ELSE i + 1]
    BY <1>6, <2>1, <2>2
  <2>4. (IF i < c THEN i ELSE i + 1) \in 1 .. len
    BY <1>6, <1>c, <2>1
  <2> QED
    BY <1>u, <2>3, <2>4
<1>11. ASSUME NEW i \in DOMAIN f, ~(i <= len - 1)
       PROVE  f[i] \in S
  <2>1. ~(i <= Len(a)) /\ i \in 1 .. Len(a) + Len(b) /\ i - Len(a) \in 1 .. Len(b)
    BY <1>6, <1>8, <1>11
  <2> QED
    BY <1>8, <1>9, <2>1
<1>12. \A u \in ToSet(f) : v \notin Cone(n, u)
  BY <1>3, <1>10, <1>11, <1>v DEF ToSet
<1> QED
  BY <1>3, <1>6, <1>8, <1>10, <1>11, <1>12 DEF V, len

LEMMA InterpolantsTyped ==
  ASSUME NEW n, NEW v, NEW f, NEW t \in Interpolants(n, v, f)
  PROVE  t \in SUBSET SUBSET DOMAIN f
<1> DEFINE seen(at) == {i \in DOMAIN f : f[i] \in at}
           matter == {TrueAt(n, a) : a \in Care(n, v)}
           on  == {seen(at) : at \in {at \in matter : v \in at}}
           off == {seen(at) : at \in {at \in matter : v \notin at}}
<1>1. on \in SUBSET SUBSET DOMAIN f
  OBVIOUS
<1>2. t \in {on, (SUBSET DOMAIN f) \ off}
  BY DEF Interpolants
<1> HIDE DEF on, off
<1> QED
  BY <1>1, <1>2

LEMMA ResubIs ==
  ASSUME NEW n, WellFormed(n), NEW v \in n.node, NEW c \in 1 .. Len(n.fanin[v]),
         NEW S \in DivisorSets(n, v), NEW f, f = Reads(n, v, c, S), NEW t \in Interpolants(n, v, f),
         NEW m, m = Resubbed(n, v, f, t)
  PROVE  /\ WellFormed(m) /\ m.max = n.max + 1 /\ m.pi = n.pi
         /\ m.node \subseteq (n.node \ {v}) \cup {n.max}
         /\ \A s \in CutSlots(n) : s[1] \in m.node => s \in CutSlots(m)
         /\ <<v, c>> \in CutSlots(n) => CutEdges(m) < CutEdges(n)
<1>1. /\ f \in Seq(Vertices(n)) /\ \A u \in ToSet(f) : v \notin Cone(n, u)
      /\ Len(n.fanin[v]) \in Nat
      /\ \A i \in DOMAIN f :
              IF i <= Len(n.fanin[v]) - 1
              THEN f[i] = n.fanin[v][IF i < c THEN i ELSE i + 1]
              ELSE n.part[f[i]] = n.part[v]
  BY ReadsAre
<1>2. t \in SUBSET SUBSET DOMAIN f
  BY InterpolantsTyped
<1>3. PICK k, D : IsReplaced(k, n, v, f, t) /\ v \in D /\ m = Without(k, D) /\ WellFormed(m)
  BY <1>1, <1>2, ResubbedWellFormed
<1>4. /\ IsNetwork(k) /\ k.max = n.max + 1 /\ k.pi = n.pi /\ k.node = n.node \cup {n.max}
      /\ n.max \notin Vertices(n)
      /\ \A w \in Vertices(n) : k.part[w] = n.part[w]
      /\ k.part[n.max] = n.part[v]
      /\ \A w \in n.node : /\ DOMAIN k.fanin[w] = DOMAIN n.fanin[w]
                           /\ \A i \in DOMAIN n.fanin[w] :
                                k.fanin[w][i] = IF n.fanin[w][i] = v THEN n.max ELSE n.fanin[w][i]
  BY <1>3 DEF IsReplaced
<1>5. m.max = k.max /\ m.pi = k.pi /\ m.node = k.node \ D
  BY <1>3, <1>4, WithoutIs DEF IsWithout
<1>6. CutSlots(m) = {s \in CutSlots(k) : s[1] \notin D}
  BY <1>3, <1>4, WithoutCuts
<1>7. ASSUME NEW s \in CutSlots(n), s[1] \in m.node
      PROVE  s \in CutSlots(m)
  <2>1. s \in Slots(n) /\ Crosses(n, Driver(n, s), s[1])
    BY DEF CutSlots
  <2>2. s = <<s[1], s[2]>> /\ s[1] \in n.node /\ s[2] \in DOMAIN n.fanin[s[1]] /\ s[1] \in Vertices(n)
    BY <2>1, SlotsFinite DEF WellFormed, Vertices
  <2>3. s \in Slots(k)
    BY <1>4, <2>2, SlotsFinite
  <2>4. n.fanin[s[1]][s[2]] \in Vertices(n)
    BY <2>2, NetworkIs DEF WellFormed
  <2>5. k.part[Driver(k, s)] = n.part[Driver(n, s)] /\ k.part[s[1]] = n.part[s[1]]
    BY <1>4, <2>2, <2>4 DEF Driver
  <2> QED
    BY <1>5, <1>6, <1>7, <2>1, <2>3, <2>5 DEF CutSlots, Crosses
<1>8. ASSUME <<v, c>> \in CutSlots(n)
      PROVE  CutEdges(m) < CutEdges(n)
  <2> DEFINE len == Len(n.fanin[v])
             h == [i \in DOMAIN f |-> IF i <= len - 1 THEN (IF i < c THEN i ELSE i + 1) ELSE -i]
  <2>1. DOMAIN n.fanin[v] = 1 .. len /\ len \in Nat /\ DOMAIN f \subseteq Nat \ {0} /\ c \in Nat /\ c >= 1
    <3>1. n.fanin[v] \in Seq(Vertices(n))
      BY NetworkIs DEF WellFormed
    <3>2. DOMAIN f = 1 .. Len(f) /\ Len(f) \in Nat
      BY <1>1
    <3> QED
      BY <3>1, <3>2
  <2>2. \A i \in DOMAIN f : n.part[f[i]] = n.part[v] \/
             (h[i] \in DOMAIN n.fanin[v] /\ h[i] # c /\ f[i] = n.fanin[v][h[i]])
    <3> TAKE i \in DOMAIN f
    <3>1. CASE i <= len - 1
      <4>1. h[i] = IF i < c THEN i ELSE i + 1
        BY <3>1
      <4>2. f[i] = n.fanin[v][IF i < c THEN i ELSE i + 1]
        BY <1>1, <3>1
      <4>3. (IF i < c THEN i ELSE i + 1) \in 1 .. len /\ (IF i < c THEN i ELSE i + 1) # c
        <5> i \in Nat /\ i >= 1
          BY <2>1
        <5> HIDE DEF len, h
        <5> QED
          BY <2>1, <3>1
      <4> HIDE DEF len, h
      <4> QED
        BY <2>1, <4>1, <4>2, <4>3
    <3>2. CASE ~(i <= len - 1)
      BY <1>1, <3>2
    <3> QED
      BY <3>1, <3>2
  <2>3. \A i, j \in DOMAIN f : h[i] = h[j] => i = j
    <3> SUFFICES ASSUME NEW i \in DOMAIN f, NEW j \in DOMAIN f, h[i] = h[j] PROVE i = j
      OBVIOUS
    <3>1. /\ h[i] = (IF i <= len - 1 THEN (IF i < c THEN i ELSE i + 1) ELSE -i)
          /\ h[j] = (IF j <= len - 1 THEN (IF j < c THEN j ELSE j + 1) ELSE -j)
      OBVIOUS
    <3>2. i \in Nat /\ i >= 1 /\ j \in Nat /\ j >= 1
      BY <2>1
    <3> HIDE DEF h, len
    <3>3. CASE i <= len - 1 /\ j <= len - 1
      <4>1. (IF i < c THEN i ELSE i + 1) = (IF j < c THEN j ELSE j + 1)
        BY <3>1, <3>3
      <4> QED
        BY <2>1, <3>2, <4>1
    <3>4. CASE ~(i <= len - 1) /\ ~(j <= len - 1)
      <4>1. -i = -j
        BY <3>1, <3>4
      <4> QED
        BY <3>2, <4>1
    <3>5. CASE i <= len - 1 /\ ~(j <= len - 1)
      <4>1. (IF i < c THEN i ELSE i + 1) = -j
        BY <3>1, <3>5
      <4> QED
        BY <3>2, <4>1
    <3>6. CASE ~(i <= len - 1) /\ j <= len - 1
      <4>1. -i = IF j < c THEN j ELSE j + 1
        BY <3>1, <3>6
      <4> QED
        BY <3>2, <4>1
    <3> QED
      BY <3>3, <3>4, <3>5, <3>6
  <2> HIDE DEF h, len
  <2>4. f \in Seq(Vertices(n)) /\ IsReplaced(k, n, v, f, t) /\ v \in D /\ m = Without(k, D)
        /\ WellFormed(m) /\ <<v, c>> \in CutSlots(n)
    BY <1>1, <1>3, <1>8
  <2>5. Inherits(n, v, c, f, h)
    BY <2>2, <2>3 DEF Inherits
  <2> QED
    BY <2>4, <2>5, ReplacedLowers
<1> QED
  BY <1>3, <1>4, <1>5, <1>7, <1>8

----------------------------------------------------------------------------
(* How the sizes follow the moves *)
LEMMA SizesFollow ==
  ASSUME NEW n, WellFormed(n), NEW v \in Vertices(n), NEW p \in Nat, n.part[v] # p, NEW parts \in Nat
  PROVE  Sizes(Moved(n, v, p), parts) = SizesMoved(Sizes(n, parts), n.part[v], p)
<1> DEFINE m == Moved(n, v, p)
           q == n.part[v]
           sz == Sizes(n, parts)
           P(r) == {w \in Vertices(n) : n.part[w] = r}
           Q(r) == {w \in Vertices(m) : m.part[w] = r}
<1>1. /\ Vertices(m) = Vertices(n) /\ m.part[v] = p
      /\ \A w \in Vertices(n) : w # v => m.part[w] = n.part[w]
  BY MovedParts
<1>2. IsFiniteSet(Vertices(n))
  BY VerticesFinite DEF WellFormed
<1> HIDE DEF m
<1>3. \A r : IsFiniteSet(P(r)) /\ Cardinality(P(r)) \in Nat
  <2> TAKE r
  <2>1. P(r) \subseteq Vertices(n)
    OBVIOUS
  <2> HIDE DEF P
  <2> QED
    BY <1>2, <2>1, FS_Subset, FS_CardinalityType
<1>4. Cardinality(Q(p)) = Cardinality(P(p)) + 1
  <2>1. Q(p) = P(p) \cup {v} /\ v \notin P(p)
    BY <1>1
  <2> HIDE DEF P, Q
  <2> QED
    BY <1>3, <2>1, FS_AddElement
<1>5. Cardinality(Q(q)) = Cardinality(P(q)) - 1
  <2>1. Q(q) = P(q) \ {v} /\ v \in P(q)
    BY <1>1
  <2> HIDE DEF P, Q
  <2> QED
    BY SMTT(30), <1>3, <2>1, FS_RemoveElement
<1>6. \A r : r # p /\ r # q => Q(r) = P(r)
  BY <1>1
<1>7. /\ DOMAIN sz = 0 .. parts - 1 /\ \A r \in 0 .. parts - 1 : sz[r] = Cardinality(P(r))
  BY DEF Sizes
<1>8. /\ DOMAIN Sizes(m, parts) = 0 .. parts - 1
      /\ \A r \in 0 .. parts - 1 : Sizes(m, parts)[r] = Cardinality(Q(r))
  BY DEF Sizes
<1>9. SizesMoved(sz, q, p) = [r \in 0 .. parts - 1 |-> IF r = p THEN sz[p] + 1
                                                      ELSE IF r = q THEN sz[q] - 1 ELSE sz[r]]
  <2> HIDE DEF sz, q, P, Q
  <2>1. DOMAIN sz = 0 .. parts - 1
    BY <1>7
  <2>2. q # p
    BY DEF q
  <2>3. SizesMoved(sz, q, p) = [sz EXCEPT ![q] = @ - 1, ![p] = @ + 1]
    BY DEF SizesMoved
  <2>4. [sz EXCEPT ![q] = @ - 1, ![p] = @ + 1] = [r \in DOMAIN sz |-> [sz EXCEPT ![q] = @ - 1, ![p] = @ + 1][r]]
    OBVIOUS
  <2>5. \A r \in 0 .. parts - 1 : [sz EXCEPT ![q] = @ - 1, ![p] = @ + 1][r] =
            IF r = p THEN sz[p] + 1 ELSE IF r = q THEN sz[q] - 1 ELSE sz[r]
    BY <2>1, <2>2
  <2> QED
    BY <2>1, <2>3, <2>4, <2>5
<1>10. Sizes(m, parts) = [r \in 0 .. parts - 1 |-> Cardinality(Q(r))]
  BY DEF Sizes
<1>11. \A r \in 0 .. parts - 1 : Cardinality(Q(r)) = IF r = p THEN sz[p] + 1 ELSE IF r = q THEN sz[q] - 1 ELSE sz[r]
  <2> HIDE DEF P, Q, sz
  <2> QED
    BY <1>4, <1>5, <1>6, <1>7
<1>q. q # p
  OBVIOUS
<1> HIDE DEF P, Q, sz, q
<1>12. Sizes(m, parts) = SizesMoved(sz, q, p)
  BY <1>9, <1>10, <1>11, <1>q
<1> QED
  BY <1>12 DEF m, sz, q

LEMMA LimitNat ==
  ASSUME NEW D, IsFiniteSet(D), D # {}, NEW sz, D = DOMAIN sz, \A p \in D : sz[p] \in Nat,
         NEW pct \in Nat
  PROVE  MaxAllowed(sz, pct) \in Nat
<1> DEFINE c == Cardinality(D)
           total == SumFunctionOnSet(sz, D)
           avg == total \div c
           x == (avg * pct + 99) \div 100
           slack == Max({x, 1})
<1>1. c \in Nat /\ c > 0
  BY FS_CardinalityType, FS_EmptySet
<1>2. total \in Nat
  BY SumGrows
<1>3. MapThenSumSet(LAMBDA p : sz[p], DOMAIN sz) = total
  BY DEF MapThenSumSet, SumFunctionOnSet, FoldFunctionOnSet
<1>4. MaxAllowed(sz, pct) = IF total = 0 THEN 0 ELSE avg + slack
  BY <1>3 DEF MaxAllowed
<1>5. avg \in Nat
  <2> HIDE DEF c, total
  <2> QED
    BY <1>1, <1>2
<1>6. x \in Nat
  <2> DEFINE y == avg * pct
  <2>1. y \in Nat
    <3> HIDE DEF avg
    <3> QED
      BY <1>5
  <2> HIDE DEF y
  <2>2. (y + 99) \div 100 \in Nat
    BY <2>1
  <2> QED
    BY <2>2 DEF y
<1>7. slack \in Int /\ slack >= 1
  <2>1. x \in Int /\ 1 \in Int /\ slack = Max({x, 1})
    BY <1>6
  <2> HIDE DEF x, slack
  <2> QED
    BY ONLY <2>1, MaxOfTwo
<1> HIDE DEF avg, slack, total, x
<1> QED
  BY <1>4, <1>5, <1>7

LEMMA OverIs ==
  ASSUME NEW D \in SUBSET Nat, NEW sz, D = DOMAIN sz, NEW most \in Nat, \A p \in D : sz[p] \in Nat,
         Over(sz, most) # {}
  PROVE  Min(Over(sz, most)) \in D /\ sz[Min(Over(sz, most))] >= 1
<1> DEFINE S == Over(sz, most)
<1>1. S \in SUBSET Nat /\ S # {} /\ \A p \in S : p \in D /\ sz[p] > most
  BY DEF Over, IsOver
<1> HIDE DEF S
<1>2. Min(S) \in S
  BY <1>1, LeastIn
<1> QED
  BY <1>1, <1>2 DEF S

LEMMA SizesMovedTyped ==
  ASSUME NEW sz, \A r \in DOMAIN sz : sz[r] \in Nat, NEW q, NEW p, q \in DOMAIN sz => sz[q] >= 1
  PROVE  /\ DOMAIN SizesMoved(sz, q, p) = DOMAIN sz
         /\ \A r \in DOMAIN sz : SizesMoved(sz, q, p)[r] \in Nat
<1>1. DOMAIN SizesMoved(sz, q, p) = DOMAIN sz
  BY DEF SizesMoved
<1>2. ASSUME NEW r \in DOMAIN sz
      PROVE  SizesMoved(sz, q, p)[r] \in Nat
  <2>1. CASE r = p /\ r = q
    BY <2>1 DEF SizesMoved
  <2>2. CASE r = p /\ r # q
    BY <2>2 DEF SizesMoved
  <2>3. CASE r # p /\ r = q
    BY <2>3 DEF SizesMoved
  <2>4. CASE r # p /\ r # q
    BY <2>4 DEF SizesMoved
  <2> QED
    BY <2>1, <2>2, <2>3, <2>4
<1> QED
  BY <1>1, <1>2

----------------------------------------------------------------------------
(* The candidates of a round: where a node may go, and the crossing fanins. *)
LEMMA TargetsAre ==
  ASSUME NEW n, WellFormed(n), NEW v \in n.node, NEW p \in BestTargets(n, v)
  PROVE  p \in Nat /\ p # NoPart /\ p # n.part[v] /\ IncidentCross(n, v, p) < IncidentCross(n, v, n.part[v])
<1>1. p \in NeighbourParts(n, v) /\ IncidentCross(n, v, p) < IncidentCross(n, v, n.part[v])
  BY DEF BestTargets
<1>2. PICK u \in Fanins(n, v) \cup Fanouts(n, v) : p = n.part[u]
  BY <1>1 DEF NeighbourParts
<1>3. u \in Vertices(n)
  BY <1>2, FaninsTyped DEF WellFormed, Fanouts, Vertices
<1> QED
  BY <1>1, <1>2, <1>3, Typed DEF WellFormed, NeighbourParts

LEMMA CutCandidatesAre ==
  ASSUME NEW n, WellFormed(n), NEW c \in CutCandidates(n)
  PROVE  c.node \in Nat /\ c.node < n.max /\ c.node \in n.node /\ <<c.node, c.slot>> \in CutSlots(n)
<1> DEFINE most(u) == - Cardinality({t \in CutSlots(n) : Driver(n, t) = u})
<1>a. CutCandidates(n) = {[key |-> most(Driver(n, s)), node |-> s[1], slot |-> s[2]] : s \in CutSlots(n)}
  BY DEF CutCandidates
<1> HIDE DEF most
<1>1. PICK s \in CutSlots(n) : c.node = s[1] /\ c.slot = s[2]
  BY <1>a
<1>2. s = <<s[1], s[2]>> /\ s[1] \in n.node
  BY SlotsFinite DEF WellFormed, CutSlots
<1>3. s[1] \in Nat /\ s[1] < n.max
  BY <1>2, Typed DEF WellFormed, Vertices
<1> QED
  BY <1>1, <1>2, <1>3

----------------------------------------------------------------------------
(* m is n with a duplicate of u in the part p, which the readers there read *)
IsCopy(m, n, u, p) ==
  /\ m = [x \in Fields |-> m[x]]
  /\ m.max = n.max + 1 /\ m.pi = n.pi /\ m.node = n.node \cup {n.max} /\ m.po = n.po
  /\ m.fanin = [v \in m.node |-> m.fanin[v]]
  /\ m.truth = [v \in m.node |-> m.truth[v]]
  /\ m.part = [v \in Vertices(m) |-> m.part[v]]
  /\ m.fanin[n.max] = n.fanin[u] /\ m.truth[n.max] = n.truth[u] /\ m.part[n.max] = p
  /\ \A v \in n.node :
       /\ m.truth[v] = n.truth[v]
       /\ m.fanin[v] = IF v \in ReadersIn(n, u, p) THEN ReplaceAll(n.fanin[v], u, n.max) ELSE n.fanin[v]
  /\ \A v \in Vertices(n) : m.part[v] = n.part[v]
  /\ Vertices(m) = Vertices(n) \cup {n.max} /\ n.max \notin Vertices(n)

LEMMA CopyIs ==
  ASSUME NEW n, IsNetwork(n), NEW u \in n.node, NEW p \in Nat \cup {NoPart},
         NEW m, m = Patched(Extended(n, n.fanin[u], n.truth[u], p), ReadersIn(n, u, p), u, n.max)
  PROVE  IsCopy(m, n, u, p) /\ IsNetwork(m)
<1> DEFINE k == Extended(n, n.fanin[u], n.truth[u], p)
           R == ReadersIn(n, u, p)
<1>1. /\ n.fanin[u] \in Seq(Vertices(n)) /\ n.truth[u] \in SUBSET SUBSET DOMAIN n.fanin[u]
      /\ n.node \subseteq Vertices(n)
  BY DEF IsNetwork, Vertices
<1>2. IsNetwork(k)
  BY <1>1, ExtendedNetwork
<1>3. IsExtension(k, n, n.fanin[u], n.truth[u], p)
  BY ExtendedFields
<1>4. m = Patched(k, R, u, n.max)
  BY DEF R
<1> HIDE DEF k
<1>5. n.max \in Vertices(k)
  BY <1>3 DEF IsExtension
<1>6. IsNetwork(m)
  BY <1>2, <1>4, <1>5, PatchedNetwork
<1>7. /\ m = [x \in Fields |-> m[x]]
      /\ m.max = k.max /\ m.pi = k.pi /\ m.node = k.node /\ m.po = k.po
      /\ m.fanin = [v \in k.node |-> IF v \in R THEN ReplaceAll(k.fanin[v], u, n.max) ELSE k.fanin[v]]
      /\ m.truth = k.truth /\ m.part = k.part /\ Vertices(m) = Vertices(k)
  BY <1>2, <1>4, PatchedFields
<1>8. R \subseteq n.node /\ n.max \notin n.node
  BY <1>1, <1>3 DEF ReadersIn, Fanouts, IsExtension
<1> HIDE DEF R
<1>ext. /\ k.node = n.node \cup {n.max} /\ k.fanin[n.max] = n.fanin[u]
      /\ \A v \in n.node : k.fanin[v] = n.fanin[v]
  BY <1>3 DEF IsExtension
<1>pat. m.fanin = [v \in k.node |-> IF v \in R THEN ReplaceAll(k.fanin[v], u, n.max) ELSE k.fanin[v]]
  BY <1>7
<1>9. m.fanin[n.max] = n.fanin[u]
  <2>1. n.max \in k.node /\ n.max \notin R
    BY <1>ext, <1>8
  <2> QED
    BY <1>ext, <1>pat, <2>1
<1>10. \A v \in n.node : m.fanin[v] = IF v \in R THEN ReplaceAll(n.fanin[v], u, n.max) ELSE n.fanin[v]
  <2> SUFFICES ASSUME NEW v \in n.node
               PROVE  m.fanin[v] = IF v \in R THEN ReplaceAll(n.fanin[v], u, n.max) ELSE n.fanin[v]
    OBVIOUS
  <2>1. v \in k.node /\ k.fanin[v] = n.fanin[v]
    BY <1>ext
  <2>2. m.fanin[v] = IF v \in R THEN ReplaceAll(k.fanin[v], u, n.max) ELSE k.fanin[v]
    BY <1>pat, <2>1
  <2> QED
    BY <2>1, <2>2
<1>11. m.truth[n.max] = n.truth[u] /\ m.part[n.max] = p
  <2>1. k.truth[n.max] = n.truth[u] /\ k.part[n.max] = p
    BY <1>3 DEF IsExtension
  <2>2. m.truth = k.truth /\ m.part = k.part
    BY <1>7
  <2> QED
    BY <2>1, <2>2
<1>12. /\ \A v \in n.node : m.truth[v] = n.truth[v]
       /\ \A v \in Vertices(n) : m.part[v] = n.part[v]
  <2>1. /\ \A v \in n.node : k.truth[v] = n.truth[v]
        /\ \A v \in Vertices(n) : k.part[v] = n.part[v]
    BY <1>3 DEF IsExtension
  <2>2. m.truth = k.truth /\ m.part = k.part
    BY <1>7
  <2> QED
    BY <2>1, <2>2
<1>13. /\ m.max = n.max + 1 /\ m.pi = n.pi /\ m.node = n.node \cup {n.max} /\ m.po = n.po
       /\ Vertices(m) = Vertices(n) \cup {n.max} /\ n.max \notin Vertices(n)
  <2>1. /\ k.max = n.max + 1 /\ k.pi = n.pi /\ k.node = n.node \cup {n.max} /\ k.po = n.po
        /\ Vertices(k) = Vertices(n) \cup {n.max} /\ n.max \notin Vertices(n)
    BY <1>3 DEF IsExtension
  <2>2. m.max = k.max /\ m.pi = k.pi /\ m.node = k.node /\ m.po = k.po /\ Vertices(m) = Vertices(k)
    BY <1>7
  <2> QED
    BY <2>1, <2>2
<1>14. /\ m.fanin = [v \in m.node |-> m.fanin[v]]
       /\ m.truth = [v \in m.node |-> m.truth[v]]
       /\ m.part = [v \in Vertices(m) |-> m.part[v]]
       /\ m = [x \in Fields |-> m[x]]
  <2>1. DOMAIN m.fanin = m.node /\ DOMAIN m.truth = m.node /\ DOMAIN m.part = Vertices(m)
    BY <1>6, NetworkFields
  <2>2. m = [x \in Fields |-> m[x]]
    BY <1>6, NetworkFields
  <2>3. /\ m.fanin \in [m.node -> Seq(Vertices(m))]
        /\ m.truth = [v \in m.node |-> m.truth[v] \cap SUBSET DOMAIN m.fanin[v]]
        /\ m.part \in [Vertices(m) -> Nat \cup {NoPart}]
    BY <1>6 DEF IsNetwork
  <2> QED
    BY <2>1, <2>2, <2>3
<1>15. IsCopy(m, n, u, p)
  BY <1>9, <1>10, <1>11, <1>12, <1>13, <1>14 DEF IsCopy, R
<1> QED
  BY <1>6, <1>15

LEMMA CopyFanins ==
  ASSUME NEW n, IsNetwork(n), NEW u \in n.node, NEW p, NEW m, IsCopy(m, n, u, p)
  PROVE  /\ Fanins(m, n.max) = Fanins(n, u)
         /\ \A v \in n.node : /\ DOMAIN m.fanin[v] = DOMAIN n.fanin[v]
                              /\ \A i \in DOMAIN n.fanin[v] :
                                   m.fanin[v][i] = (IF v \in ReadersIn(n, u, p) /\ n.fanin[v][i] = u
                                                    THEN n.max ELSE n.fanin[v][i])
         /\ \A v \in n.node \ ReadersIn(n, u, p) : Fanins(m, v) = Fanins(n, v)
         /\ \A v \in ReadersIn(n, u, p) : Fanins(m, v) = (Fanins(n, v) \ {u}) \cup {n.max}
<1> DEFINE R == ReadersIn(n, u, p)
<1>1. /\ \A v \in n.node : n.fanin[v] \in Seq(Vertices(n))
      /\ R \subseteq n.node /\ \A v \in R : u \in Fanins(n, v)
      /\ m.node = n.node \cup {n.max}
      /\ n.node \subseteq Vertices(n) /\ n.max \notin n.node
  BY Typed DEF ReadersIn, Fanouts, IsCopy, Vertices
<1>2. Fanins(m, n.max) = Fanins(n, u)
  BY <1>1 DEF IsCopy, Fanins
<1>3. ASSUME NEW v \in n.node
      PROVE  /\ DOMAIN m.fanin[v] = DOMAIN n.fanin[v]
             /\ \A i \in DOMAIN n.fanin[v] :
                  m.fanin[v][i] = (IF v \in R /\ n.fanin[v][i] = u THEN n.max ELSE n.fanin[v][i])
  <2>1. CASE v \in R
    <3>1. m.fanin[v] = ReplaceAll(n.fanin[v], u, n.max)
      BY <2>1 DEF IsCopy
    <3>2. n.fanin[v] \in Seq(Vertices(n))
      BY <1>1
    <3>3. /\ DOMAIN m.fanin[v] = DOMAIN n.fanin[v]
          /\ \A i \in DOMAIN n.fanin[v] : m.fanin[v][i] = (IF n.fanin[v][i] = u THEN n.max ELSE n.fanin[v][i])
      BY <3>1, <3>2, ReplacedAt
    <3> QED
      BY <2>1, <3>3
  <2>2. CASE v \notin R
    BY <2>2 DEF IsCopy
  <2> QED
    BY <2>1, <2>2
<1>4. ASSUME NEW v \in n.node \ R
      PROVE  Fanins(m, v) = Fanins(n, v)
  <2>1. v \in m.node /\ m.fanin[v] = n.fanin[v]
    BY <1>1 DEF IsCopy
  <2> QED
    BY <2>1 DEF Fanins
<1>5. ASSUME NEW v \in R
      PROVE  Fanins(m, v) = (Fanins(n, v) \ {u}) \cup {n.max}
  <2>1. v \in n.node /\ v \in m.node
    BY <1>1
  <2>2. Fanins(n, v) = {n.fanin[v][i] : i \in DOMAIN n.fanin[v]}
    BY <2>1 DEF Fanins, ToSet
  <2>3. Fanins(m, v) = {m.fanin[v][i] : i \in DOMAIN n.fanin[v]}
    BY <1>3, <2>1 DEF Fanins, ToSet
  <2>4. PICK i \in DOMAIN n.fanin[v] : n.fanin[v][i] = u
    BY <1>1, <2>2
  <2> QED
    BY <1>3, <2>1, <2>2, <2>3, <2>4
<1> QED
  BY <1>2, <1>3, <1>4, <1>5

(* A cycle through the duplicate would be one through the node. *)
LEMMA CopyAcyclic ==
  ASSUME NEW n, IsNetwork(n), Acyclic(n), NEW u \in n.node, NEW p, NEW m, IsCopy(m, n, u, p)
  PROVE  Acyclic(m)
<1> DEFINE R == ReadersIn(n, u, p)
           d == n.max
<1>1. /\ m.node = n.node \cup {d} /\ d \notin Vertices(n) /\ n.node \subseteq Vertices(n)
      /\ Fanins(m, d) = Fanins(n, u)
      /\ \A v \in n.node \ R : Fanins(m, v) = Fanins(n, v)
      /\ \A v \in R : Fanins(m, v) = (Fanins(n, v) \ {u}) \cup {d}
      /\ \A v \in R : v \in n.node /\ u \in Fanins(n, v)
  <2>1. m.node = n.node \cup {d} /\ d \notin Vertices(n) /\ n.node \subseteq Vertices(n)
    BY DEF IsCopy, Vertices
  <2>2. \A v \in R : v \in n.node /\ u \in Fanins(n, v)
    BY DEF ReadersIn, Fanouts
  <2>3. Fanins(m, d) = Fanins(n, u)
    BY CopyFanins
  <2>4. \A v \in n.node \ R : Fanins(m, v) = Fanins(n, v)
    BY CopyFanins
  <2>5. \A v \in R : Fanins(m, v) = (Fanins(n, v) \ {u}) \cup {d}
    BY CopyFanins
  <2> QED
    BY <2>1, <2>2, <2>3, <2>4, <2>5
<1>2. \A v \in n.node : d \notin Fanins(n, v)
  BY <1>1, FaninsTyped
<1> HIDE DEF d, R
<1> SUFFICES ASSUME NEW S \in SUBSET m.node, S # {}
             PROVE  \E v \in S : Fanins(m, v) \cap S = {}
  BY DEF Acyclic
<1>3. CASE d \notin S
  <2>1. PICK v \in S : Fanins(n, v) \cap S = {}
    BY <1>1, <1>3 DEF Acyclic
  <2>2. v \in n.node
    BY <1>1, <1>3
  <2>3. CASE v \in R
    BY <1>1, <1>3, <2>1, <2>3
  <2>4. CASE v \notin R
    BY <1>1, <2>1, <2>2, <2>4
  <2> QED
    BY <2>3, <2>4
<1>4. CASE d \in S
  <2> DEFINE T == (S \ {d}) \cup {u}
  <2>1. T \in SUBSET n.node /\ T # {}
    BY <1>1
  <2>2. PICK v \in T : Fanins(n, v) \cap T = {}
    BY <2>1 DEF Acyclic
  <2>3. CASE v = u
    BY <1>1, <1>2, <1>4, <2>2, <2>3
  <2>4. CASE v # u /\ v \in R
    BY <1>1, <2>2, <2>4
  <2>5. CASE v # u /\ v \notin R
    <3>1. v \in S /\ Fanins(m, v) = Fanins(n, v)
      BY <1>1, <2>1, <2>5
    <3> QED
      BY <1>2, <2>1, <2>2, <3>1
  <2> QED
    BY <2>3, <2>4, <2>5
<1> QED
  BY <1>3, <1>4

----------------------------------------------------------------------------
(* The repair stops balanced, or at a first part of inputs only. *)
Balanced(n, sz, most) == Over(sz, most) # {} => NodesOf(n, Min(Over(sz, most))) = {}

LEMMA RepairEnds ==
  ASSUME NEW n, NEW parts \in Nat, NEW sz, DOMAIN sz = 0 .. parts - 1, \A p \in DOMAIN sz : sz[p] \in Nat,
         NEW pct \in Nat, NEW most, most = MaxAllowed(sz, pct), Movable(n, sz, most) = {}
  PROVE  Balanced(n, sz, most)
<1> SUFFICES ASSUME Over(sz, most) # {}
             PROVE  NodesOf(n, Min(Over(sz, most))) = {}
  BY DEF Balanced
<1> DEFINE D == 0 .. parts - 1
<1>1. D = DOMAIN sz /\ \A p \in D : sz[p] \in Nat
  OBVIOUS
<1>2. PICK o \in D : sz[o] > most
  BY <1>1 DEF Over, IsOver
<1>3. IsFiniteSet(D) /\ D \in SUBSET Nat /\ D # {}
  <2>1. IsFiniteSet(D)
    BY FS_Interval
  <2>2. D \in SUBSET Nat
    OBVIOUS
  <2>3. D # {}
    BY <1>2
  <2> QED
    BY <2>1, <2>2, <2>3
<1> HIDE DEF D
<1>4. most \in Nat /\ \E p \in D : sz[p] < most
  BY <1>1, <1>2, <1>3, LimitAbove
<1>5. Under(sz) \in D /\ \A p \in D : sz[Under(sz)] <= sz[p]
  BY <1>1, <1>3, UnderIs
<1>6. ~(sz[Under(sz)] >= most)
  BY <1>1, <1>4, <1>5
<1> DEFINE full == NodesOf(n, Min(Over(sz, most)))
           near == {v \in full : Touches(n, v, Under(sz))}
<1>7. Movable(n, sz, most) = IF near # {} THEN near ELSE full
  BY <1>6 DEF Movable
<1> QED
  BY <1>7
=============================================================================
