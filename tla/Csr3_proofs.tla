------------------------------ MODULE Csr3_proofs ------------------------------
(****************************************************************************)
(* What holds of Csr3 for all networks of two parts and all options: only   *)
(* complete lists of tuples are built, a codec that is rolled back leaves   *)
(* no trace, the lines that cross become fewer by what is reported, and     *)
(* every output computes what it did.  And of Csr4: the rewritten LUTs      *)
(* fit, the equations of the network stay satisfied by the same values, and *)
(* no group makes more nets cross.                                          *)
(****************************************************************************)
EXTENDS Csr3, Csr4, NetTheorems

----------------------------------------------------------------------------
(* Buckets are the classes of an equivalence. *)
LEMMA BucketHas ==
  ASSUME NEW lines, NEW support, NEW pct, NEW v \in lines
  PROVE  v \in Bucket(lines, support, pct, v) /\ Bucket(lines, support, pct, v) \subseteq lines
BY DEF Bucket

LEMMA BucketClosed ==
  ASSUME NEW lines, NEW support, NEW pct, NEW v \in lines,
         NEW x \in Bucket(lines, support, pct, v), NEW y \in lines,
         Similar(support[x], support[y], pct)
  PROVE  y \in Bucket(lines, support, pct, v)
BY DEF Bucket

LEMMA BucketLeast ==
  ASSUME NEW lines, NEW support, NEW pct, NEW v \in lines, NEW S \in SUBSET lines, v \in S,
         \A x \in S, y \in lines : Similar(support[x], support[y], pct) => y \in S
  PROVE  Bucket(lines, support, pct, v) \subseteq S
BY DEF Bucket

LEMMA BucketSame ==
  ASSUME NEW lines, NEW support, NEW pct, NEW v \in lines,
         NEW w \in Bucket(lines, support, pct, v)
  PROVE  Bucket(lines, support, pct, w) = Bucket(lines, support, pct, v)
<1> DEFINE B(x) == Bucket(lines, support, pct, x)
<1>1. w \in lines
  BY BucketHas
<1>2. B(w) \subseteq B(v)
  <2>1. \A x \in B(v), y \in lines : Similar(support[x], support[y], pct) => y \in B(v)
    BY BucketClosed
  <2>2. B(v) \in SUBSET lines
    BY BucketHas
  <2> HIDE DEF B
  <2> QED BY <1>1, <2>1, <2>2, BucketLeast DEF B
<1>3. v \in B(w)
  <2> SUFFICES ASSUME v \notin B(w) PROVE FALSE
    OBVIOUS
  <2> DEFINE S == B(v) \ B(w)
  <2>1. v \in S /\ S \in SUBSET lines
    BY BucketHas
  <2>2. ASSUME NEW x \in S, NEW y \in lines, Similar(support[x], support[y], pct) PROVE y \in S
    <3>1. y \in B(v)
      BY <2>2, BucketClosed
    <3>2. Similar(support[y], support[x], pct)
      <4>1. /\ support[x] \cap support[y] = support[y] \cap support[x]
            /\ support[x] \cup support[y] = support[y] \cup support[x]
        OBVIOUS
      <4> QED BY <2>2, <4>1 DEF Similar
    <3>3. x \in lines
      BY <2>1
    <3>4. y \in B(w) => x \in B(w)
      BY <1>1, <3>2, <3>3, BucketClosed
    <3> QED BY <3>1, <3>4
  <2>3. B(v) \subseteq S
    <3> HIDE DEF S
    <3> QED BY <2>1, <2>2, BucketLeast
  <2> QED BY <2>3, <1>1, BucketHas
<1>4. B(v) \subseteq B(w)
  <2>1. \A x \in B(w), y \in lines : Similar(support[x], support[y], pct) => y \in B(w)
    BY <1>1, BucketClosed
  <2>2. B(w) \in SUBSET lines
    BY <1>1, BucketHas
  <2> QED BY <1>3, <2>1, <2>2, BucketLeast
<1> QED BY <1>2, <1>4

----------------------------------------------------------------------------
(* Groups have one to most lines, and no line is in two places. *)
IsGrouping(G, L, most) ==
  /\ G \in Seq(Seq(L))
  /\ \A i \in DOMAIN G : Len(G[i]) \in 1 .. most
  /\ \A i, k \in DOMAIN G : \A j \in DOMAIN G[i], l \in DOMAIN G[k] :
       G[i][j] = G[k][l] => i = k /\ j = l

LEMMA MinIn ==
  ASSUME NEW S \in SUBSET Nat, S # {}
  PROVE  Min(S) \in S /\ \A x \in S : Min(S) <= x
BY LeastNatural DEF Min

LEMMA WindowsApart ==
  ASSUME NEW a \in Nat, NEW b \in Nat, NEW k \in Nat \ {0}, NEW x \in Nat, a % k = 0, b % k = 0,
         x \in a .. a + k - 1, x \in b .. b + k - 1
  PROVE  a = b
<1>1. a = k * (a \div k) /\ b = k * (b \div k) /\ a \div k \in Nat /\ b \div k \in Nat
  OBVIOUS
<1>2. ASSUME NEW i \in Nat, NEW j \in Nat, i < j PROVE k * i + k <= k * j
  <2>1. PICK d \in Nat : j = i + 1 + d
    <3>1. j - i - 1 \in Nat /\ j = i + 1 + (j - i - 1)
      BY <1>2
    <3> QED BY <3>1
  <2>2. k * (i + 1 + d) = k * i + k + k * d /\ k * d >= 0 /\ k * i \in Int /\ k * d \in Int
    OBVIOUS
  <2> QED BY <2>1, <2>2
<1>3. ~ (a \div k < b \div k)
  <2> SUFFICES ASSUME a \div k < b \div k PROVE FALSE
    OBVIOUS
  <2>1. a + k <= b
    BY <1>1, <1>2
  <2> QED BY <2>1
<1>4. ~ (b \div k < a \div k)
  <2> SUFFICES ASSUME b \div k < a \div k PROVE FALSE
    OBVIOUS
  <2>1. b + k <= a
    BY <1>1, <1>2
  <2> QED BY <2>1
<1> QED BY <1>1, <1>3, <1>4

LEMMA WindowSize ==
  ASSUME NEW a \in Nat, NEW k \in Nat \ {0}
  PROVE  IsFiniteSet(a .. a + k - 1) /\ Cardinality(a .. a + k - 1) = k
<1> DEFINE b == a + k - 1
<1>1. a \in Int /\ b \in Int /\ a <= b /\ b - a + 1 = k
  OBVIOUS
<1> HIDE DEF b
<1>2. IsFiniteSet(a .. b) /\ Cardinality(a .. b) = IF a > b THEN 0 ELSE b - a + 1
  BY <1>1, FS_Interval
<1>3. Cardinality(a .. b) = k
  BY <1>1, <1>2
<1> QED BY <1>2, <1>3 DEF b

LEMMA GroupsWell ==
  ASSUME NEW n, IsNetwork(n), NEW p, NEW c, c.lines \in Nat \ {0}, NEW G, G = LineGroups(n, p, c)
  PROVE  IsGrouping(G, Crossing(n, p), c.lines)
<1> DEFINE lines == Crossing(n, p)
           support == [v \in lines |-> Support(n, v, p)]
           bucket == [v \in lines |-> Bucket(lines, support, c.jaccard, v)]
           place == [v \in lines |-> Earlier(v, bucket[v], ById(lines))]
           heads == {v \in lines : place[v] % c.lines = 0}
           precedes(u, v) == IF bucket[u] = bucket[v] THEN u < v ELSE Min(bucket[u]) < Min(bucket[v])
           order == {e \in heads \X heads : precedes(e[1], e[2])}
           chunk(v) == {w \in bucket[v] : place[w] \in place[v] .. place[v] + c.lines - 1}
           heading == Listed(heads, order)
<1>1. lines \in SUBSET Nat /\ IsFiniteSet(lines)
  <2>1. lines \in SUBSET n.node
    BY DEF Crossing
  <2> HIDE DEF lines
  <2> QED BY <2>1, VerticesFinite, FS_Subset DEF Vertices
<1>2. G = [i \in 1 .. Cardinality(heads) |-> Listed(chunk(heading[i]), ById(chunk(heading[i])))]
  BY DEF LineGroups
<1> HIDE DEF lines
<1>3. \A v \in lines : v \in bucket[v] /\ bucket[v] \subseteq lines
  BY BucketHas
<1>4. \A v \in lines : \A w \in bucket[v] : bucket[w] = bucket[v]
  BY <1>3, BucketSame
<1> HIDE DEF bucket
<1>5. ASSUME NEW v \in lines
      PROVE  /\ place[v] \in Nat
             /\ \A w \in bucket[v] : place[w] = place[v] => w = v
  <2>1. bucket[v] \in SUBSET lines /\ IsFiniteSet(bucket[v])
    BY <1>1, <1>3, FS_Subset
  <2>2. Orders(ById(lines), bucket[v])
    BY <1>1, <2>1, ByIdOrders
  <2>3. \A w \in bucket[v] : place[w] = Earlier(w, bucket[v], ById(lines))
    BY <1>4, <2>1
  <2>4. place[v] \in 0 .. Cardinality(bucket[v]) - 1
    BY <1>3, <2>1, <2>2, <2>3, EarlierCounts
  <2>5. \A w \in bucket[v] : Earlier(w, bucket[v], ById(lines)) = Earlier(v, bucket[v], ById(lines)) => w = v
    BY <1>3, <2>1, <2>2, EarlierInjective
  <2> QED BY <1>3, <2>1, <2>3, <2>4, <2>5, FS_CardinalityType
<1> HIDE DEF place
<1>6. heads \in SUBSET lines /\ IsFiniteSet(heads) /\ \A v \in heads : place[v] % c.lines = 0
  BY <1>1, FS_Subset
<1> HIDE DEF heads
<1>7. Orders(order, heads)
  <2>1. \A u, v \in heads : <<u, v>> \in order <=> precedes(u, v)
    OBVIOUS
  <2>2. ASSUME NEW v \in heads
        PROVE  v \in Nat /\ Min(bucket[v]) \in Nat /\ Min(bucket[v]) \in bucket[v] /\ Min(bucket[v]) \in lines
    <3>1. bucket[v] \in SUBSET Nat /\ bucket[v] # {} /\ bucket[v] \subseteq lines /\ v \in Nat
      BY <1>1, <1>3, <1>6
    <3> QED BY <3>1, MinIn
  <2>3. \A u, v \in heads : Min(bucket[u]) = Min(bucket[v]) => bucket[u] = bucket[v]
    BY <1>4, <1>6, <2>2
  <2>4. \A v \in heads : ~ precedes(v, v)
    BY <2>2
  <2>5. \A u, v \in heads : u = v \/ precedes(u, v) \/ precedes(v, u)
    BY <2>2, <2>3
  <2>6. \A u, v, w \in heads : precedes(u, v) /\ precedes(v, w) => precedes(u, w)
    BY <2>2, <2>3
  <2> HIDE DEF order, precedes
  <2> QED BY <2>1, <2>4, <2>5, <2>6 DEF Orders
<1> HIDE DEF order
<1>8. /\ Cardinality(heads) \in Nat /\ heading \in Seq(heads) /\ Len(heading) = Cardinality(heads)
      /\ \A i, j \in DOMAIN heading : heading[i] = heading[j] => i = j
  BY <1>6, <1>7, ListedIs, FS_CardinalityType
<1> HIDE DEF heading
<1>9. ASSUME NEW v \in heads
      PROVE  /\ chunk(v) \in SUBSET lines /\ IsFiniteSet(chunk(v))
             /\ Cardinality(chunk(v)) \in 1 .. c.lines
             /\ Orders(ById(chunk(v)), chunk(v))
  <2>1. chunk(v) \in SUBSET lines /\ v \in chunk(v)
    BY <1>3, <1>5, <1>6
  <2>2. IsFiniteSet(chunk(v)) /\ Cardinality(chunk(v)) \in Nat /\ Cardinality(chunk(v)) # 0
    <3> HIDE DEF chunk
    <3> QED BY <1>1, <2>1, FS_Subset, FS_CardinalityType, FS_EmptySet
  <2>3. Cardinality(chunk(v)) <= c.lines
    <3> DEFINE I == place[v] .. place[v] + c.lines - 1
               f == [w \in chunk(v) |-> place[w]]
    <3>1. place[v] \in Nat
      BY <1>5, <1>6
    <3>2. \A w \in chunk(v) : place[w] \in I
      OBVIOUS
    <3>3. \A w, x \in chunk(v) : place[w] = place[x] => w = x
      BY <1>4, <1>5, <1>6, <2>1
    <3>4. IsFiniteSet(I) /\ Cardinality(I) = c.lines
      BY <3>1, WindowSize
    <3> HIDE DEF I, chunk
    <3>5. f \in Injection(chunk(v), I)
      BY <3>2, <3>3 DEF Injection, IsInjective
    <3> HIDE DEF f
    <3> QED BY <3>4, <3>5, FS_Injection
  <2>4. Orders(ById(chunk(v)), chunk(v))
    <3> HIDE DEF chunk
    <3> QED BY <1>1, <2>1, ByIdOrders
  <2> HIDE DEF chunk
  <2> QED BY <2>1, <2>2, <2>3, <2>4
<1>10. ASSUME NEW u \in heads, NEW v \in heads, NEW x \in chunk(u), x \in chunk(v)
       PROVE  u = v
  <2>1. x \in bucket[u] /\ x \in bucket[v] /\ u \in lines /\ v \in lines
    BY <1>6, <1>10
  <2>2. bucket[u] = bucket[v] /\ v \in bucket[u] /\ x \in lines
    BY <1>3, <1>4, <2>1
  <2>3. /\ place[u] \in Nat /\ place[v] \in Nat /\ place[x] \in Nat
        /\ place[u] % c.lines = 0 /\ place[v] % c.lines = 0
    BY <1>5, <1>6, <2>1, <2>2
  <2>4. place[x] \in place[u] .. place[u] + c.lines - 1 /\ place[x] \in place[v] .. place[v] + c.lines - 1
    BY <1>10
  <2>5. place[u] = place[v]
    BY <2>3, <2>4, WindowsApart
  <2> QED BY <1>5, <2>1, <2>2, <2>5
<1> HIDE DEF chunk
<1>11. ASSUME NEW i \in 1 .. Cardinality(heads)
       PROVE  /\ heading[i] \in heads
              /\ G[i] \in Seq(chunk(heading[i])) /\ Len(G[i]) \in 1 .. c.lines
              /\ \A j, l \in DOMAIN G[i] : G[i][j] = G[i][l] => j = l
  <2>1. heading[i] \in heads
    BY <1>8
  <2>2. G[i] = Listed(chunk(heading[i]), ById(chunk(heading[i])))
    BY <1>2
  <2> QED BY <1>9, <2>1, <2>2, ListedIs
<1>12. DOMAIN G = 1 .. Cardinality(heads)
  BY <1>2
<1>13. G \in Seq(Seq(lines))
  <2>1. \A i \in 1 .. Cardinality(heads) : G[i] \in Seq(lines)
    BY <1>9, <1>11
  <2>2. G = [i \in 1 .. Cardinality(heads) |-> G[i]]
    BY <1>2
  <2> QED BY <1>8, <2>1, <2>2
<1>14. ASSUME NEW i \in DOMAIN G, NEW k \in DOMAIN G, NEW j \in DOMAIN G[i], NEW l \in DOMAIN G[k],
              G[i][j] = G[k][l]
       PROVE  i = k /\ j = l
  <2>1. G[i][j] \in chunk(heading[i]) /\ G[k][l] \in chunk(heading[k])
    BY <1>11, <1>12
  <2>2. heading[i] = heading[k]
    BY <1>10, <1>11, <1>12, <1>14, <2>1
  <2>3. i = k
    BY <1>8, <1>12, <2>2
  <2> QED BY <1>11, <1>12, <1>14, <2>3
<1> QED BY <1>11, <1>12, <1>13, <1>14 DEF IsGrouping, lines


----------------------------------------------------------------------------
(* 2 ^ b counts the subsets of a set of b elements. *)
LEMMA PowerOfTwo ==
  ASSUME NEW b \in Nat
  PROVE  2 ^ b \in Nat /\ b <= 2 ^ b /\ (b = 0 => 2 ^ b = 1)
<1> DEFINE S == 1 .. b
           f == [x \in S |-> {x}]
<1>1. IsFiniteSet(S) /\ Cardinality(S) = b
  BY FS_Interval
<1>2. IsFiniteSet(SUBSET S) /\ Cardinality(SUBSET S) = 2 ^ b
  BY <1>1, FS_SUBSET
<1>3. f \in Injection(S, SUBSET S)
  <2>1. \A x \in S : {x} \in SUBSET S
    OBVIOUS
  <2>2. \A x, y \in S : {x} = {y} => x = y
    OBVIOUS
  <2> HIDE DEF S
  <2> QED BY <2>1, <2>2 DEF Injection, IsInjective
<1>4. b <= 2 ^ b
  <2> HIDE DEF S, f
  <2> QED BY <1>1, <1>2, <1>3, FS_Injection
<1>5. ASSUME b = 0 PROVE 2 ^ b = 1
  <2>1. SUBSET S = {{}}
    BY <1>5
  <2>2. Cardinality({{}}) = 1
    BY FS_Singleton
  <2> HIDE DEF S
  <2> QED BY <1>2, <2>1, <2>2
<1>6. 2 ^ b \in Nat
  <2> HIDE DEF S
  <2> QED BY <1>2, FS_CardinalityType
<1> QED BY <1>4, <1>5, <1>6

LEMMA WidthIs ==
  ASSUME NEW k \in Nat
  PROVE  /\ Width(k) \in Nat
         /\ \A b \in Nat : k <= 2 ^ b => Width(k) <= b
         /\ k <= 1 => Width(k) = 0
<1> DEFINE B == {b \in 0 .. k : 2 ^ b >= k}
<1>1. k \in B
  BY PowerOfTwo
<1>2. Width(k) \in B /\ \A b \in B : Width(k) <= b
  <2>1. B \in SUBSET Nat /\ Width(k) = Min(B)
    BY DEF Width
  <2> HIDE DEF B
  <2> QED BY <1>1, <2>1, MinIn
<1>3. ASSUME NEW b \in Nat, k <= 2 ^ b PROVE Width(k) <= b
  <2>1. CASE b <= k
    <3>1. 2 ^ b \in Nat
      BY PowerOfTwo
    <3>2. b \in B
      BY <1>3, <2>1, <3>1
    <3> QED BY <1>2, <3>2
  <2>2. CASE b > k
    BY <1>2, <2>2
  <2> QED BY <2>1, <2>2
<1>4. ASSUME k <= 1 PROVE Width(k) = 0
  <2>1. 2 ^ 0 = 1
    BY PowerOfTwo
  <2>2. Width(k) <= 0
    BY <1>3, <1>4, <2>1
  <2> QED BY <1>2, <2>2
<1> QED BY <1>2, <1>3, <1>4

----------------------------------------------------------------------------
(* What a codec is made of: distinct lines and a list of different tuples.  *)
IsCodec(n, g, T) ==
  /\ IsNetwork(n) /\ \A v \in Vertices(n) : n.part[v] \in {0, 1, NoPart}
  /\ g \in Seq(n.node) /\ \A i, j \in DOMAIN g : g[i] = g[j] => i = j
  /\ T \in Seq(SUBSET DOMAIN g) /\ \A i, j \in DOMAIN T : T[i] = T[j] => i = j

LEMMA NewIds ==
  ASSUME NEW n, NEW g, NEW T, IsCodec(n, g, T)
  PROVE  /\ Width(Len(T)) \in Nat /\ Len(g) \in Nat /\ DOMAIN g = 1 .. Len(g) /\ n.max \in Nat
         /\ \A v \in Encoders(n, T) : v \in n.max .. n.max + Width(Len(T)) - 1
         /\ \A v \in Decoders(n, g, T) :
              v \in n.max + Width(Len(T)) .. n.max + Width(Len(T)) + Len(g) - 1
         /\ \A v \in Vertices(n) : v \in Nat /\ v < n.max
         /\ \A b \in 1 .. Width(Len(T)) : EncoderId(n, b) \in Encoders(n, T)
         /\ \A j \in DOMAIN g : DecoderId(n, T, j) \in Decoders(n, g, T)
<1>1. Len(T) \in Nat /\ Len(g) \in Nat /\ DOMAIN g = 1 .. Len(g)
  BY DEF IsCodec
<1>2. Width(Len(T)) \in Nat
  BY <1>1, WidthIs
<1>3. n.max \in Nat /\ \A v \in Vertices(n) : v \in Nat /\ v < n.max
  BY DEF IsCodec, IsNetwork
<1> QED BY SMTT(30), <1>1, <1>2, <1>3 DEF Encoders, Decoders, EncoderId, DecoderId

IsCoded(m, n, g, T, q) ==
  LET r == Width(Len(T)) IN
  /\ m = [x \in Fields |-> m[x]]
  /\ m.max = n.max + r + Len(g) /\ m.pi = n.pi /\ m.po = n.po
  /\ m.node = n.node \cup Encoders(n, T) \cup Decoders(n, g, T)
  /\ DOMAIN m.fanin = m.node /\ DOMAIN m.truth = m.node
  /\ m.fanin = [v \in m.node |-> m.fanin[v]] /\ m.truth = [v \in m.node |-> m.truth[v]]
  /\ m.part = [v \in Vertices(m) |-> m.part[v]]
  /\ Vertices(m) = Vertices(n) \cup Encoders(n, T) \cup Decoders(n, g, T)
  /\ \A b \in 1 .. r :
       /\ m.fanin[EncoderId(n, b)] = g
       /\ m.truth[EncoderId(n, b)] = Encoder(T, b, r)
  /\ \A j \in DOMAIN g :
       /\ m.truth[DecoderId(n, T, j)] = Decoder(T, j, r)
       /\ m.fanin[DecoderId(n, T, j)] =
            IF Decoder(T, j, r) = {} THEN <<>> ELSE [b \in 1 .. r |-> EncoderId(n, b)]
  /\ \A v \in Encoders(n, T) \cup Decoders(n, g, T) : m.part[v] = NoPart
  /\ \A v \in Vertices(n) : m.part[v] = n.part[v]
  /\ \A v \in n.node : m.truth[v] = n.truth[v] /\ (n.part[v] # q => m.fanin[v] = n.fanin[v])
  /\ \A v \in n.node : n.part[v] = q =>
       /\ m.fanin[v] \in Seq(Vertices(m)) /\ DOMAIN m.fanin[v] = DOMAIN n.fanin[v]
       /\ \A i \in DOMAIN n.fanin[v] :
            \/ n.fanin[v][i] \notin ToSet(g) /\ m.fanin[v][i] = n.fanin[v][i]
            \/ \E j \in DOMAIN g : g[j] = n.fanin[v][i] /\ m.fanin[v][i] = DecoderId(n, T, j)

LEMMA CodedIs ==
  ASSUME NEW n, NEW g, NEW T, IsCodec(n, g, T), NEW q, NEW m, m = Coded(n, g, T, q)
  PROVE  IsCoded(m, n, g, T, q)
<1> DEFINE r == Width(Len(T))
           E == Encoders(n, T)
           D == Decoders(n, g, T)
           code(v) == v - EncoderId(n, 0)
           line(v) == v - DecoderId(n, T, 0)
           codes == [b \in 1 .. r |-> EncoderId(n, b)]
           reads(j) == IF Decoder(T, j, r) = {} THEN <<>> ELSE codes
           decoded(u) == IF u \in ToSet(g) THEN DecoderId(n, T, CHOOSE j \in DOMAIN g : g[j] = u) ELSE u
           kept(v) == IF n.part[v] = q THEN [i \in DOMAIN n.fanin[v] |-> decoded(n.fanin[v][i])]
                      ELSE n.fanin[v]
<1>0. /\ DOMAIN n = Fields /\ IsNetwork(n) /\ n.node \subseteq Vertices(n)
      /\ DOMAIN n.fanin = n.node /\ DOMAIN n.truth = n.node /\ DOMAIN n.part = Vertices(n)
  BY NetworkFields DEF IsCodec, Vertices
<1>1. m = [x \in Fields |-> m[x]]
  BY <1>0 DEF Coded
<1>2. m.max = n.max + r + Len(g) /\ m.pi = n.pi /\ m.po = n.po /\ m.node = n.node \cup E \cup D
  BY <1>0 DEF Coded, Fields
<1>3. m.fanin = [v \in n.node \cup E \cup D |->
           CASE v \in E -> g
             [] v \in D -> reads(line(v))
             [] v \in n.node -> kept(v)]
  BY <1>0 DEF Coded, Fields
<1>4. m.truth = [v \in n.node \cup E \cup D |->
           CASE v \in E -> Encoder(T, code(v), r)
             [] v \in D -> Decoder(T, line(v), r)
             [] v \in n.node -> n.truth[v]]
  BY <1>0 DEF Coded, Fields
<1>5. m.part = [v \in Vertices(n) \cup E \cup D |-> IF v \in E \cup D THEN NoPart ELSE n.part[v]]
  BY <1>0 DEF Coded, Fields
<1>6. Vertices(m) = Vertices(n) \cup E \cup D
  BY <1>2 DEF Vertices
<1>7. /\ \A v \in E : v \notin D /\ v \notin Vertices(n)
      /\ \A v \in D : v \notin E /\ v \notin Vertices(n)
      /\ \A v \in Vertices(n) : v \notin E /\ v \notin D
      /\ \A b \in 1 .. r : EncoderId(n, b) \in E /\ code(EncoderId(n, b)) = b
      /\ \A j \in DOMAIN g : DecoderId(n, T, j) \in D /\ line(DecoderId(n, T, j)) = j
  <2>1. /\ r \in Nat /\ Len(g) \in Nat /\ DOMAIN g = 1 .. Len(g) /\ n.max \in Nat
        /\ \A v \in E : v \in n.max .. n.max + r - 1
        /\ \A v \in D : v \in n.max + r .. n.max + r + Len(g) - 1
        /\ \A v \in Vertices(n) : v \in Nat /\ v < n.max
        /\ \A b \in 1 .. r : EncoderId(n, b) \in E
        /\ \A j \in DOMAIN g : DecoderId(n, T, j) \in D
    BY NewIds
  <2>2. /\ \A b \in 1 .. r : code(EncoderId(n, b)) = b
        /\ \A j \in DOMAIN g : line(DecoderId(n, T, j)) = j
    BY SMTT(30), <2>1 DEF EncoderId, DecoderId
  <2> HIDE DEF r, E, D, code, line
  <2> QED BY <2>1, <2>2
<1> HIDE DEF E, D, code, line, reads, kept
<1>8. ASSUME NEW b \in 1 .. r
      PROVE  /\ m.fanin[EncoderId(n, b)] = g
             /\ m.truth[EncoderId(n, b)] = Encoder(T, b, r)
  <2> DEFINE v == EncoderId(n, b)
  <2>1. v \in E /\ v \notin D /\ v \notin n.node /\ code(v) = b
    BY <1>0, <1>7
  <2> HIDE DEF v
  <2>2. m.fanin[v] = g
    BY <1>3, <2>1
  <2>3. m.truth[v] = Encoder(T, code(v), r)
    BY <1>4, <2>1
  <2> QED BY <2>1, <2>2, <2>3 DEF v
<1>9. ASSUME NEW j \in DOMAIN g
      PROVE  /\ m.truth[DecoderId(n, T, j)] = Decoder(T, j, r)
             /\ m.fanin[DecoderId(n, T, j)] = reads(j)
  <2> DEFINE v == DecoderId(n, T, j)
  <2>1. v \in D /\ v \notin E /\ v \notin n.node /\ line(v) = j
    BY <1>0, <1>7
  <2> HIDE DEF v
  <2>2. m.fanin[v] = reads(line(v))
    BY <1>3, <2>1
  <2>3. m.truth[v] = Decoder(T, line(v), r)
    BY <1>4, <2>1
  <2> QED BY <2>1, <2>2, <2>3 DEF v
<1>10. ASSUME NEW v \in n.node
       PROVE  /\ m.truth[v] = n.truth[v]
              /\ n.part[v] # q => m.fanin[v] = n.fanin[v]
              /\ n.part[v] = q => m.fanin[v] = [i \in DOMAIN n.fanin[v] |-> decoded(n.fanin[v][i])]
  <2>1. v \notin E /\ v \notin D
    BY <1>0, <1>7
  <2>2. m.truth[v] = n.truth[v] /\ m.fanin[v] = kept(v)
    BY <1>3, <1>4, <2>1
  <2> HIDE DEF decoded
  <2> QED BY <2>2 DEF kept
<1>11. ASSUME NEW v \in n.node, n.part[v] = q
       PROVE  /\ m.fanin[v] \in Seq(Vertices(m)) /\ DOMAIN m.fanin[v] = DOMAIN n.fanin[v]
              /\ \A i \in DOMAIN n.fanin[v] :
                   \/ n.fanin[v][i] \notin ToSet(g) /\ m.fanin[v][i] = n.fanin[v][i]
                   \/ \E j \in DOMAIN g : g[j] = n.fanin[v][i] /\ m.fanin[v][i] = DecoderId(n, T, j)
  <2>1. n.fanin[v] \in Seq(Vertices(n))
    BY <1>0 DEF IsNetwork
  <2>2. m.fanin[v] = [i \in DOMAIN n.fanin[v] |-> decoded(n.fanin[v][i])]
    BY <1>10, <1>11
  <2>3. \A i \in DOMAIN n.fanin[v] : n.fanin[v][i] \in Vertices(n)
    BY <2>1
  <2>4. ASSUME NEW u \in Vertices(n)
        PROVE  /\ decoded(u) \in Vertices(m)
               /\ \/ u \notin ToSet(g) /\ decoded(u) = u
                  \/ \E j \in DOMAIN g : g[j] = u /\ decoded(u) = DecoderId(n, T, j)
    <3>1. CASE u \notin ToSet(g)
      BY <1>6, <3>1
    <3>2. CASE u \in ToSet(g)
      <4> DEFINE j == CHOOSE j \in DOMAIN g : g[j] = u
      <4>1. j \in DOMAIN g /\ g[j] = u
        BY <3>2 DEF ToSet
      <4>2. decoded(u) = DecoderId(n, T, j)
        BY <3>2
      <4> HIDE DEF j, decoded
      <4> QED BY <1>6, <1>7, <4>1, <4>2
    <3> QED BY <3>1, <3>2
  <2> DEFINE f == n.fanin[v]
             h == m.fanin[v]
  <2> HIDE DEF decoded
  <2>5. \A i \in DOMAIN f : f[i] \in Vertices(n) /\ h[i] = decoded(f[i])
    BY <2>2, <2>3
  <2>6. DOMAIN f = 1 .. Len(f) /\ Len(f) \in Nat /\ h = [i \in 1 .. Len(f) |-> h[i]]
    BY <2>1, <2>2
  <2> HIDE DEF f, h
  <2>7. \A i \in DOMAIN f :
          /\ h[i] \in Vertices(m)
          /\ \/ f[i] \notin ToSet(g) /\ h[i] = f[i]
             \/ \E j \in DOMAIN g : g[j] = f[i] /\ h[i] = DecoderId(n, T, j)
    <3> SUFFICES ASSUME NEW i \in DOMAIN f
                 PROVE  /\ h[i] \in Vertices(m)
                        /\ \/ f[i] \notin ToSet(g) /\ h[i] = f[i]
                           \/ \E j \in DOMAIN g : g[j] = f[i] /\ h[i] = DecoderId(n, T, j)
      OBVIOUS
    <3>1. f[i] \in Vertices(n) /\ h[i] = decoded(f[i])
      BY <2>5
    <3> QED BY <2>4, <3>1
  <2>8. h \in Seq(Vertices(m)) /\ DOMAIN h = DOMAIN f
    BY <2>6, <2>7
  <2> QED BY <2>7, <2>8 DEF f, h
<1>12. /\ \A v \in E \cup D : m.part[v] = NoPart
       /\ \A v \in Vertices(n) : m.part[v] = n.part[v]
  BY <1>5, <1>7
<1>13. /\ DOMAIN m.fanin = m.node /\ DOMAIN m.truth = m.node
       /\ m.fanin = [v \in m.node |-> m.fanin[v]] /\ m.truth = [v \in m.node |-> m.truth[v]]
       /\ m.part = [v \in Vertices(m) |-> m.part[v]]
  <2> QED BY <1>2, <1>3, <1>4, <1>5, <1>6
<1> HIDE DEF decoded
<1> QED
  BY <1>1, <1>2, <1>6, <1>8, <1>9, <1>10, <1>11, <1>12, <1>13 DEF IsCoded, E, D, reads

IsBipart(n) == IsNetwork(n) /\ \A v \in Vertices(n) : n.part[v] \in {0, 1, NoPart}

(* With the new nodes it is still a network of two parts. *)
LEMMA CodedNetwork ==
  ASSUME NEW n, NEW g, NEW T, IsCodec(n, g, T), NEW q, NEW m, IsCoded(m, n, g, T, q)
  PROVE  IsBipart(m)
<1> DEFINE r == Width(Len(T))
           E == Encoders(n, T)
           D == Decoders(n, g, T)
<1>1. /\ r \in Nat /\ Len(g) \in Nat /\ DOMAIN g = 1 .. Len(g) /\ n.max \in Nat
      /\ \A v \in E : v \in n.max .. n.max + r - 1
      /\ \A v \in D : v \in n.max + r .. n.max + r + Len(g) - 1
      /\ \A v \in Vertices(n) : v \in Nat /\ v < n.max
      /\ \A b \in 1 .. r : EncoderId(n, b) \in E
      /\ \A j \in DOMAIN g : DecoderId(n, T, j) \in D
  BY NewIds
<1>2. /\ \A v \in E : \E b \in 1 .. r : v = EncoderId(n, b)
      /\ \A v \in D : \E j \in DOMAIN g : v = DecoderId(n, T, j)
  BY DEF Encoders, Decoders
<1>3. /\ IsNetwork(n) /\ \A v \in Vertices(n) : n.part[v] \in {0, 1, NoPart}
      /\ g \in Seq(n.node) /\ T \in Seq(SUBSET DOMAIN g)
  BY DEF IsCodec
<1>4. /\ n.pi \cap n.node = {} /\ n.pi \subseteq Vertices(n) /\ n.node \subseteq Vertices(n)
      /\ \A v \in n.node : n.fanin[v] \in Seq(Vertices(n))
      /\ \A v \in n.node : n.truth[v] \subseteq SUBSET DOMAIN n.fanin[v]
      /\ n.po \in Seq(Vertices(n))
  BY <1>3 DEF IsNetwork, Vertices
<1>5. /\ m = [x \in Fields |-> m[x]]
      /\ m.max = n.max + r + Len(g) /\ m.pi = n.pi /\ m.po = n.po
      /\ m.node = n.node \cup E \cup D
      /\ m.fanin = [v \in m.node |-> m.fanin[v]] /\ m.truth = [v \in m.node |-> m.truth[v]]
      /\ m.part = [v \in Vertices(m) |-> m.part[v]]
      /\ Vertices(m) = Vertices(n) \cup E \cup D
      /\ \A v \in E \cup D : m.part[v] = NoPart
      /\ \A v \in Vertices(n) : m.part[v] = n.part[v]
  BY DEF IsCoded
<1>6. /\ \A b \in 1 .. r :
           /\ m.fanin[EncoderId(n, b)] = g
           /\ m.truth[EncoderId(n, b)] = Encoder(T, b, r)
      /\ \A j \in DOMAIN g :
           /\ m.truth[DecoderId(n, T, j)] = Decoder(T, j, r)
           /\ m.fanin[DecoderId(n, T, j)] =
                IF Decoder(T, j, r) = {} THEN <<>> ELSE [b \in 1 .. r |-> EncoderId(n, b)]
  BY DEF IsCoded
<1>7. /\ \A v \in n.node : m.truth[v] = n.truth[v] /\ (n.part[v] # q => m.fanin[v] = n.fanin[v])
      /\ \A v \in n.node : n.part[v] = q =>
           m.fanin[v] \in Seq(Vertices(m)) /\ DOMAIN m.fanin[v] = DOMAIN n.fanin[v]
  BY DEF IsCoded
<1> HIDE DEF r, E, D
<1>8. \A v \in Vertices(m) : v \in 0 .. m.max - 1
  BY SMTT(30), <1>1, <1>5
<1>9. m.pi \cap m.node = {} /\ m.max \in Nat
  <2>1. \A v \in E \cup D : v \notin Vertices(n)
    BY <1>1
  <2>2. m.pi \cap m.node = {}
    BY <1>4, <1>5, <2>1
  <2>3. m.max \in Nat
    BY <1>1, <1>5
  <2> QED BY <2>2, <2>3
<1>10. ASSUME NEW s \in Seq(Vertices(n)) PROVE s \in Seq(Vertices(m))
  BY <1>5
<1>11. ASSUME NEW v \in n.node
       PROVE  m.fanin[v] \in Seq(Vertices(m)) /\ m.truth[v] \subseteq SUBSET DOMAIN m.fanin[v]
  BY <1>4, <1>7, <1>10
<1>12. ASSUME NEW v \in E
       PROVE  m.fanin[v] \in Seq(Vertices(m)) /\ m.truth[v] \subseteq SUBSET DOMAIN m.fanin[v]
  <2>1. PICK b \in 1 .. r : v = EncoderId(n, b)
    BY <1>2
  <2>2. m.fanin[v] = g /\ m.truth[v] = Encoder(T, b, r)
    BY <1>6, <2>1
  <2>3. g \in Seq(Vertices(n))
    BY <1>3, <1>4
  <2>4. Encoder(T, b, r) \subseteq SUBSET DOMAIN g
    BY <1>3 DEF Encoder
  <2> QED BY <1>10, <2>2, <2>3, <2>4
<1>13. ASSUME NEW v \in D
       PROVE  m.fanin[v] \in Seq(Vertices(m)) /\ m.truth[v] \subseteq SUBSET DOMAIN m.fanin[v]
  <2> DEFINE codes == [b \in 1 .. r |-> EncoderId(n, b)]
  <2>1. PICK j \in DOMAIN g : v = DecoderId(n, T, j)
    BY <1>2
  <2>2. /\ m.truth[v] = Decoder(T, j, r)
        /\ m.fanin[v] = IF Decoder(T, j, r) = {} THEN <<>> ELSE codes
    BY <1>6, <2>1
  <2>3. Decoder(T, j, r) \subseteq SUBSET (1 .. r)
    BY DEF Decoder, Code
  <2>4. codes \in Seq(Vertices(m)) /\ DOMAIN codes = 1 .. r
    <3>1. \A b \in 1 .. r : EncoderId(n, b) \in Vertices(m)
      BY <1>1, <1>5
    <3> QED BY <1>1, <3>1
  <2> HIDE DEF codes
  <2>5. CASE Decoder(T, j, r) = {}
    BY <2>2, <2>5
  <2>6. CASE Decoder(T, j, r) # {}
    BY <2>2, <2>3, <2>4, <2>6
  <2> QED BY <2>5, <2>6
<1>14. \A v \in m.node : m.fanin[v] \in Seq(Vertices(m)) /\ m.truth[v] \subseteq SUBSET DOMAIN m.fanin[v]
  BY <1>5, <1>11, <1>12, <1>13
<1>15. m.fanin \in [m.node -> Seq(Vertices(m))]
  BY <1>5, <1>14
<1>16. m.truth = [v \in m.node |-> m.truth[v] \cap SUBSET DOMAIN m.fanin[v]]
  <2>1. \A v \in m.node : m.truth[v] = m.truth[v] \cap SUBSET DOMAIN m.fanin[v]
    BY <1>14
  <2> QED BY <1>5, <2>1
<1>17. \A v \in Vertices(m) : m.part[v] \in {0, 1, NoPart}
  BY <1>3, <1>5
<1>18. m.part \in [Vertices(m) -> Nat \cup {NoPart}]
  <2>1. \A v \in Vertices(m) : m.part[v] \in Nat \cup {NoPart}
    BY <1>17
  <2> QED BY <1>5, <2>1
<1>19. m.po \in Seq(Vertices(m))
  BY <1>4, <1>5, <1>10
<1>20. m = [ max |-> m.max, pi |-> m.pi, node |-> m.node, fanin |-> m.fanin,
             truth |-> m.truth, part |-> m.part, po |-> m.po ]
  BY <1>5, AsRecord
<1>21. IsNetwork(m)
  BY <1>8, <1>9, <1>15, <1>16, <1>18, <1>19, <1>20 DEF IsNetwork
<1> QED BY <1>17, <1>21 DEF IsBipart

----------------------------------------------------------------------------
(* A codec that is accepted: the encoders are in the one part, the decoders *)
(* in the other.                                                            *)
IsTagged(k, m, n, g, T, p, q) ==
  /\ IsBipart(k) /\ k.pi = m.pi /\ k.node = m.node /\ k.fanin = m.fanin
  /\ k.truth = m.truth /\ k.po = m.po
  /\ \A v \in Encoders(n, T) : k.part[v] = p
  /\ \A v \in Decoders(n, g, T) : k.part[v] = q
  /\ \A v \in Vertices(n) : k.part[v] = n.part[v]

LEMMA TaggedIs ==
  ASSUME NEW n, NEW g, NEW T, IsCodec(n, g, T), NEW p \in {0, 1}, NEW q \in {0, 1},
         NEW m, IsCoded(m, n, g, T, q), NEW k, k = Tagged(m, n, g, T, p, q)
  PROVE  IsTagged(k, m, n, g, T, p, q)
<1> DEFINE E == Encoders(n, T)
           D == Decoders(n, g, T)
           part == [v \in DOMAIN m.part |-> IF v \in E THEN p ELSE IF v \in D THEN q ELSE m.part[v]]
<1>1. IsBipart(m)
  BY CodedNetwork
<1>2. DOMAIN m = Fields /\ DOMAIN m.part = Vertices(m)
  BY <1>1, NetworkFields DEF IsBipart
<1>3. k = [m EXCEPT !.part = part]
  BY <1>2 DEF Tagged, Fields
<1>4. /\ \A v \in E : v \notin D /\ v \notin Vertices(n)
      /\ \A v \in D : v \notin E /\ v \notin Vertices(n)
  BY NewIds
<1>5. /\ Vertices(m) = Vertices(n) \cup E \cup D
      /\ \A v \in Vertices(n) : m.part[v] = n.part[v]
  BY DEF IsCoded
<1>6. /\ \A v \in E : part[v] = p
      /\ \A v \in D : part[v] = q
      /\ \A v \in Vertices(n) : part[v] = n.part[v]
  BY <1>2, <1>4, <1>5
<1>7. \A v \in Vertices(m) : part[v] \in {0, 1, NoPart}
  BY <1>5, <1>6 DEF IsCodec
<1>8. part \in [Vertices(m) -> Nat \cup {NoPart}]
  BY <1>2, <1>7
<1> HIDE DEF part, E, D
<1>9. /\ IsNetwork(k) /\ k.part = part /\ k.pi = m.pi /\ k.node = m.node /\ k.fanin = m.fanin
      /\ k.truth = m.truth /\ k.po = m.po
  BY <1>1, <1>3, <1>8, RepartNetwork DEF IsBipart
<1>10. \A v \in Vertices(k) : k.part[v] \in {0, 1, NoPart}
  BY <1>7, <1>9 DEF Vertices
<1> QED
  BY <1>6, <1>9, <1>10 DEF IsTagged, IsBipart, E, D

(* A codec that is rolled back leaves nothing but numbers that are not used *)
(* again.                                                                   *)
LEMMA RepointedAt ==
  ASSUME NEW n, NEW g, NEW T, IsCodec(n, g, T), NEW q, NEW m, IsCoded(m, n, g, T, q),
         NEW k, k = Repointed(m, n, g, T)
  PROVE  /\ k = [x \in Fields |-> k[x]]
         /\ k.max = m.max /\ k.pi = m.pi /\ k.node = m.node /\ k.truth = m.truth
         /\ k.part = m.part /\ k.po = m.po
         /\ \A v \in n.node : k.fanin[v] = n.fanin[v]
<1> DEFINE D == Decoders(n, g, T)
           line(u) == IF u \in D THEN g[u - DecoderId(n, T, 0)] ELSE u
<1>1. IsNetwork(m) /\ DOMAIN m = Fields
  BY CodedNetwork, NetworkFields DEF IsBipart
<1>2. k = [x \in Fields |-> k[x]]
  BY <1>1 DEF Repointed
<1>3. /\ k.max = m.max /\ k.pi = m.pi /\ k.node = m.node /\ k.truth = m.truth
      /\ k.part = m.part /\ k.po = m.po
      /\ k.fanin = [v \in m.node |-> [i \in DOMAIN m.fanin[v] |-> line(m.fanin[v][i])]]
  BY <1>1 DEF Repointed, Fields
<1>4. /\ \A v \in Vertices(n) : line(v) = v
      /\ \A j \in DOMAIN g : line(DecoderId(n, T, j)) = g[j]
  <2>1. /\ Width(Len(T)) \in Nat /\ Len(g) \in Nat /\ DOMAIN g = 1 .. Len(g) /\ n.max \in Nat
        /\ \A v \in D : v \in n.max + Width(Len(T)) .. n.max + Width(Len(T)) + Len(g) - 1
        /\ \A v \in Vertices(n) : v \in Nat /\ v < n.max
        /\ \A j \in DOMAIN g : DecoderId(n, T, j) \in D
    BY NewIds
  <2> DEFINE w == Width(Len(T))
  <2> HIDE DEF D, w
  <2>2. \A v \in Vertices(n) : v \notin D
    <3>1. \A v \in D : v >= n.max
      BY <2>1 DEF w
    <3> QED BY <2>1, <3>1
  <2>3. \A j \in DOMAIN g : DecoderId(n, T, j) - DecoderId(n, T, 0) = j
    <3>1. w \in Nat /\ \A j \in Nat : DecoderId(n, T, j) = n.max + w + j - 1
      BY <2>1 DEF DecoderId, w
    <3>2. \A j \in DOMAIN g : j \in Nat
      BY <2>1
    <3>3. PICK a \in Int : \A j \in Nat : DecoderId(n, T, j) = a + j
      <4> DEFINE start == n.max
      <4>1. start \in Nat /\ \A j \in Nat : DecoderId(n, T, j) = start + w + j - 1
        BY <2>1, <3>1
      <4> HIDE DEF start
      <4>2. start + w - 1 \in Int /\ \A j \in Nat : DecoderId(n, T, j) = (start + w - 1) + j
        BY <3>1, <4>1
      <4> QED BY <4>2
    <3>4. 0 \in Nat /\ DecoderId(n, T, 0) = a
      BY <3>3
    <3>5. \A j \in Nat : DecoderId(n, T, j) - DecoderId(n, T, 0) = j
      BY <3>3, <3>4
    <3> QED BY <3>2, <3>5
  <2> QED BY <2>1, <2>2, <2>3
<1>5. ASSUME NEW v \in n.node
      PROVE  k.fanin[v] = n.fanin[v]
  <2> DEFINE f == n.fanin[v]
             h == m.fanin[v]
  <2>1. f \in Seq(Vertices(n)) /\ v \in m.node
    BY DEF IsCodec, IsNetwork, IsCoded
  <2>2. k.fanin[v] = [i \in DOMAIN h |-> line(h[i])]
    BY <1>3, <2>1
  <2>3. DOMAIN h = DOMAIN f /\ \A i \in DOMAIN f : h[i] = f[i] \/ \E j \in DOMAIN g : g[j] = f[i] /\ h[i] = DecoderId(n, T, j)
    <3>1. CASE n.part[v] = q
      BY <3>1 DEF IsCoded
    <3>2. CASE n.part[v] # q
      BY <3>2 DEF IsCoded
    <3> QED BY <3>1, <3>2
  <2>4. \A i \in DOMAIN f : f[i] \in Vertices(n)
    BY <2>1
  <2>5. f = [i \in DOMAIN f |-> f[i]]
    BY <2>1
  <2> HIDE DEF f, h, line
  <2>6. \A i \in DOMAIN f : line(h[i]) = f[i]
    BY <1>4, <2>3, <2>4
  <2>7. [i \in DOMAIN h |-> line(h[i])] = f
    BY <2>3, <2>5, <2>6
  <2> QED BY <2>2, <2>7 DEF f
<1> QED BY <1>2, <1>3, <1>5

LEMMA RolledBackIs ==
  ASSUME NEW n, NEW g, NEW T, IsCodec(n, g, T), NEW q, NEW m, IsCoded(m, n, g, T, q),
         NEW k, k = RolledBack(m, n, g, T)
  PROVE  k = [n EXCEPT !.max = m.max] /\ m.max \in Nat /\ m.max >= n.max
<1> DEFINE N == Encoders(n, T) \cup Decoders(n, g, T)
           h == Repointed(m, n, g, T)
           V == h.node \ N
           e == [n EXCEPT !.max = m.max]
<1>1. /\ h = [x \in Fields |-> h[x]]
      /\ h.max = m.max /\ h.pi = m.pi /\ h.node = m.node /\ h.truth = m.truth
      /\ h.part = m.part /\ h.po = m.po
      /\ \A v \in n.node : h.fanin[v] = n.fanin[v]
  BY RepointedAt
<1>2. k = Without(h, N)
  BY DEF RolledBack
<1> HIDE DEF h
<1>3. DOMAIN h = Fields
  BY <1>1
<1>4. k = [x \in Fields |-> k[x]]
  BY <1>2, <1>3 DEF Without
<1>5. /\ k.max = h.max /\ k.pi = h.pi /\ k.node = V /\ k.po = h.po
      /\ k.fanin = [v \in V |-> h.fanin[v]] /\ k.truth = [v \in V |-> h.truth[v]]
      /\ k.part = [v \in h.pi \cup V |-> h.part[v]]
  BY <1>2, <1>3 DEF Without, Fields
<1>6. V = n.node
  <2>1. \A v \in N : v \notin Vertices(n)
    BY NewIds
  <2>2. m.node = n.node \cup N
    BY DEF IsCoded
  <2> HIDE DEF N
  <2> QED BY <1>1, <2>1, <2>2 DEF Vertices
<1> HIDE DEF V, N
<1>7. /\ n = [x \in Fields |-> n[x]] /\ DOMAIN n = Fields
      /\ n.fanin = [v \in n.node |-> n.fanin[v]] /\ n.truth = [v \in n.node |-> n.truth[v]]
      /\ n.part = [v \in Vertices(n) |-> n.part[v]]
  BY NetworkFields DEF IsCodec, IsNetwork
<1>8. /\ m.pi = n.pi /\ m.po = n.po
      /\ \A v \in Vertices(n) : m.part[v] = n.part[v]
      /\ \A v \in n.node : m.truth[v] = n.truth[v]
  BY DEF IsCoded
<1>9. k.fanin = n.fanin
  BY <1>1, <1>5, <1>6, <1>7
<1>10. k.truth = n.truth
  <2>1. \A v \in n.node : h.truth[v] = n.truth[v]
    BY <1>1, <1>8
  <2>2. k.truth = [v \in n.node |-> h.truth[v]]
    BY <1>5, <1>6
  <2> QED BY <1>7, <2>1, <2>2
<1>11. k.part = n.part
  BY SMTT(30), <1>1, <1>5, <1>6, <1>7, <1>8 DEF Vertices
<1>12. e = [x \in Fields |-> e[x]]
  BY <1>7
<1>13. /\ e.max = m.max /\ e.pi = n.pi /\ e.node = n.node /\ e.fanin = n.fanin
       /\ e.truth = n.truth /\ e.part = n.part /\ e.po = n.po
  BY <1>7 DEF Fields
<1> HIDE DEF e
<1>14. k = e
  BY <1>1, <1>4, <1>5, <1>6, <1>8, <1>9, <1>10, <1>11, <1>12, <1>13, SameFields
<1>15. m.max \in Nat /\ m.max >= n.max
  <2>1. Width(Len(T)) \in Nat /\ Len(g) \in Nat /\ n.max \in Nat
    BY NewIds
  <2>2. m.max = n.max + Width(Len(T)) + Len(g)
    BY DEF IsCoded
  <2> DEFINE w == Width(Len(T))
             l == Len(g)
  <2>3. w \in Nat /\ l \in Nat /\ m.max = n.max + w + l
    BY <2>1, <2>2
  <2> HIDE DEF w, l
  <2> QED BY <2>1, <2>3
<1> QED BY <1>14, <1>15 DEF e

(* A later next number, and nothing else *)
LEMMA LaterBipart ==
  ASSUME NEW n, IsBipart(n), NEW k \in Nat, k >= n.max, NEW m, m = [n EXCEPT !.max = k]
  PROVE  IsBipart(m) /\ Circuit(m) = Circuit(n)
<1>1. IsNetwork(n)
  BY DEF IsBipart
<1>2. IsNetwork(m) /\ m.part = n.part /\ m.pi = n.pi /\ m.node = n.node
  BY <1>1, LaterNetwork
<1>3. Circuit(m) = Circuit(n)
  BY <1>1, LaterSame, SameCircuit
<1> QED
  BY <1>2, <1>3 DEF IsBipart, Vertices

(* What does not depend on the next number *)
LEMMA CircuitSame ==
  ASSUME NEW n, IsNetwork(n), NEW m, IsNetwork(m), Circuit(m) = Circuit(n)
  PROVE  /\ \A p : Crossing(m, p) = Crossing(n, p)
         /\ Lines(m) = Lines(n) /\ CutNets(m) = CutNets(n)
<1>1. DOMAIN n = Fields /\ DOMAIN m = Fields
  BY NetworkFields
<1>2. \A x \in Fields \ {"max"} : m[x] = Circuit(m)[x] /\ n[x] = Circuit(n)[x]
  BY <1>1 DEF Circuit
<1>3. m.pi = n.pi /\ m.node = n.node /\ m.fanin = n.fanin /\ m.part = n.part
  BY <1>2 DEF Fields
<1>4. \A p : Crossing(m, p) = Crossing(n, p)
  BY <1>3 DEF Crossing, Fanouts, Fanins
<1>5. CutNets(m) = CutNets(n)
  BY <1>3 DEF CutNets, CutDrivers, CutSlots, Slots, Driver, Crosses
<1> QED BY <1>4, <1>5 DEF Lines

(* What the nodes read once a codec is in place *)
LEMMA CodedFanins ==
  ASSUME NEW n, NEW g, NEW T, IsCodec(n, g, T), NEW q, NEW m, IsCoded(m, n, g, T, q)
  PROVE  /\ \A w \in n.node : n.part[w] # q => Fanins(m, w) = Fanins(n, w)
         /\ \A w \in n.node : n.part[w] = q =>
              /\ Fanins(m, w) \cap Encoders(n, T) = {}
              /\ \A u \in Vertices(n) : u \in Fanins(m, w) <=> u \in Fanins(n, w) /\ u \notin ToSet(g)
         /\ \A w \in Encoders(n, T) : Fanins(m, w) = ToSet(g)
         /\ \A w \in Decoders(n, g, T) : Fanins(m, w) \subseteq Encoders(n, T)
         /\ Encoders(n, T) # {} => \E w \in Decoders(n, g, T) : Fanins(m, w) = Encoders(n, T)
<1> DEFINE r == Width(Len(T))
           E == Encoders(n, T)
           D == Decoders(n, g, T)
           codes == [b \in 1 .. r |-> EncoderId(n, b)]
<1>1. /\ r \in Nat /\ Len(g) \in Nat /\ DOMAIN g = 1 .. Len(g) /\ n.max \in Nat
      /\ \A v \in E : v \in n.max .. n.max + r - 1
      /\ \A v \in D : v \in n.max + r .. n.max + r + Len(g) - 1
      /\ \A v \in Vertices(n) : v \in Nat /\ v < n.max
      /\ \A b \in 1 .. r : EncoderId(n, b) \in E
      /\ \A j \in DOMAIN g : DecoderId(n, T, j) \in D
  BY NewIds
<1>2. /\ \A v \in E : v \notin D /\ v \notin Vertices(n)
      /\ \A v \in D : v \notin E /\ v \notin Vertices(n)
  BY <1>1
<1>3. /\ \A v \in E : \E b \in 1 .. r : v = EncoderId(n, b)
      /\ \A v \in D : \E j \in DOMAIN g : v = DecoderId(n, T, j)
  BY DEF Encoders, Decoders
<1>4. ToSet(codes) = E
  BY <1>1, <1>3 DEF ToSet
<1>5. m.node = n.node \cup E \cup D
  BY DEF IsCoded
<1> HIDE DEF codes, E, D, r
<1>6. ASSUME NEW w \in n.node, n.part[w] # q PROVE Fanins(m, w) = Fanins(n, w)
  <2>1. m.fanin[w] = n.fanin[w]
    BY <1>6 DEF IsCoded
  <2> QED BY <1>5, <2>1 DEF Fanins
<1>7. ASSUME NEW w \in n.node, n.part[w] = q
      PROVE  /\ Fanins(m, w) \cap E = {}
             /\ \A u \in Vertices(n) : u \in Fanins(m, w) <=> u \in Fanins(n, w) /\ u \notin ToSet(g)
  <2> DEFINE f == n.fanin[w]
             h == m.fanin[w]
  <2>1. f \in Seq(Vertices(n))
    BY DEF IsCodec, IsNetwork
  <2>2. /\ DOMAIN h = DOMAIN f
        /\ \A i \in DOMAIN f :
             \/ f[i] \notin ToSet(g) /\ h[i] = f[i]
             \/ \E j \in DOMAIN g : g[j] = f[i] /\ h[i] = DecoderId(n, T, j)
    BY <1>7 DEF IsCoded
  <2>3. \A i \in DOMAIN f : f[i] \in Vertices(n)
    BY <2>1
  <2>4. Fanins(n, w) = {f[i] : i \in DOMAIN f} /\ Fanins(m, w) = {h[i] : i \in DOMAIN f}
    BY <1>5, <2>2 DEF Fanins, ToSet
  <2> HIDE DEF f, h
  <2>5. \A i \in DOMAIN f :
             \/ f[i] \notin ToSet(g) /\ h[i] = f[i]
             \/ f[i] \in ToSet(g) /\ h[i] \in D
    <3> SUFFICES ASSUME NEW i \in DOMAIN f
                 PROVE  \/ f[i] \notin ToSet(g) /\ h[i] = f[i]
                        \/ f[i] \in ToSet(g) /\ h[i] \in D
      OBVIOUS
    <3>1. CASE f[i] \notin ToSet(g) /\ h[i] = f[i]
      BY <3>1
    <3>2. ASSUME NEW j \in DOMAIN g, g[j] = f[i], h[i] = DecoderId(n, T, j)
          PROVE  f[i] \in ToSet(g) /\ h[i] \in D
      BY <1>1, <3>2 DEF ToSet
    <3> QED BY <2>2, <3>1, <3>2
  <2>6. Fanins(m, w) \cap E = {}
    BY <1>2, <2>3, <2>4, <2>5
  <2>7. ASSUME NEW u \in Vertices(n)
        PROVE  u \in Fanins(m, w) <=> u \in Fanins(n, w) /\ u \notin ToSet(g)
    BY <1>2, <2>4, <2>5
  <2> QED BY <2>6, <2>7
<1>8. ASSUME NEW w \in E PROVE Fanins(m, w) = ToSet(g)
  <2>1. PICK b \in 1 .. r : w = EncoderId(n, b)
    BY <1>3
  <2>2. m.fanin[w] = g
    BY <2>1 DEF IsCoded, r
  <2> QED BY <1>5, <2>2 DEF Fanins
<1>9. ASSUME NEW j \in DOMAIN g
      PROVE  Fanins(m, DecoderId(n, T, j)) = IF Decoder(T, j, r) = {} THEN {} ELSE E
  <2> DEFINE w == DecoderId(n, T, j)
  <2>1. w \in m.node
    BY <1>1, <1>5
  <2>2. m.fanin[w] = IF Decoder(T, j, r) = {} THEN <<>> ELSE codes
    BY DEF IsCoded, codes, r
  <2> HIDE DEF w
  <2>3. Fanins(m, w) = ToSet(m.fanin[w])
    BY <2>1 DEF Fanins
  <2>4. CASE Decoder(T, j, r) = {}
    BY <2>2, <2>3, <2>4 DEF ToSet, w
  <2>5. CASE Decoder(T, j, r) # {}
    BY <1>4, <2>2, <2>3, <2>5 DEF w
  <2> QED BY <2>4, <2>5
<1>10. \A w \in D : Fanins(m, w) \subseteq E
  BY <1>3, <1>9
<1>11. ASSUME E # {} PROVE \E w \in D : Fanins(m, w) = E
  <2>1. T \in Seq(SUBSET DOMAIN g) /\ \A i, j \in DOMAIN T : T[i] = T[j] => i = j
    BY DEF IsCodec
  <2>2. Len(T) > 1
    <3>1. r # 0
      BY <1>1, <1>11
    <3>2. Len(T) \in Nat
      BY <2>1
    <3> QED BY <3>1, <3>2, WidthIs DEF r
  <2>3. 1 \in DOMAIN T /\ 2 \in DOMAIN T
    BY <2>1, <2>2
  <2>4. PICK i \in DOMAIN T : T[i] # {}
    <3>1. T[1] # T[2]
      BY <2>1, <2>3
    <3>2. CASE T[1] # {}
      BY <2>3, <3>2
    <3>3. CASE T[2] # {}
      BY <2>3, <3>3
    <3> QED BY <3>1, <3>2, <3>3
  <2>5. PICK j \in DOMAIN g : j \in T[i]
    BY <2>1, <2>4
  <2>6. Code(i, r) \in Decoder(T, j, r)
    BY <2>5 DEF Decoder
  <2>7. Fanins(m, DecoderId(n, T, j)) = E
    BY <1>9, <2>6
  <2> QED BY <1>1, <2>7
<1> QED BY <1>6, <1>7, <1>8, <1>10, <1>11 DEF E, D

(* The codes take the place of the lines, and nothing comes to cross the    *)
(* other way.                                                               *)
LEMMA TaggedCrossing ==
  ASSUME NEW n, NEW g, NEW T, IsCodec(n, g, T), NEW p \in {0, 1}, NEW q \in {0, 1}, p # q,
         ToSet(g) \subseteq Crossing(n, p),
         NEW m, IsCoded(m, n, g, T, q), NEW k, IsTagged(k, m, n, g, T, p, q)
  PROVE  /\ Crossing(k, p) = (Crossing(n, p) \ ToSet(g)) \cup Encoders(n, T)
         /\ Crossing(k, q) = Crossing(n, q)
         /\ Encoders(n, T) \cap Crossing(n, p) = {}
<1> DEFINE E == Encoders(n, T)
           D == Decoders(n, g, T)
<1>1. /\ k.node = n.node \cup E \cup D
      /\ n.node \subseteq Vertices(n)
      /\ \A v \in Vertices(n) : n.part[v] \in {p, q, NoPart} /\ NoPart # p /\ NoPart # q
      /\ \A v \in E : v \notin D /\ v \notin Vertices(n)
      /\ \A v \in D : v \notin E /\ v \notin Vertices(n)
  <2>1. k.node = n.node \cup E \cup D
    BY DEF IsTagged, IsCoded
  <2>2. n.node \subseteq Vertices(n)
    BY DEF Vertices
  <2>3. \A v \in Vertices(n) : n.part[v] \in {p, q, NoPart} /\ NoPart # p /\ NoPart # q
    BY NoPartAssumption DEF IsCodec
  <2>4. /\ \A v \in E : v \notin D /\ v \notin Vertices(n)
        /\ \A v \in D : v \notin E /\ v \notin Vertices(n)
    BY NewIds
  <2> QED BY <2>1, <2>2, <2>3, <2>4
<1>2. /\ \A v \in E : k.part[v] = p
      /\ \A v \in D : k.part[v] = q
      /\ \A v \in Vertices(n) : k.part[v] = n.part[v]
  BY DEF IsTagged
<1>3. \A w : Fanins(k, w) = Fanins(m, w)
  BY DEF Fanins, IsTagged
<1>4. /\ \A w \in n.node : n.part[w] # q => Fanins(k, w) = Fanins(n, w)
      /\ \A w \in n.node : n.part[w] = q =>
           /\ Fanins(k, w) \cap E = {}
           /\ \A u \in Vertices(n) : u \in Fanins(k, w) <=> u \in Fanins(n, w) /\ u \notin ToSet(g)
      /\ \A w \in E : Fanins(k, w) = ToSet(g)
      /\ \A w \in D : Fanins(k, w) \subseteq E
      /\ E # {} => \E w \in D : Fanins(k, w) = E
  BY <1>3, CodedFanins
<1>5. \A w \in n.node : Fanins(n, w) \subseteq Vertices(n)
  <2> SUFFICES ASSUME NEW w \in n.node, NEW u \in Fanins(n, w) PROVE u \in Vertices(n)
    OBVIOUS
  <2>1. n.fanin[w] \in Seq(Vertices(n))
    BY DEF IsCodec, IsNetwork
  <2> QED BY <2>1 DEF Fanins, ToSet
<1> HIDE DEF E, D
<1>6. \A u : u \in Crossing(n, p) <=> /\ u \in n.node /\ n.part[u] = p
                                      /\ \E w \in n.node : n.part[w] = q /\ u \in Fanins(n, w)
  <2>1. \A w \in n.node : Foreign(n.part[w], p) <=> n.part[w] = q
    BY <1>1 DEF Foreign
  <2> QED BY <2>1 DEF Crossing, Fanouts
<1>7. \A u : u \in Crossing(n, q) <=> /\ u \in n.node /\ n.part[u] = q
                                      /\ \E w \in n.node : n.part[w] = p /\ u \in Fanins(n, w)
  <2>1. \A w \in n.node : Foreign(n.part[w], q) <=> n.part[w] = p
    BY <1>1 DEF Foreign
  <2> QED BY <2>1 DEF Crossing, Fanouts
<1>8. \A w \in k.node : /\ Foreign(k.part[w], p) <=> k.part[w] = q
                        /\ Foreign(k.part[w], q) <=> k.part[w] = p
  <2>1. \A w \in k.node : k.part[w] \in {p, q, NoPart}
    BY <1>1, <1>2
  <2>2. NoPart # p /\ NoPart # q
    BY NoPartAssumption
  <2> QED BY <2>1, <2>2 DEF Foreign
<1>9. \A u : u \in Crossing(k, p) <=> /\ u \in k.node /\ k.part[u] = p
                                      /\ \E w \in k.node : k.part[w] = q /\ u \in Fanins(k, w)
  BY <1>8 DEF Crossing, Fanouts
<1>10. \A u : u \in Crossing(k, q) <=> /\ u \in k.node /\ k.part[u] = q
                                       /\ \E w \in k.node : k.part[w] = p /\ u \in Fanins(k, w)
  BY <1>8 DEF Crossing, Fanouts
<1>11. ASSUME NEW u \in Crossing(k, p) PROVE u \in (Crossing(n, p) \ ToSet(g)) \cup E
  <2>1. PICK w \in k.node : k.part[w] = q /\ u \in Fanins(k, w)
    BY <1>9
  <2>2. u \in k.node /\ k.part[u] = p
    BY <1>9
  <2>3. CASE u \in E
    BY <2>3
  <2>4. CASE u \notin E
    <3>1. u \in n.node /\ n.part[u] = p
      BY <1>1, <1>2, <2>2, <2>4
    <3>2. w \in n.node /\ n.part[w] = q
      BY <1>1, <1>2, <1>4, <2>1, <2>4
    <3> QED BY <1>1, <1>4, <1>6, <2>1, <3>1, <3>2
  <2> QED BY <2>3, <2>4
<1>12. ASSUME NEW u \in Crossing(n, p), u \notin ToSet(g) PROVE u \in Crossing(k, p)
  <2>1. PICK w \in n.node : n.part[w] = q /\ u \in Fanins(n, w)
    BY <1>6
  <2>2. w \in k.node /\ k.part[w] = q /\ u \in Fanins(k, w)
    BY <1>1, <1>2, <1>4, <1>5, <1>12, <2>1
  <2>3. u \in k.node /\ k.part[u] = p
    BY <1>1, <1>2, <1>6
  <2> QED BY <1>9, <2>2, <2>3
<1>13. ASSUME NEW u \in E PROVE u \in Crossing(k, p)
  BY <1>1, <1>2, <1>4, <1>9
<1>14. ASSUME NEW u \in Crossing(k, q) PROVE u \in Crossing(n, q)
  <2>1. PICK w \in k.node : k.part[w] = p /\ u \in Fanins(k, w)
    BY <1>10
  <2>2. u \in k.node /\ k.part[u] = q
    BY <1>10
  <2>3. CASE w \in E
    <3>1. u \in Crossing(n, p)
      BY <1>4, <2>1, <2>3
    <3>2. k.part[u] = p
      BY <1>1, <1>2, <1>6, <3>1
    <3> QED BY <2>2, <3>2
  <2>4. CASE w \notin E
    <3>1. w \in n.node /\ n.part[w] = p
      BY <1>1, <1>2, <2>1, <2>4
    <3>2. u \in Fanins(n, w) /\ u \in Vertices(n)
      BY <1>4, <1>5, <2>1, <3>1
    <3>3. u \in n.node /\ n.part[u] = q
      BY <1>1, <1>2, <2>2, <3>2
    <3> QED BY <1>7, <3>1, <3>2, <3>3
  <2> QED BY <2>3, <2>4
<1>15. ASSUME NEW u \in Crossing(n, q) PROVE u \in Crossing(k, q)
  <2>1. PICK w \in n.node : n.part[w] = p /\ u \in Fanins(n, w)
    BY <1>7
  <2>2. w \in k.node /\ k.part[w] = p /\ u \in Fanins(k, w)
    BY <1>1, <1>2, <1>4, <2>1
  <2>3. u \in k.node /\ k.part[u] = q
    BY <1>1, <1>2, <1>7
  <2> QED BY <1>10, <2>2, <2>3
<1>16. E \cap Crossing(n, p) = {}
  BY <1>1, <1>6
<1> QED BY <1>11, <1>12, <1>13, <1>14, <1>15, <1>16 DEF E

(* The elements of a sequence without repetitions *)
LEMMA DistinctSize ==
  ASSUME NEW S, NEW s \in Seq(S), \A i, j \in DOMAIN s : s[i] = s[j] => i = j
  PROVE  IsFiniteSet(ToSet(s)) /\ Cardinality(ToSet(s)) = Len(s) /\ ToSet(s) \subseteq S
<1> DEFINE D == 1 .. Len(s)
           R == ToSet(s)
<1>1. Len(s) \in Nat /\ DOMAIN s = D /\ R \subseteq S
  BY DEF ToSet
<1>2. IsFiniteSet(D) /\ Cardinality(D) = Len(s)
  BY <1>1, FS_Interval
<1>3. s \in Surjection(D, R) /\ s \in Injection(D, R)
  <2>1. \A i \in D : s[i] \in R
    BY <1>1 DEF ToSet
  <2>2. \A x \in R : \E i \in D : s[i] = x
    BY <1>1 DEF ToSet
  <2>3. s \in [D -> R]
    BY <1>1, <2>1
  <2> HIDE DEF D, R
  <2> QED BY <1>1, <2>2, <2>3 DEF Surjection, Injection, IsInjective
<1> HIDE DEF D, R
<1>4. IsFiniteSet(R) /\ Cardinality(R) <= Cardinality(D)
  BY <1>2, <1>3, FS_Surjection
<1>5. Cardinality(D) <= Cardinality(R)
  BY <1>3, <1>4, FS_Injection
<1>6. Cardinality(D) \in Nat /\ Cardinality(R) \in Nat
  BY <1>2, <1>4, FS_CardinalityType
<1> QED BY <1>1, <1>2, <1>4, <1>5, <1>6 DEF R

LEMMA EncodersSize ==
  ASSUME NEW n, NEW g, NEW T, IsCodec(n, g, T)
  PROVE  IsFiniteSet(Encoders(n, T)) /\ Cardinality(Encoders(n, T)) = Width(Len(T))
<1> DEFINE r == Width(Len(T))
           E == Encoders(n, T)
           f == [b \in 1 .. r |-> EncoderId(n, b)]
<1>1. r \in Nat /\ n.max \in Nat
  BY NewIds
<1>2. f \in Seq(E) /\ Len(f) = r /\ DOMAIN f = 1 .. r
  BY <1>1 DEF Encoders
<1>3. \A i, j \in DOMAIN f : f[i] = f[j] => i = j
  BY <1>1, <1>2 DEF EncoderId
<1>4. ToSet(f) = E
  BY <1>2 DEF ToSet, Encoders
<1> HIDE DEF f
<1> QED BY <1>2, <1>3, <1>4, DistinctSize

LEMMA CrossingFinite ==
  ASSUME NEW n, IsNetwork(n), NEW p
  PROVE  IsFiniteSet(Crossing(n, p)) /\ Cardinality(Crossing(n, p)) \in Nat
<1>1. Crossing(n, p) \subseteq n.node
  BY DEF Crossing
<1> QED BY <1>1, VerticesFinite, FS_Subset, FS_CardinalityType

(* What an accepted codec saves *)
LEMMA TaggedSaves ==
  ASSUME NEW n, NEW g, NEW T, IsCodec(n, g, T), NEW p \in {0, 1}, NEW q \in {0, 1}, p # q,
         ToSet(g) \subseteq Crossing(n, p),
         NEW m, IsCoded(m, n, g, T, q), NEW k, IsTagged(k, m, n, g, T, p, q)
  PROVE  Lines(n) = Lines(k) + Len(g) - Width(Len(T))
<1> DEFINE E == Encoders(n, T)
           C == Crossing(n, p)
           G == ToSet(g)
<1>1. IsNetwork(n) /\ Len(g) \in Nat /\ Width(Len(T)) \in Nat
  BY NewIds DEF IsCodec
<1>2. IsFiniteSet(C) /\ IsFiniteSet(Crossing(n, q)) /\ Cardinality(C) \in Nat /\ Cardinality(Crossing(n, q)) \in Nat
  BY <1>1, CrossingFinite
<1>3. IsFiniteSet(G) /\ Cardinality(G) = Len(g)
  BY DistinctSize DEF IsCodec
<1>4. IsFiniteSet(E) /\ Cardinality(E) = Width(Len(T))
  BY EncodersSize
<1>5. Crossing(k, p) = (C \ G) \cup E /\ Crossing(k, q) = Crossing(n, q) /\ E \cap C = {} /\ G \subseteq C
  BY TaggedCrossing
<1> HIDE DEF E, C, G
<1>6. IsFiniteSet(C \ G) /\ Cardinality(C \ G) = Cardinality(C) - Cardinality(C \cap G)
  BY <1>2, <1>3, FS_Difference
<1>7. C \cap G = G /\ (C \ G) \cap E = {}
  BY <1>5
<1>8. Cardinality((C \ G) \cup E) = Cardinality(C \ G) + Cardinality(E) - Cardinality((C \ G) \cap E)
  BY <1>4, <1>6, FS_Union
<1>9. Cardinality((C \ G) \cap E) = 0
  BY <1>7, FS_EmptySet
<1>10. Cardinality(Crossing(k, p)) = Cardinality(C) - Len(g) + Width(Len(T))
  <2> DEFINE c == Cardinality(C)
             l == Len(g)
             w == Width(Len(T))
             rest == Cardinality(C \ G)
  <2>1. c \in Nat /\ l \in Nat /\ w \in Nat /\ rest = c - l
    BY <1>1, <1>2, <1>3, <1>6, <1>7
  <2>2. Cardinality(Crossing(k, p)) = rest + w - 0
    BY <1>4, <1>5, <1>8, <1>9
  <2> HIDE DEF c, l, w, rest
  <2>3. Cardinality(Crossing(k, p)) = c - l + w
    BY <2>1, <2>2
  <2> QED BY <2>3 DEF c, l, w
<1>11. /\ Lines(n) = Cardinality(C) + Cardinality(Crossing(n, q))
       /\ Lines(k) = Cardinality(Crossing(k, p)) + Cardinality(Crossing(n, q))
  <2> DEFINE a == Cardinality(Crossing(k, p))
             b == Cardinality(Crossing(k, q))
  <2>1. a \in Int /\ b \in Int
    BY <1>1, <1>2, <1>5, <1>10
  <2>2. CASE p = 0 /\ q = 1
    BY <1>5, <2>2 DEF Lines, C
  <2>3. CASE p = 1 /\ q = 0
    <3>1. Lines(n) = Cardinality(Crossing(n, q)) + Cardinality(C) /\ Lines(k) = b + a
      BY <2>3 DEF Lines, C
    <3>2. b = Cardinality(Crossing(n, q))
      BY <1>5
    <3> HIDE DEF a, b
    <3>3. Lines(n) = Cardinality(C) + Cardinality(Crossing(n, q)) /\ Lines(k) = a + b
      BY <1>2, <2>1, <3>1
    <3> QED BY <3>2, <3>3 DEF a
  <2> QED BY <2>2, <2>3
<1> QED BY <1>1, <1>2, <1>10, <1>11
----------------------------------------------------------------------------
(* The groups that are left *)
LEMMA TailGrouping ==
  ASSUME NEW G, NEW L, NEW most, IsGrouping(G, L, most), G # <<>>,
         NEW K, L \ ToSet(Head(G)) \subseteq K
  PROVE  IsGrouping(Tail(G), K, most)
<1> DEFINE t == Tail(G)
<1>1. /\ G \in Seq(Seq(L))
      /\ \A i \in DOMAIN G : Len(G[i]) \in 1 .. most
      /\ \A i, k \in DOMAIN G : \A j \in DOMAIN G[i], l \in DOMAIN G[k] :
           G[i][j] = G[k][l] => i = k /\ j = l
  BY DEF IsGrouping
<1>2. /\ t \in Seq(Seq(L)) /\ DOMAIN t = 1 .. Len(G) - 1 /\ Len(G) \in Nat
      /\ \A i \in DOMAIN t : t[i] = G[i + 1]
      /\ Head(G) = G[1] /\ DOMAIN G = 1 .. Len(G) /\ Len(G) > 0 /\ Len(t) = Len(G) - 1
  BY <1>1
<1>3. \A i \in DOMAIN t : i \in Int /\ i + 1 \in DOMAIN G /\ i + 1 # 1
  BY <1>2
<1>4. 1 \in DOMAIN G
  BY <1>2
<1> HIDE DEF t
<1>5. ASSUME NEW i \in DOMAIN t PROVE t[i] \in Seq(K) /\ Len(t[i]) \in 1 .. most
  <2>1. t[i] = G[i + 1] /\ i + 1 \in DOMAIN G /\ i + 1 # 1
    BY <1>2, <1>3
  <2> DEFINE s == G[i + 1]
  <2>2. s \in Seq(L)
    BY <1>1, <2>1
  <2>3. \A j \in DOMAIN s : s[j] \in L /\ s[j] \notin ToSet(G[1])
    <3> SUFFICES ASSUME NEW j \in DOMAIN s, s[j] \in ToSet(G[1]) PROVE FALSE
      BY <2>2
    <3>1. PICK l \in DOMAIN G[1] : G[1][l] = s[j]
      BY DEF ToSet
    <3> QED BY <1>1, <1>4, <2>1, <3>1
  <2>4. \A j \in DOMAIN s : s[j] \in K
    BY <1>2, <2>3
  <2>5. s \in Seq(K)
    BY <2>2, <2>4
  <2> QED BY <1>1, <2>1, <2>5
<1>6. t \in Seq(Seq(K))
  <2>1. \A i \in 1 .. Len(t) : t[i] \in Seq(K)
    BY <1>2, <1>5
  <2> QED BY <1>2, <2>1
<1>7. ASSUME NEW i \in DOMAIN t, NEW k \in DOMAIN t, NEW j \in DOMAIN t[i], NEW l \in DOMAIN t[k],
             t[i][j] = t[k][l]
      PROVE  i = k /\ j = l
  <2>1. i + 1 = k + 1 /\ j = l
    <3>1. /\ i + 1 \in DOMAIN G /\ k + 1 \in DOMAIN G
          /\ j \in DOMAIN G[i + 1] /\ l \in DOMAIN G[k + 1] /\ G[i + 1][j] = G[k + 1][l]
      BY <1>2, <1>3, <1>7
    <3> QED BY <1>1, <3>1
  <2> QED BY <1>3, <2>1
<1> QED BY <1>5, <1>6, <1>7 DEF IsGrouping, t

LEMMA EmptyGrouping == \A L, most : IsGrouping(<<>>, L, most)
BY DEF IsGrouping

LEMMA HeadLines ==
  ASSUME NEW G, NEW L, NEW most \in Nat, IsGrouping(G, L, most), G # <<>>
  PROVE  /\ Head(G) \in Seq(L) /\ Len(Head(G)) \in Nat \ {0} /\ ToSet(Head(G)) \subseteq L
         /\ \A i, j \in DOMAIN Head(G) : Head(G)[i] = Head(G)[j] => i = j
<1>1. G \in Seq(Seq(L)) /\ 1 \in DOMAIN G /\ Head(G) = G[1]
  BY DEF IsGrouping
<1>2. G[1] \in Seq(L)
  BY <1>1
<1>3. Len(G[1]) \in 1 .. most
  BY <1>1 DEF IsGrouping
<1>4. \A i, j \in DOMAIN G[1] : G[1][i] = G[1][j] => i = j
  BY <1>1 DEF IsGrouping
<1>5. ToSet(G[1]) \subseteq L
  BY <1>2 DEF ToSet
<1> QED BY <1>1, <1>2, <1>3, <1>4, <1>5

----------------------------------------------------------------------------
(* What is true when the vertices of the cut L in a are *)
Decides(n, L, a, T, v) ==
  IF v \in L THEN v \in a ELSE {i \in DOMAIN n.fanin[v] : n.fanin[v][i] \in T} \in n.truth[v]

(* Every set of vertices off the cut has one that reads none of them. *)
GroundedOff(n, L) ==
  /\ n.pi \subseteq L
  /\ \A S \in SUBSET (Vertices(n) \ L) : S # {} => \E v \in S : Fanins(n, v) \cap S = {}

(* What v reads is only asked where v is not on the cut. *)
Below(n, L) == [v \in Vertices(n) |-> IF v \in L THEN {} ELSE Fanins(n, v)]

LEMMA FaninsRead ==
  ASSUME NEW n, IsNetwork(n), NEW v
  PROVE  /\ Fanins(n, v) \subseteq Vertices(n)
         /\ v \in n.node => /\ \A i \in DOMAIN n.fanin[v] : n.fanin[v][i] \in Fanins(n, v)
                            /\ \A u \in Fanins(n, v) : \E i \in DOMAIN n.fanin[v] : n.fanin[v][i] = u
<1>1. CASE v \notin n.node
  BY <1>1 DEF Fanins
<1>2. CASE v \in n.node
  <2>1. n.fanin[v] \in Seq(Vertices(n))
    BY <1>2 DEF IsNetwork
  <2>2. \A i \in DOMAIN n.fanin[v] : n.fanin[v][i] \in Vertices(n)
    BY <2>1
  <2> QED BY <1>2, <2>2 DEF Fanins, ToSet
<1> QED BY <1>1, <1>2

LEMMA BelowGrounded ==
  ASSUME NEW n, IsNetwork(n), NEW L, GroundedOff(n, L)
  PROVE  Grounded(Vertices(n), Below(n, L))
<1> DEFINE V == Vertices(n)
           D == Below(n, L)
<1>1. \A v \in V : D[v] = IF v \in L THEN {} ELSE Fanins(n, v)
  BY DEF Below
<1> HIDE DEF D
<1>2. \A v \in V : D[v] \subseteq V
  BY <1>1, FaninsRead
<1>3. ASSUME NEW S \in SUBSET V, S # {} PROVE \E v \in S : D[v] \cap S = {}
  <2>1. CASE S \cap L = {}
    <3>1. S \in SUBSET (V \ L)
      BY <2>1
    <3>2. PICK v \in S : Fanins(n, v) \cap S = {}
      BY <1>3, <3>1 DEF GroundedOff
    <3> QED BY <1>1, <2>1, <3>2
  <2>2. CASE S \cap L # {}
    BY <1>1, <2>2
  <2> QED BY <2>1, <2>2
<1> QED BY <1>2, <1>3 DEF Grounded, D

LEMMA DecidesSame ==
  ASSUME NEW n, IsNetwork(n), NEW L, n.pi \subseteq L, NEW a, NEW v \in Vertices(n), NEW T, NEW U,
         \A u \in Below(n, L)[v] : u \in T <=> u \in U
  PROVE  Decides(n, L, a, T, v) <=> Decides(n, L, a, U, v)
<1>1. CASE v \in L
  BY <1>1 DEF Decides
<1>2. CASE v \notin L
  <2>1. v \in n.node
    BY <1>2 DEF Vertices
  <2>2. \A i \in DOMAIN n.fanin[v] : n.fanin[v][i] \in T <=> n.fanin[v][i] \in U
    BY <1>2, <2>1, FaninsRead DEF Below
  <2>3. {i \in DOMAIN n.fanin[v] : n.fanin[v][i] \in T} = {i \in DOMAIN n.fanin[v] : n.fanin[v][i] \in U}
    BY <2>2
  <2> QED BY <1>2, <2>3 DEF Decides
<1> QED BY <1>1, <1>2

(* Two sets that agree with the local functions on a set of vertices that   *)
(* has what its vertices read agree with each other there.                  *)
IsTruthOn(n, L, a, S, T) == \A v \in S : v \in T <=> Decides(n, L, a, T, v)
ClosedOff(n, L, S) == S \subseteq Vertices(n) /\ \A v \in S : v \notin L => Fanins(n, v) \subseteq S

LEMMA TruthsAgree ==
  ASSUME NEW n, IsNetwork(n), NEW L, GroundedOff(n, L), NEW a, NEW S, ClosedOff(n, L, S),
         NEW T, IsTruthOn(n, L, a, S, T), NEW U, IsTruthOn(n, L, a, S, U)
  PROVE  \A v \in S : v \in T <=> v \in U
<1> DEFINE D == Below(n, L)
           I == {v \in Vertices(n) : v \in S => (v \in T <=> v \in U)}
<1>1. Grounded(Vertices(n), D)
  BY BelowGrounded
<1>2. n.pi \subseteq L
  BY DEF GroundedOff
<1>3. ASSUME NEW v \in Vertices(n), D[v] \subseteq I PROVE v \in I
  <2> SUFFICES ASSUME v \in S PROVE v \in T <=> v \in U
    OBVIOUS
  <2>1. D[v] \subseteq S
    BY DEF Below, ClosedOff
  <2>2. \A u \in D[v] : u \in T <=> u \in U
    BY <1>3, <2>1
  <2>3. Decides(n, L, a, T, v) <=> Decides(n, L, a, U, v)
    BY <1>2, <2>2, DecidesSame
  <2> QED BY <2>3 DEF IsTruthOn
<1>4. Vertices(n) \subseteq I
  <2> HIDE DEF I, D
  <2> QED BY <1>1, <1>3, FromBelow
<1> QED BY <1>4 DEF ClosedOff

LEMMA TruthExists ==
  ASSUME NEW n, IsNetwork(n), NEW L, GroundedOff(n, L), NEW a
  PROVE  \E U \in SUBSET Vertices(n) : IsTruthOn(n, L, a, Vertices(n), U)
<1> DEFINE V == Vertices(n)
           D == Below(n, L)
           Val == {0, 1}
           On(g) == {v \in V : g[v] = 1}
           B == [v \in V |-> [g \in [V -> Val] |-> IF Decides(n, L, a, On(g), v) THEN 1 ELSE 0]]
<1>1. \A v \in V, g \in [V -> Val] : B[v][g] = IF Decides(n, L, a, On(g), v) THEN 1 ELSE 0
  OBVIOUS
<1>2. \A v \in V, g \in [V -> Val] : B[v][g] \in Val
  BY <1>1
<1>3. Grounded(V, D) /\ IsFiniteSet(V) /\ n.pi \subseteq L
  BY BelowGrounded, VerticesFinite DEF GroundedOff
<1>4. ASSUME NEW v \in V, NEW g \in [V -> Val], NEW h \in [V -> Val],
             \A u \in D[v] : g[u] = h[u]
      PROVE  B[v][g] = B[v][h]
  <2>1. D[v] \subseteq V
    BY <1>3 DEF Grounded
  <2>2. \A u \in D[v] : u \in On(g) <=> u \in On(h)
    BY <1>4, <2>1
  <2> HIDE DEF On
  <2>3. Decides(n, L, a, On(g), v) <=> Decides(n, L, a, On(h), v)
    BY <1>3, <2>2, DecidesSame
  <2> HIDE DEF B
  <2> QED BY <1>1, <2>3
<1>5. Val # {}
  OBVIOUS
<1> HIDE DEF Val, B, D
<1>6. IsFlow(V, D, Val, B)
  BY <1>2, <1>4 DEF IsFlow
<1>7. Solvable(V, Val, B)
  <2> HIDE DEF V
  <2> QED BY <1>3, <1>5, <1>6, FlowExists
<1>8. PICK f \in [V -> Val] : \A v \in V : f[v] = B[v][f]
  BY <1>7 DEF Solvable
<1>9. \A v \in V : f[v] = IF Decides(n, L, a, On(f), v) THEN 1 ELSE 0
  BY <1>1, <1>8
<1>10. \A v \in V : v \in On(f) <=> Decides(n, L, a, On(f), v)
  BY <1>9
<1> QED BY <1>10 DEF IsTruthOn

(* What the recursions of TrueAt and Reachable ask of their functions *)
Computes(n, L, a, t) ==
  t = [v \in Vertices(n) |->
         IF v \in L THEN v \in a
         ELSE {i \in DOMAIN n.fanin[v] : t[n.fanin[v][i]]} \in n.truth[v]]

LEMMA SolutionDecides ==
  ASSUME NEW n, IsNetwork(n), NEW L, n.pi \subseteq L, NEW a, NEW t, Computes(n, L, a, t),
         NEW T, T = {v \in Vertices(n) : t[v]}
  PROVE  IsTruthOn(n, L, a, Vertices(n), T)
<1> SUFFICES ASSUME NEW v \in Vertices(n) PROVE v \in T <=> Decides(n, L, a, T, v)
  BY DEF IsTruthOn
<1>1. t[v] = IF v \in L THEN v \in a
             ELSE {i \in DOMAIN n.fanin[v] : t[n.fanin[v][i]]} \in n.truth[v]
  BY DEF Computes
<1>2. CASE v \in L
  BY <1>1, <1>2 DEF Decides
<1>3. CASE v \notin L
  <2>1. v \in n.node
    BY <1>3 DEF Vertices
  <2>2. \A i \in DOMAIN n.fanin[v] : n.fanin[v][i] \in Vertices(n)
    BY <2>1, FaninsRead
  <2>3. {i \in DOMAIN n.fanin[v] : t[n.fanin[v][i]]} = {i \in DOMAIN n.fanin[v] : n.fanin[v][i] \in T}
    BY <2>2
  <2> QED BY <1>1, <1>3, <2>3 DEF Decides
<1> QED BY <1>2, <1>3

LEMMA SolutionExists ==
  ASSUME NEW n, IsNetwork(n), NEW L, GroundedOff(n, L), NEW a
  PROVE  \E t : Computes(n, L, a, t)
<1> DEFINE V == Vertices(n)
           Body(g, v) == IF v \in L THEN v \in a
                         ELSE {i \in DOMAIN n.fanin[v] : g[n.fanin[v][i]]} \in n.truth[v]
<1>1. PICK U \in SUBSET V : \A v \in V : v \in U <=> Decides(n, L, a, U, v)
  BY TruthExists DEF IsTruthOn
<1> DEFINE h == [v \in V |-> v \in U]
<1>2. ASSUME NEW v \in V PROVE v \in U <=> Body(h, v)
  <2>1. CASE v \in L
    BY <1>1, <2>1 DEF Decides
  <2>2. CASE v \notin L
    <3>1. v \in n.node
      BY <2>2 DEF Vertices, GroundedOff
    <3>2. \A i \in DOMAIN n.fanin[v] : n.fanin[v][i] \in V
      BY <3>1, FaninsRead
    <3>3. {i \in DOMAIN n.fanin[v] : h[n.fanin[v][i]]} = {i \in DOMAIN n.fanin[v] : n.fanin[v][i] \in U}
      BY <3>2
    <3> QED BY <1>1, <2>2, <3>3 DEF Decides
  <2> QED BY <2>1, <2>2
<1>3. h = [v \in V |-> Body(h, v)]
  BY <1>2
<1> QED BY <1>3 DEF Computes

(* The truth of a network without cycles *)
LEMMA TruthIs ==
  ASSUME NEW n, IsNetwork(n), Acyclic(n), NEW a
  PROVE  IsTruthOn(n, n.pi, a, Vertices(n), TrueAt(n, a))
<1> DEFINE L == n.pi
           t == CHOOSE g : Computes(n, L, a, g)
           T == {v \in Vertices(n) : t[v]}
<1>1. GroundedOff(n, L) /\ n.pi \subseteq L
  BY DEF GroundedOff, Acyclic, Vertices
<1>2. TrueAt(n, a) = T
  BY DEF TrueAt, Computes
<1> HIDE DEF L
<1>3. Computes(n, L, a, t)
  BY <1>1, SolutionExists
<1> HIDE DEF t
<1>4. T = {v \in Vertices(n) : t[v]}
  OBVIOUS
<1> HIDE DEF T
<1>5. IsTruthOn(n, L, a, Vertices(n), T)
  BY <1>1, <1>3, <1>4, SolutionDecides
<1> QED BY <1>2, <1>5 DEF L

----------------------------------------------------------------------------
(* The cone of a group *)
Leaves(n, p) == {v \in Vertices(n) : IsLeaf(n, v, p)}

SupportBody(n, p, s, u) == IF IsLeaf(n, u, p) THEN {u} ELSE UNION {s[w] : w \in Fanins(n, u)}

LEMMA SupportsExist ==
  ASSUME NEW n, IsNetwork(n), NEW p, GroundedOff(n, Leaves(n, p))
  PROVE  \E s : s = [u \in Vertices(n) |-> SupportBody(n, p, s, u)]
<1> DEFINE V == Vertices(n)
           L == Leaves(n, p)
           D == Below(n, L)
           Val == SUBSET V
           B == [v \in V |-> [s \in [V -> Val] |-> SupportBody(n, p, s, v)]]
<1>1. \A v \in V, s \in [V -> Val] : B[v][s] = SupportBody(n, p, s, v)
  OBVIOUS
<1>2. Grounded(V, D) /\ IsFiniteSet(V)
  BY BelowGrounded, VerticesFinite
<1>3. \A v \in V : Fanins(n, v) \subseteq V
  BY FaninsRead
<1>4. \A v \in V, s \in [V -> Val] : B[v][s] \in Val
  BY <1>1, <1>3 DEF SupportBody
<1>5. ASSUME NEW v \in V, NEW s \in [V -> Val], NEW t \in [V -> Val], \A u \in D[v] : s[u] = t[u]
      PROVE  B[v][s] = B[v][t]
  <2>1. CASE IsLeaf(n, v, p)
    <3> HIDE DEF B
    <3> QED BY <1>1, <2>1 DEF SupportBody
  <2>2. CASE ~IsLeaf(n, v, p)
    <3>1. D[v] = Fanins(n, v)
      BY <2>2 DEF Below, Leaves
    <3>2. {s[w] : w \in Fanins(n, v)} = {t[w] : w \in Fanins(n, v)}
      BY <1>5, <3>1
    <3>3. SupportBody(n, p, s, v) = SupportBody(n, p, t, v)
      BY <2>2, <3>2 DEF SupportBody
    <3> HIDE DEF B
    <3> QED BY <1>1, <3>3
  <2> QED BY <2>1, <2>2
<1>6. Val # {}
  OBVIOUS
<1> HIDE DEF Val, B, D
<1>7. IsFlow(V, D, Val, B)
  BY <1>4, <1>5 DEF IsFlow
<1>8. Solvable(V, Val, B)
  <2> HIDE DEF V
  <2> QED BY <1>2, <1>6, <1>7, FlowExists
<1>9. PICK s \in [V -> Val] : \A v \in V : s[v] = B[v][s]
  BY <1>8 DEF Solvable
<1>10. s = [u \in V |-> SupportBody(n, p, s, u)]
  BY <1>1, <1>9
<1> QED BY <1>10

LEMMA SupportIs ==
  ASSUME NEW n, IsNetwork(n), NEW p, GroundedOff(n, Leaves(n, p)), NEW v \in Vertices(n)
  PROVE  /\ IsLeaf(n, v, p) => Support(n, v, p) = {v}
         /\ ~IsLeaf(n, v, p) => \A w \in Fanins(n, v) : Support(n, w, p) \subseteq Support(n, v, p)
<1> DEFINE V == Vertices(n)
           s == CHOOSE x : x = [u \in V |-> SupportBody(n, p, x, u)]
<1>1. s = [u \in V |-> SupportBody(n, p, s, u)]
  BY SupportsExist
<1>2. \A u : Support(n, u, p) = s[u]
  BY DEF Support, SupportBody
<1> HIDE DEF s
<1>3. s[v] = SupportBody(n, p, s, v)
  BY <1>1
<1> QED BY <1>2, <1>3 DEF SupportBody

LEMMA ReachableHas ==
  ASSUME NEW n, IsNetwork(n), NEW g \in Seq(n.node), NEW p, GroundedOff(n, Leaves(n, p)),
         NEW a \in SUBSET LeavesOf(n, g, p)
  PROVE  \E T : /\ {j \in DOMAIN g : g[j] \in T} \in Reachable(n, g, p)
                /\ IsTruthOn(n, Leaves(n, p), a, Vertices(n), T)
<1> DEFINE V == Vertices(n)
           L == Leaves(n, p)
           Body(h, v) == IF IsLeaf(n, v, p) THEN v \in a
                         ELSE {i \in DOMAIN n.fanin[v] : h[n.fanin[v][i]]} \in n.truth[v]
           t == CHOOSE h : h = [v \in V |-> Body(h, v)]
           T == {v \in V : t[v]}
<1>1. n.pi \subseteq L
  BY DEF GroundedOff
<1>2. \A h : h = [v \in V |-> Body(h, v)] <=> Computes(n, L, a, h)
  <2>1. \A v \in V : IsLeaf(n, v, p) <=> v \in L
    BY DEF Leaves
  <2> HIDE DEF L
  <2>2. \A h : [v \in V |-> Body(h, v)] =
               [v \in V |-> IF v \in L THEN v \in a
                            ELSE {i \in DOMAIN n.fanin[v] : h[n.fanin[v][i]]} \in n.truth[v]]
    BY <2>1
  <2> QED BY <2>2 DEF Computes
<1>3. \E h : h = [v \in V |-> Body(h, v)]
  <2>1. \E h : Computes(n, L, a, h)
    BY SolutionExists
  <2> HIDE DEF L, Body
  <2> QED BY <1>2, <2>1
<1>4. t = [v \in V |-> Body(t, v)]
  <2> HIDE DEF Body
  <2> QED BY <1>3
<1>5. {j \in DOMAIN g : t[g[j]]} \in Reachable(n, g, p)
  BY DEF Reachable
<1> HIDE DEF t
<1>6. Computes(n, L, a, t)
  <2> HIDE DEF L, Body
  <2> QED BY <1>2, <1>4
<1>7. T = {v \in V : t[v]}
  OBVIOUS
<1> HIDE DEF T, L
<1>8. IsTruthOn(n, L, a, V, T)
  BY <1>1, <1>6, <1>7, SolutionDecides
<1>9. \A j \in DOMAIN g : g[j] \in V
  <2>1. \A j \in DOMAIN g : g[j] \in n.node
    OBVIOUS
  <2> QED BY <2>1 DEF Vertices
<1>10. {j \in DOMAIN g : t[g[j]]} = {j \in DOMAIN g : g[j] \in T}
  BY <1>7, <1>9
<1> QED BY <1>5, <1>8, <1>10 DEF L

(* Whatever agrees with the local functions on a part of the cone, the cone *)
(* can show there.                                                          *)
IsTruthInCone(n, p, S, W) ==
  /\ S \subseteq Vertices(n)
  /\ \A v \in S : ~IsLeaf(n, v, p) =>
       /\ Fanins(n, v) \subseteq S
       /\ v \in W <=> {i \in DOMAIN n.fanin[v] : n.fanin[v][i] \in W} \in n.truth[v]

LEMMA TupleSeen ==
  ASSUME NEW n, IsNetwork(n), NEW g \in Seq(n.node), NEW p, GroundedOff(n, Leaves(n, p)),
         NEW S, NEW W, IsTruthInCone(n, p, S, W)
  PROVE  \E t \in Reachable(n, g, p) : \A j \in DOMAIN g : g[j] \in S => (j \in t <=> g[j] \in W)
<1> DEFINE L == Leaves(n, p)
           A == LeavesOf(n, g, p)
           a == W \cap A
           C == {v \in S : Support(n, v, p) \subseteq A}
<1>0. /\ S \subseteq Vertices(n)
      /\ \A v \in S : ~IsLeaf(n, v, p) =>
           /\ Fanins(n, v) \subseteq S
           /\ v \in W <=> {i \in DOMAIN n.fanin[v] : n.fanin[v][i] \in W} \in n.truth[v]
  BY DEF IsTruthInCone
<1>1. PICK T : /\ {j \in DOMAIN g : g[j] \in T} \in Reachable(n, g, p)
               /\ IsTruthOn(n, L, a, Vertices(n), T)
  <2>1. a \in SUBSET A
    OBVIOUS
  <2> HIDE DEF a
  <2> QED BY <2>1, ReachableHas
<1>2. \A v \in Vertices(n) : IsLeaf(n, v, p) <=> v \in L
  BY DEF Leaves
<1>3. ASSUME NEW v \in C, v \notin L PROVE Fanins(n, v) \subseteq C
  <2>1. ~IsLeaf(n, v, p) /\ v \in Vertices(n)
    BY <1>0, <1>2, <1>3
  <2>2. \A w \in Fanins(n, v) : Support(n, w, p) \subseteq Support(n, v, p)
    BY <2>1, SupportIs
  <2> QED BY <1>0, <2>1, <2>2
<1>4. ASSUME NEW v \in C PROVE v \in W <=> Decides(n, L, a, W, v)
  <2>1. v \in Vertices(n)
    BY <1>0
  <2>2. CASE v \in L
    <3>1. Support(n, v, p) = {v}
      BY <1>2, <2>1, <2>2, SupportIs
    <3>2. v \in A
      BY <3>1
    <3> QED BY <2>2, <3>2 DEF Decides
  <2>3. CASE v \notin L
    BY <1>0, <1>2, <2>1, <2>3 DEF Decides
  <2> QED BY <2>2, <2>3
<1>5. IsTruthOn(n, L, a, C, T) /\ IsTruthOn(n, L, a, C, W)
  BY <1>0, <1>1, <1>4 DEF IsTruthOn
<1>6. \A v \in C : v \in T <=> v \in W
  <2>1. GroundedOff(n, L)
    OBVIOUS
  <2>2. ClosedOff(n, L, C)
    BY <1>0, <1>3 DEF ClosedOff
  <2> HIDE DEF C, L, a
  <2> QED BY <1>5, <2>1, <2>2, TruthsAgree
<1>7. \A j \in DOMAIN g : g[j] \in S => g[j] \in C
  BY DEF LeavesOf
<1> QED BY <1>1, <1>6, <1>7

----------------------------------------------------------------------------
(* What the outputs depend on, and what depends on no cycle *)
FedBy(n) == [S \in SUBSET Vertices(n) |-> S \cup UNION {Fanins(n, u) : u \in S}]
PutBy(n) == [S \in SUBSET Vertices(n) |-> S \cup {u \in n.node : Fanins(n, u) \subseteq S}]

LEMMA Growing ==
  ASSUME NEW n, IsNetwork(n)
  PROVE  Grows(Vertices(n), FedBy(n)) /\ Grows(Vertices(n), PutBy(n))
<1> DEFINE V == Vertices(n)
<1>1. \A S \in SUBSET V : UNION {Fanins(n, u) : u \in S} \subseteq V
  BY FaninsRead
<1>2. n.node \subseteq V
  BY DEF Vertices
<1>3. FedBy(n) \in [SUBSET V -> SUBSET V]
  BY <1>1 DEF FedBy
<1>4. PutBy(n) \in [SUBSET V -> SUBSET V]
  BY <1>2 DEF PutBy
<1>5. \A S, T \in SUBSET V : S \subseteq FedBy(n)[S] /\ (S \subseteq T => FedBy(n)[S] \subseteq FedBy(n)[T])
  BY DEF FedBy
<1>6. \A S, T \in SUBSET V : S \subseteq PutBy(n)[S] /\ (S \subseteq T => PutBy(n)[S] \subseteq PutBy(n)[T])
  BY DEF PutBy
<1> QED BY <1>3, <1>4, <1>5, <1>6 DEF Grows

LEMMA FeedingIs ==
  ASSUME NEW n, IsNetwork(n)
  PROVE  /\ Feeding(n) \subseteq Vertices(n) /\ \A o \in DOMAIN n.po : n.po[o] \in Feeding(n)
         /\ \A v \in Feeding(n) : Fanins(n, v) \subseteq Feeding(n)
         /\ \A C : /\ \A o \in DOMAIN n.po : n.po[o] \in C
                   /\ \A v \in C : Fanins(n, v) \subseteq C
                   => Feeding(n) \subseteq C
<1> DEFINE V == Vertices(n)
           G == FedBy(n)
           Body(h, T) == LET U == T \cup UNION {Fanins(n, u) : u \in T} IN IF U = T THEN T ELSE h[U]
           f == CHOOSE h : h = [T \in SUBSET V |-> Body(h, T)]
           S == ToSet(n.po)
<1>1. IsFiniteSet(V) /\ Grows(V, G)
  BY VerticesFinite, Growing
<1>2. S \in SUBSET V /\ \A o \in DOMAIN n.po : n.po[o] \in S
  <2>1. n.po \in Seq(V)
    BY DEF IsNetwork
  <2> QED BY <2>1 DEF ToSet
<1>3. Feeding(n) = f[S]
  BY DEF Feeding
<1>4. \A h : IsGrown(V, G, h) <=> h = [T \in SUBSET V |-> Body(h, T)]
  <2>1. \A T \in SUBSET V : G[T] = T \cup UNION {Fanins(n, u) : u \in T}
    BY DEF FedBy
  <2> HIDE DEF G
  <2> QED BY <2>1 DEF IsGrown
<1>5. IsGrown(V, G, f)
  <2> HIDE DEF V, G, Body
  <2>1. \E h : IsGrown(V, G, h)
    BY <1>1, GrownExists
  <2> QED BY <1>4, <2>1
<1> HIDE DEF f
<1>6. /\ f[S] \in SUBSET V /\ S \subseteq f[S] /\ G[f[S]] = f[S]
      /\ \A B : (\A T \in SUBSET V : T \cap B = {} => G[T] \cap B = {}) /\ S \cap B = {} => f[S] \cap B = {}
  <2> HIDE DEF V, G, S
  <2> QED BY <1>1, <1>2, <1>5, GrownIs
<1>7. \A v \in f[S] : Fanins(n, v) \subseteq G[f[S]]
  BY <1>6 DEF FedBy
<1>8. ASSUME NEW C, \A o \in DOMAIN n.po : n.po[o] \in C, \A v \in C : Fanins(n, v) \subseteq C
      PROVE  f[S] \subseteq C
  <2> DEFINE B == V \ C
  <2>1. S \cap B = {}
    BY <1>8 DEF ToSet
  <2>2. ASSUME NEW T \in SUBSET V, T \cap B = {} PROVE G[T] \cap B = {}
    <3>1. T \subseteq C
      BY <2>2
    <3>2. UNION {Fanins(n, u) : u \in T} \subseteq C
      BY <1>8, <3>1
    <3> QED BY <3>1, <3>2 DEF FedBy
  <2> HIDE DEF G, B
  <2>3. f[S] \cap B = {}
    BY <1>6, <2>1, <2>2
  <2> QED BY <1>6, <2>3 DEF B
<1> QED BY <1>2, <1>3, <1>6, <1>7, <1>8

LEMMA OrderedIs ==
  ASSUME NEW n, IsNetwork(n)
  PROVE  /\ n.pi \subseteq Ordered(n) /\ Ordered(n) \subseteq Vertices(n)
         /\ \A v \in n.node : Fanins(n, v) \subseteq Ordered(n) => v \in Ordered(n)
         /\ \A B \in SUBSET n.node : (\A v \in B : Fanins(n, v) \cap B # {}) => Ordered(n) \cap B = {}
<1> DEFINE V == Vertices(n)
           G == PutBy(n)
           Body(h, T) == LET U == T \cup {u \in n.node : Fanins(n, u) \subseteq T}
                         IN IF U = T THEN T ELSE h[U]
           f == CHOOSE h : h = [T \in SUBSET V |-> Body(h, T)]
           S == n.pi
<1>1. IsFiniteSet(V) /\ Grows(V, G)
  BY VerticesFinite, Growing
<1>2. S \in SUBSET V
  BY DEF Vertices
<1>3. Ordered(n) = f[S]
  BY DEF Ordered
<1>4. \A h : IsGrown(V, G, h) <=> h = [T \in SUBSET V |-> Body(h, T)]
  <2>1. \A T \in SUBSET V : G[T] = T \cup {u \in n.node : Fanins(n, u) \subseteq T}
    BY DEF PutBy
  <2>2. ASSUME NEW h, NEW T \in SUBSET V
        PROVE  Body(h, T) = IF G[T] = T THEN T ELSE h[G[T]]
    <3> DEFINE U == T \cup {u \in n.node : Fanins(n, u) \subseteq T}
    <3>1. G[T] = U /\ Body(h, T) = IF U = T THEN T ELSE h[U]
      BY <2>1
    <3> HIDE DEF G, Body, U
    <3> QED BY <3>1
  <2> HIDE DEF G, Body
  <2> QED BY <2>2 DEF IsGrown
<1>5. IsGrown(V, G, f)
  <2> HIDE DEF V, G, Body
  <2>1. \E h : IsGrown(V, G, h)
    BY <1>1, GrownExists
  <2> QED BY <1>4, <2>1
<1> HIDE DEF f
<1>6. /\ f[S] \in SUBSET V /\ S \subseteq f[S] /\ G[f[S]] = f[S]
      /\ \A B : (\A T \in SUBSET V : T \cap B = {} => G[T] \cap B = {}) /\ S \cap B = {} => f[S] \cap B = {}
  <2> HIDE DEF V, G, S
  <2> QED BY <1>1, <1>2, <1>5, GrownIs
<1>7. \A v \in n.node : Fanins(n, v) \subseteq f[S] => v \in G[f[S]]
  BY <1>6 DEF PutBy
<1>8. ASSUME NEW B \in SUBSET n.node, \A v \in B : Fanins(n, v) \cap B # {}
      PROVE  f[S] \cap B = {}
  <2>1. S \cap B = {}
    BY DEF IsNetwork
  <2>2. ASSUME NEW T \in SUBSET V, T \cap B = {} PROVE G[T] \cap B = {}
    BY <1>8, <2>2 DEF PutBy
  <2> HIDE DEF G
  <2> QED BY <1>6, <2>1, <2>2
<1> QED BY <1>3, <1>6, <1>7, <1>8

(* Without cycles everything has its place. *)
LEMMA AcyclicOrdered ==
  ASSUME NEW n, IsNetwork(n), Acyclic(n)
  PROVE  Feeding(n) \subseteq Ordered(n)
<1> DEFINE B == n.node \ Ordered(n)
<1>1. \A v \in B : Fanins(n, v) \cap B # {}
  <2> SUFFICES ASSUME NEW v \in B, Fanins(n, v) \cap B = {} PROVE FALSE
    OBVIOUS
  <2>1. Fanins(n, v) \subseteq Ordered(n)
    BY FaninsRead, OrderedIs DEF Vertices
  <2> QED BY <2>1, OrderedIs
<1>2. B = {}
  BY <1>1 DEF Acyclic
<1> QED BY <1>2, FeedingIs, OrderedIs DEF Vertices

(* What the outputs depend on, by itself *)
IsLive(m, n) ==
  /\ m.pi = n.pi /\ m.po = n.po /\ m.node = n.node \cap Feeding(n)
  /\ Vertices(m) \subseteq Vertices(n) /\ Feeding(n) \subseteq Vertices(m)
  /\ \A v \in m.node : m.fanin[v] = n.fanin[v] /\ m.truth[v] = n.truth[v]
  /\ \A v \in m.node : Fanins(m, v) = Fanins(n, v)

LEMMA LiveIs ==
  ASSUME NEW n, IsNetwork(n), NEW m, m = Live(n)
  PROVE  IsLive(m, n) /\ IsNetwork(m)
<1> DEFINE V == n.node \ (n.node \ Feeding(n))
<1>1. DOMAIN n = Fields /\ m = Without(n, n.node \ Feeding(n))
  BY NetworkFields DEF Live
<1>2. m = [x \in Fields |-> m[x]]
  BY <1>1 DEF Without
<1>3. /\ m.max = n.max /\ m.pi = n.pi /\ m.node = V /\ m.po = n.po
      /\ m.fanin = [v \in V |-> n.fanin[v]] /\ m.truth = [v \in V |-> n.truth[v]]
      /\ m.part = [v \in n.pi \cup V |-> n.part[v]]
  BY <1>1 DEF Without, Fields
<1>4. V = n.node \cap Feeding(n)
  OBVIOUS
<1> HIDE DEF V
<1>5. /\ n.max \in Nat /\ n.pi \cap n.node = {} /\ \A v \in Vertices(n) : v \in 0 .. n.max - 1
      /\ \A v \in n.node : n.fanin[v] \in Seq(Vertices(n)) /\ n.truth[v] \subseteq SUBSET DOMAIN n.fanin[v]
      /\ \A v \in Vertices(n) : n.part[v] \in Nat \cup {NoPart}
      /\ n.po \in Seq(Vertices(n))
  BY DEF IsNetwork
<1>6. /\ Feeding(n) \subseteq Vertices(n) /\ \A o \in DOMAIN n.po : n.po[o] \in Feeding(n)
      /\ \A v \in Feeding(n) : Fanins(n, v) \subseteq Feeding(n)
  BY FeedingIs
<1>7. Vertices(m) = n.pi \cup V /\ Feeding(n) \subseteq Vertices(m) /\ Vertices(m) \subseteq Vertices(n)
  BY <1>3, <1>4, <1>6 DEF Vertices
<1>8. ASSUME NEW v \in V
      PROVE  /\ m.fanin[v] = n.fanin[v] /\ m.truth[v] = n.truth[v]
             /\ Fanins(m, v) = Fanins(n, v) /\ m.fanin[v] \in Seq(Vertices(m))
             /\ m.truth[v] = m.truth[v] \cap SUBSET DOMAIN m.fanin[v]
  <2>1. m.fanin[v] = n.fanin[v] /\ m.truth[v] = n.truth[v]
    BY <1>3
  <2>2. Fanins(m, v) = Fanins(n, v)
    BY <1>3, <1>4, <2>1 DEF Fanins
  <2>3. v \in n.node /\ v \in Feeding(n)
    BY <1>4
  <2>4. \A i \in DOMAIN n.fanin[v] : n.fanin[v][i] \in Vertices(m)
    BY <1>6, <1>7, <2>3, FaninsRead
  <2>5. n.fanin[v] \in Seq(Vertices(m))
    <3> DEFINE s == n.fanin[v]
    <3>1. s \in Seq(Vertices(n)) /\ \A i \in DOMAIN s : s[i] \in Vertices(m)
      BY <1>5, <2>3, <2>4
    <3> HIDE DEF s
    <3>2. s \in Seq(Vertices(m))
      BY <3>1
    <3> QED BY <3>2 DEF s
  <2>6. n.truth[v] = n.truth[v] \cap SUBSET DOMAIN n.fanin[v]
    BY <1>5, <2>3
  <2> QED BY <2>1, <2>2, <2>5, <2>6
<1>9. m.po \in Seq(Vertices(m))
  <2> DEFINE s == n.po
  <2>1. s \in Seq(Vertices(n)) /\ \A i \in DOMAIN s : s[i] \in Vertices(m)
    BY <1>5, <1>6, <1>7
  <2> HIDE DEF s
  <2>2. s \in Seq(Vertices(m))
    BY <2>1
  <2> QED BY <1>3, <2>2 DEF s
<1>10. m.fanin \in [m.node -> Seq(Vertices(m))]
  <2>1. \A v \in V : m.fanin[v] \in Seq(Vertices(m))
    BY <1>8
  <2> QED BY <1>3, <2>1
<1>11. m.truth = [v \in m.node |-> m.truth[v] \cap SUBSET DOMAIN m.fanin[v]]
  <2>1. m.truth = [v \in V |-> m.truth[v]] /\ m.node = V
    BY <1>3
  <2>2. \A v \in V : m.truth[v] = m.truth[v] \cap SUBSET DOMAIN m.fanin[v]
    BY <1>8
  <2> QED BY <2>1, <2>2
<1>12. m.part \in [Vertices(m) -> Nat \cup {NoPart}]
  <2>1. \A v \in Vertices(m) : n.part[v] \in Nat \cup {NoPart}
    BY <1>5, <1>7
  <2> QED BY <1>3, <1>7, <2>1
<1>13. /\ m.max \in Nat /\ m.pi \cap m.node = {}
       /\ \A v \in Vertices(m) : v \in 0 .. m.max - 1
  BY <1>3, <1>4, <1>5, <1>7
<1>14. IsNetwork(m)
  BY <1>2, <1>9, <1>10, <1>11, <1>12, <1>13, AsRecord DEF IsNetwork
<1> QED BY <1>3, <1>4, <1>7, <1>8, <1>14 DEF IsLive

LEMMA LiveAcyclic ==
  ASSUME NEW n, IsNetwork(n), Feeding(n) \subseteq Ordered(n)
  PROVE  Acyclic(Live(n))
<1> DEFINE m == Live(n)
<1>1. IsLive(m, n)
  BY LiveIs
<1> HIDE DEF m
<1>2. ASSUME NEW S \in SUBSET m.node, \A v \in S : Fanins(m, v) \cap S # {}
      PROVE  S = {}
  <2>1. S \in SUBSET n.node /\ S \subseteq Ordered(n)
    BY <1>1 DEF IsLive
  <2>2. \A v \in S : Fanins(n, v) \cap S # {}
    BY <1>1, <1>2 DEF IsLive
  <2>3. Ordered(n) \cap S = {}
    BY <2>1, <2>2, OrderedIs
  <2> QED BY <2>1, <2>3
<1>3. Acyclic(m)
  BY <1>2 DEF Acyclic
<1> QED BY <1>3 DEF m

(* What is true of it: the one set that agrees with the local functions of  *)
(* everything the outputs depend on                                         *)
LEMMA LiveTruth ==
  ASSUME NEW n, IsNetwork(n), Feeding(n) \subseteq Ordered(n), NEW a
  PROVE  IsTruthOn(n, n.pi, a, Feeding(n), TrueAt(Live(n), a))
<1> DEFINE m == Live(n)
           T == TrueAt(m, a)
<1>1. IsLive(m, n) /\ IsNetwork(m) /\ Acyclic(m)
  BY LiveIs, LiveAcyclic
<1> HIDE DEF m
<1>2. IsTruthOn(m, m.pi, a, Vertices(m), T)
  BY <1>1, TruthIs
<1> HIDE DEF T
<1>3. ASSUME NEW v \in Feeding(n) PROVE v \in T <=> Decides(n, n.pi, a, T, v)
  <2>1. v \in Vertices(m) /\ m.pi = n.pi
    BY <1>1 DEF IsLive
  <2>2. v \in T <=> Decides(m, n.pi, a, T, v)
    BY <1>2, <2>1 DEF IsTruthOn
  <2>3. CASE v \in n.pi
    BY <2>2, <2>3 DEF Decides
  <2>4. CASE v \notin n.pi
    <3>1. m.fanin[v] = n.fanin[v] /\ m.truth[v] = n.truth[v]
      BY <1>1, <2>1, <2>4 DEF IsLive, Vertices
    <3> QED BY <2>2, <2>4, <3>1 DEF Decides
  <2> QED BY <2>3, <2>4
<1> QED BY <1>3 DEF IsTruthOn, T, m

----------------------------------------------------------------------------
(* A codec that was verified computes the lines it takes the place of. *)
Encoded(T, t, r) == {b \in 1 .. r : t \in Encoder(T, b, r)}

LEMMA VerifiedTuple ==
  ASSUME NEW n, NEW g, NEW p, NEW T, Verified(n, g, p, T), NEW t \in Reachable(n, g, p)
  PROVE  \A j \in DOMAIN g : j \in t <=> Encoded(T, t, Width(Len(T))) \in Decoder(T, j, Width(Len(T)))
<1>1. t = {j \in DOMAIN g : Encoded(T, t, Width(Len(T))) \in Decoder(T, j, Width(Len(T)))}
  BY DEF Verified, Encoded
<1> QED BY <1>1

(* The two truths, of what the outputs depend on before and after *)
IsTruthPair(n, m, a, X, Y) ==
  IsTruthOn(n, n.pi, a, Feeding(n), X) /\ IsTruthOn(m, n.pi, a, Feeding(m), Y)

(* The decoder of the line in the place j, when the encoders see on the     *)
(* lines what was there before                                              *)
LEMMA DecoderKeeps ==
  ASSUME NEW n, NEW g, NEW T, IsCodec(n, g, T), NEW p, NEW q, p # q,
         GroundedOff(n, Leaves(n, p)), Verified(n, g, p, T),
         NEW m, IsCoded(m, n, g, T, q), NEW a, NEW X, NEW Y, IsTruthPair(n, m, a, X, Y),
         NEW j \in DOMAIN g, g[j] \in Feeding(n), DecoderId(n, T, j) \in Feeding(m),
         Fanins(m, DecoderId(n, T, j)) # {} => (g[j] \in Y <=> g[j] \in X)
  PROVE  DecoderId(n, T, j) \in Y <=> g[j] \in X
<1> DEFINE r == Width(Len(T))
           d == DecoderId(n, T, j)
           codes == [b \in 1 .. r |-> EncoderId(n, b)]
<1>1. /\ IsNetwork(n) /\ IsNetwork(m) /\ g \in Seq(n.node) /\ r \in Nat
      /\ \A v \in Vertices(n) : v < n.max /\ v \in Nat
      /\ \A b \in 1 .. r : EncoderId(n, b) \in m.node /\ EncoderId(n, b) \notin n.pi
      /\ d \in m.node /\ d \notin n.pi
  <2>1. IsNetwork(n) /\ g \in Seq(n.node)
    BY DEF IsCodec
  <2>2. IsNetwork(m)
    BY CodedNetwork DEF IsBipart
  <2>3. /\ r \in Nat
        /\ \A v \in Vertices(n) : v \in Nat /\ v < n.max
        /\ \A b \in 1 .. r : EncoderId(n, b) \in Encoders(n, T)
        /\ d \in Decoders(n, g, T)
    BY NewIds
  <2>4. m.node = n.node \cup Encoders(n, T) \cup Decoders(n, g, T) /\ m.pi = n.pi
    BY DEF IsCoded
  <2>5. m.pi \cap m.node = {}
    BY <2>2 DEF IsNetwork
  <2> HIDE DEF d, r
  <2> QED BY <2>1, <2>2, <2>3, <2>4, <2>5
<1>2. /\ m.truth[d] = Decoder(T, j, r)
      /\ m.fanin[d] = IF Decoder(T, j, r) = {} THEN <<>> ELSE codes
      /\ \A b \in 1 .. r : m.fanin[EncoderId(n, b)] = g /\ m.truth[EncoderId(n, b)] = Encoder(T, b, r)
  BY DEF IsCoded
<1>3. d \in Y <=> {i \in DOMAIN m.fanin[d] : m.fanin[d][i] \in Y} \in Decoder(T, j, r)
  <2>1. d \in Y <=> Decides(m, n.pi, a, Y, d)
    BY DEF IsTruthPair, IsTruthOn
  <2> HIDE DEF d
  <2> QED BY <1>1, <1>2, <2>1 DEF Decides
<1> HIDE DEF r, d
<1>4. CASE Decoder(T, j, r) = {} \/ r = 0
  <2>1. PICK t \in Reachable(n, g, p) : \A k \in DOMAIN g : g[k] \in Feeding(n) => (k \in t <=> g[k] \in X)
    <3>1. Feeding(n) \in SUBSET Vertices(n) /\ \A v \in Feeding(n) : Fanins(n, v) \subseteq Feeding(n)
      BY <1>1, FeedingIs
    <3>2. ASSUME NEW v \in Feeding(n), ~IsLeaf(n, v, p)
          PROVE  v \in X <=> {i \in DOMAIN n.fanin[v] : n.fanin[v][i] \in X} \in n.truth[v]
      <4>1. v \in X <=> Decides(n, n.pi, a, X, v)
        BY DEF IsTruthPair, IsTruthOn
      <4>2. v \notin n.pi
        BY <3>2 DEF IsLeaf
      <4> QED BY <4>1, <4>2 DEF Decides
    <3>3. IsTruthInCone(n, p, Feeding(n), X)
      BY <3>1, <3>2 DEF IsTruthInCone
    <3> QED BY <1>1, <3>3, TupleSeen
  <2>2. j \in t <=> g[j] \in X
    BY <2>1
  <2>3. j \in t <=> Encoded(T, t, r) \in Decoder(T, j, r)
    BY <2>1, VerifiedTuple DEF r
  <2>4. r = 0 => Encoded(T, t, r) = {}
    BY DEF Encoded
  <2>5. {i \in DOMAIN m.fanin[d] : m.fanin[d][i] \in Y} = {}
    <3>1. DOMAIN m.fanin[d] = {}
      BY <1>2, <1>4
    <3> QED BY <3>1
  <2> QED BY <1>3, <1>4, <2>2, <2>3, <2>4, <2>5 DEF d
<1>5. CASE Decoder(T, j, r) # {} /\ r # 0
  <2>1. m.fanin[d] = codes
    BY <1>2, <1>5
  <2>2. \A b \in 1 .. r : EncoderId(n, b) \in Fanins(m, d)
    BY <1>1, <2>1 DEF Fanins, ToSet
  <2>3. 1 \in 1 .. r
    BY <1>1, <1>5
  <2>4. Feeding(m) \subseteq Vertices(m) /\ \A v \in Feeding(m) : Fanins(m, v) \subseteq Feeding(m)
    BY <1>1, FeedingIs
  <2>5. \A b \in 1 .. r : EncoderId(n, b) \in Feeding(m)
    BY <2>2, <2>4 DEF d
  <2>6. \A k \in DOMAIN g : g[k] \in Feeding(m)
    <3>1. \A k \in DOMAIN g : g[k] \in Fanins(m, EncoderId(n, 1))
      BY <1>1, <1>2, <2>3 DEF Fanins, ToSet
    <3> QED BY <2>3, <2>4, <2>5, <3>1
  <2>7. PICK t \in Reachable(n, g, p) : \A k \in DOMAIN g : k \in t <=> g[k] \in Y
    <3> DEFINE S == Feeding(m) \cap Vertices(n)
    <3>1. ASSUME NEW v \in S, ~IsLeaf(n, v, p)
          PROVE  /\ Fanins(n, v) \subseteq S
                 /\ v \in Y <=> {i \in DOMAIN n.fanin[v] : n.fanin[v][i] \in Y} \in n.truth[v]
      <4>1. v \in n.node /\ v \in m.node /\ v \notin n.pi
        BY <3>1 DEF IsLeaf, Vertices, IsCoded
      <4>2. v \in Y <=> {i \in DOMAIN m.fanin[v] : m.fanin[v][i] \in Y} \in m.truth[v]
        <5>1. v \in Y <=> Decides(m, n.pi, a, Y, v)
          BY DEF IsTruthPair, IsTruthOn
        <5> QED BY <4>1, <5>1 DEF Decides
      <4>3. m.truth[v] = n.truth[v]
        BY <4>1 DEF IsCoded
      <4>4. m.fanin[v] = n.fanin[v]
        <5>1. CASE n.part[v] # q
          BY <4>1, <5>1 DEF IsCoded
        <5>2. CASE n.part[v] = q
          <6>1. n.fanin[v] = <<>>
            BY <3>1, <5>2 DEF IsLeaf
          <6>2. m.fanin[v] \in Seq(Vertices(m)) /\ DOMAIN m.fanin[v] = DOMAIN n.fanin[v]
            BY <4>1, <5>2 DEF IsCoded
          <6> DEFINE s == m.fanin[v]
          <6>3. s \in Seq(Vertices(m)) /\ DOMAIN s = {}
            BY <6>1, <6>2
          <6> HIDE DEF s
          <6>4. s = <<>>
            BY <6>3
          <6> QED BY <6>1, <6>4 DEF s
        <5> QED BY <5>1, <5>2
      <4>5. Fanins(m, v) = Fanins(n, v)
        BY <4>1, <4>4 DEF Fanins
      <4>6. Fanins(n, v) \subseteq Vertices(n)
        BY <1>1, FaninsRead
      <4> QED BY <2>4, <4>2, <4>3, <4>4, <4>5, <4>6
    <3>2. S \in SUBSET Vertices(n)
      OBVIOUS
    <3>3. \A k \in DOMAIN g : g[k] \in S
      <4>1. \A k \in DOMAIN g : g[k] \in n.node
        BY <1>1
      <4> QED BY <2>6, <4>1 DEF Vertices
    <3> HIDE DEF S
    <3>4. IsTruthInCone(n, p, S, Y)
      BY <3>1, <3>2 DEF IsTruthInCone
    <3>5. \E t \in Reachable(n, g, p) : \A k \in DOMAIN g : g[k] \in S => (k \in t <=> g[k] \in Y)
      BY <1>1, <3>4, TupleSeen
    <3> QED BY <3>3, <3>5
  <2>8. t = {k \in DOMAIN g : g[k] \in Y}
    <3>1. t \subseteq DOMAIN g
      BY DEF Reachable
    <3> QED BY <2>7, <3>1
  <2>9. ASSUME NEW b \in 1 .. r PROVE EncoderId(n, b) \in Y <=> b \in Encoded(T, t, r)
    <3> DEFINE e == EncoderId(n, b)
    <3>1. e \in Y <=> Decides(m, n.pi, a, Y, e)
      BY <2>5 DEF IsTruthPair, IsTruthOn
    <3>2. e \in Y <=> {k \in DOMAIN g : g[k] \in Y} \in Encoder(T, b, r)
      BY <1>1, <1>2, <3>1 DEF Decides
    <3> QED BY <2>8, <3>2 DEF Encoded
  <2>10. {i \in DOMAIN m.fanin[d] : m.fanin[d][i] \in Y} = Encoded(T, t, r)
    <3>1. DOMAIN codes = 1 .. r /\ \A b \in 1 .. r : codes[b] = EncoderId(n, b)
      OBVIOUS
    <3>2. Encoded(T, t, r) \subseteq 1 .. r
      BY DEF Encoded
    <3> HIDE DEF codes
    <3> QED BY <2>1, <2>9, <3>1, <3>2
  <2>11. j \in t <=> Encoded(T, t, r) \in Decoder(T, j, r)
    BY <2>7, VerifiedTuple DEF r
  <2>12. g[j] \in Y <=> g[j] \in X
    BY <2>2, <2>3 DEF d
  <2> QED BY <1>3, <2>7, <2>10, <2>11, <2>12 DEF d
<1> QED BY <1>4, <1>5 DEF d

(* Everything the outputs depend on before and after is as true after as    *)
(* before, from the inputs up; the decoders are as true as their lines.     *)
LEMMA CodecTruth ==
  ASSUME NEW n, NEW g, NEW T, IsCodec(n, g, T), NEW p, NEW q, p # q,
         GroundedOff(n, Leaves(n, p)), Verified(n, g, p, T),
         NEW m, IsCoded(m, n, g, T, q), Feeding(m) \subseteq Ordered(m),
         NEW a, NEW X, NEW Y, IsTruthPair(n, m, a, X, Y)
  PROVE  \A v \in Feeding(m) : v \in Feeding(n) => (v \in Y <=> v \in X)
<1> DEFINE N == Feeding(n)
           M == Feeding(m)
           l == Live(m)
           D == Below(l, l.pi)
           Agrees(v) == v \in N => (v \in Y <=> v \in X)
           ReadsRight(v) == v \in Encoders(n, T) => \A j \in DOMAIN g : g[j] \in N => (g[j] \in Y <=> g[j] \in X)
           Decodes(v) == \A j \in DOMAIN g : v = DecoderId(n, T, j) /\ g[j] \in N => (v \in Y <=> g[j] \in X)
           I == {v \in Vertices(l) : v \in M => Agrees(v) /\ ReadsRight(v) /\ Decodes(v)}
<1>1. /\ IsNetwork(n) /\ IsNetwork(m) /\ g \in Seq(n.node)
      /\ m.pi = n.pi /\ m.node = n.node \cup Encoders(n, T) \cup Decoders(n, g, T)
  <2>1. IsBipart(m)
    BY CodedNetwork
  <2> QED BY <2>1 DEF IsBipart, IsCodec, IsCoded
<1>2. /\ N \subseteq Vertices(n) /\ \A v \in N : Fanins(n, v) \subseteq N
      /\ M \subseteq Vertices(m) /\ \A v \in M : Fanins(m, v) \subseteq M
  BY <1>1, FeedingIs
<1>3. IsLive(l, m) /\ IsNetwork(l) /\ Acyclic(l)
  BY <1>1, LiveIs, LiveAcyclic
<1>4. Grounded(Vertices(l), D)
  <2>1. GroundedOff(l, l.pi)
    BY <1>3 DEF GroundedOff, Acyclic, Vertices
  <2> HIDE DEF l
  <2> QED BY <1>3, <2>1, BelowGrounded
<1>5. \A v \in M : v \in Vertices(l) /\ (v \notin n.pi => D[v] = Fanins(m, v))
  BY <1>1, <1>2, <1>3 DEF IsLive, Below, Vertices
<1>6. \A v \in Encoders(n, T) \cup Decoders(n, g, T) : v \notin Vertices(n)
  BY NewIds
<1> HIDE DEF l, D, N, M
<1>7. ASSUME NEW v \in M, v \notin n.pi, D[v] \subseteq I
      PROVE  \A u \in Fanins(m, v) : u \in M /\ Agrees(u) /\ ReadsRight(u) /\ Decodes(u)
  BY <1>2, <1>5, <1>7
<1> HIDE DEF I
<1>8. ASSUME NEW v \in M, D[v] \subseteq I PROVE Agrees(v)
  <2> SUFFICES ASSUME v \in N PROVE v \in Y <=> v \in X
    OBVIOUS
  <2>1. /\ v \in X <=> Decides(n, n.pi, a, X, v)
        /\ v \in Y <=> Decides(m, n.pi, a, Y, v)
    BY DEF IsTruthPair, IsTruthOn, N, M
  <2>2. CASE v \in n.pi
    BY <2>1, <2>2 DEF Decides
  <2>3. CASE v \notin n.pi
    <3>1. v \in n.node /\ v \in m.node
      BY <1>1, <1>2, <2>3 DEF Vertices
    <3>2. \A u \in Fanins(m, v) : Agrees(u) /\ Decodes(u)
      BY <1>7, <1>8, <2>3
    <3>3. m.truth[v] = n.truth[v]
      BY <3>1 DEF IsCoded
    <3>4. /\ DOMAIN m.fanin[v] = DOMAIN n.fanin[v]
          /\ \A i \in DOMAIN n.fanin[v] :
               \/ m.fanin[v][i] = n.fanin[v][i]
               \/ \E j \in DOMAIN g : g[j] = n.fanin[v][i] /\ m.fanin[v][i] = DecoderId(n, T, j)
      <4>1. CASE n.part[v] = q
        BY <3>1, <4>1 DEF IsCoded
      <4>2. CASE n.part[v] # q
        BY <3>1, <4>2 DEF IsCoded
      <4> QED BY <4>1, <4>2
    <3>5. ASSUME NEW i \in DOMAIN n.fanin[v]
          PROVE  m.fanin[v][i] \in Y <=> n.fanin[v][i] \in X
      <4> DEFINE u == n.fanin[v][i]
                 w == m.fanin[v][i]
      <4>1. u \in N /\ w \in Fanins(m, v)
        BY <1>1, <1>2, <3>1, <3>4, FaninsRead
      <4>2. Agrees(w) /\ Decodes(w)
        BY <3>2, <4>1
      <4>3. w = u \/ \E j \in DOMAIN g : g[j] = u /\ w = DecoderId(n, T, j)
        BY <3>4
      <4> HIDE DEF u, w
      <4>4. w \in Y <=> u \in X
        BY <4>1, <4>2, <4>3
      <4> QED BY <4>4 DEF u, w
    <3>6. {i \in DOMAIN m.fanin[v] : m.fanin[v][i] \in Y} = {i \in DOMAIN n.fanin[v] : n.fanin[v][i] \in X}
      BY <3>4, <3>5
    <3> QED BY <2>1, <2>3, <3>3, <3>6 DEF Decides
  <2> QED BY <2>2, <2>3
<1>9. ASSUME NEW v \in M, D[v] \subseteq I PROVE ReadsRight(v)
  <2> SUFFICES ASSUME v \in Encoders(n, T), NEW j \in DOMAIN g, g[j] \in N
               PROVE  g[j] \in Y <=> g[j] \in X
    OBVIOUS
  <2>1. v \notin n.pi /\ Fanins(m, v) = ToSet(g)
    BY <1>6, CodedFanins DEF Vertices
  <2>2. g[j] \in Fanins(m, v)
    BY <2>1 DEF ToSet
  <2> QED BY <1>7, <1>9, <2>1, <2>2
<1>10. ASSUME NEW v \in M, D[v] \subseteq I PROVE Decodes(v)
  <2> SUFFICES ASSUME NEW j \in DOMAIN g, v = DecoderId(n, T, j), g[j] \in N
               PROVE  v \in Y <=> g[j] \in X
    OBVIOUS
  <2>1. v \in Decoders(n, g, T)
    BY NewIds
  <2>2. v \notin n.pi /\ Fanins(m, v) \subseteq Encoders(n, T)
    BY <1>6, <2>1, CodedFanins DEF Vertices
  <2>3. Fanins(m, v) # {} => (g[j] \in Y <=> g[j] \in X)
    <3> SUFFICES ASSUME NEW e \in Fanins(m, v) PROVE g[j] \in Y <=> g[j] \in X
      OBVIOUS
    <3>1. ReadsRight(e)
      BY <1>7, <1>10, <2>2
    <3> QED BY <2>2, <3>1
  <2> QED BY <2>3, DecoderKeeps DEF N, M
<1>11. \A v \in Vertices(l) : D[v] \subseteq I => v \in I
  BY <1>8, <1>9, <1>10 DEF I
<1>12. Vertices(l) \subseteq I
  BY <1>4, <1>11, FromBelow
<1> QED BY <1>5, <1>12 DEF I, N, M

LEMMA CodecKeeps ==
  ASSUME NEW n, NEW g, NEW T, IsCodec(n, g, T), NEW p, NEW q, p # q,
         GroundedOff(n, Leaves(n, p)), Verified(n, g, p, T), Feeding(n) \subseteq Ordered(n),
         NEW m, IsCoded(m, n, g, T, q), Feeding(m) \subseteq Ordered(m)
  PROVE  Outputs(Live(m)) = Outputs(Live(n))
<1> DEFINE k == Live(n)
           l == Live(m)
<1>1. IsNetwork(n) /\ IsNetwork(m) /\ m.pi = n.pi /\ m.po = n.po
  <2>1. IsBipart(m)
    BY CodedNetwork
  <2> QED BY <2>1 DEF IsBipart, IsCodec, IsCoded
<1>2. k.pi = n.pi /\ k.po = n.po /\ l.pi = n.pi /\ l.po = n.po
  BY <1>1, LiveIs DEF IsLive
<1>3. ASSUME NEW a, NEW o \in DOMAIN n.po
      PROVE  n.po[o] \in TrueAt(l, a) <=> n.po[o] \in TrueAt(k, a)
  <2>1. IsTruthPair(n, m, a, TrueAt(k, a), TrueAt(l, a))
    <3>1. IsTruthOn(n, n.pi, a, Feeding(n), TrueAt(k, a))
      BY <1>1, LiveTruth
    <3>2. IsTruthOn(m, m.pi, a, Feeding(m), TrueAt(l, a))
      BY <1>1, LiveTruth
    <3> QED BY <1>1, <3>1, <3>2 DEF IsTruthPair
  <2>2. n.po[o] \in Feeding(n) /\ n.po[o] \in Feeding(m)
    BY <1>1, FeedingIs
  <2> HIDE DEF k, l
  <2> QED BY <2>1, <2>2, CodecTruth
<1> HIDE DEF k, l
<1>4. \A o \in DOMAIN n.po : {a \in SUBSET n.pi : n.po[o] \in TrueAt(l, a)} =
                             {a \in SUBSET n.pi : n.po[o] \in TrueAt(k, a)}
  BY <1>3
<1>5. Outputs(k) = [o \in DOMAIN n.po |-> {a \in SUBSET n.pi : n.po[o] \in TrueAt(k, a)}]
  BY <1>2 DEF Outputs
<1>6. Outputs(l) = [o \in DOMAIN n.po |-> {a \in SUBSET n.pi : n.po[o] \in TrueAt(l, a)}]
  BY <1>2 DEF Outputs
<1> QED BY <1>4, <1>5, <1>6 DEF k, l

(* Without cycles, what the outputs depend on is enough. *)
LEMMA LiveOutputs ==
  ASSUME NEW n, IsNetwork(n), Acyclic(n)
  PROVE  Outputs(Live(n)) = Outputs(n)
<1> DEFINE k == Live(n)
<1>1. k.pi = n.pi /\ k.po = n.po
  BY LiveIs DEF IsLive
<1>2. ASSUME NEW a, NEW o \in DOMAIN n.po
      PROVE  n.po[o] \in TrueAt(k, a) <=> n.po[o] \in TrueAt(n, a)
  <2> DEFINE S == Feeding(n)
             L == n.pi
             U == TrueAt(k, a)
             W == TrueAt(n, a)
  <2>1. IsTruthOn(n, L, a, S, U)
    BY AcyclicOrdered, LiveTruth
  <2>2. IsTruthOn(n, L, a, S, W)
    <3>1. IsTruthOn(n, L, a, Vertices(n), W)
      BY TruthIs
    <3>2. S \subseteq Vertices(n)
      BY FeedingIs
    <3> QED BY <3>1, <3>2 DEF IsTruthOn
  <2>3. ClosedOff(n, L, S) /\ n.po[o] \in S
    BY FeedingIs DEF ClosedOff
  <2>4. GroundedOff(n, L)
    BY DEF GroundedOff, Acyclic, Vertices
  <2> HIDE DEF S, L, U, W
  <2>5. n.po[o] \in U <=> n.po[o] \in W
    BY <2>1, <2>2, <2>3, <2>4, TruthsAgree
  <2> QED BY <2>5 DEF U, W
<1> HIDE DEF k
<1>3. \A o \in DOMAIN n.po : {a \in SUBSET n.pi : n.po[o] \in TrueAt(k, a)} =
                             {a \in SUBSET n.pi : n.po[o] \in TrueAt(n, a)}
  BY <1>2
<1>4. Outputs(k) = [o \in DOMAIN n.po |-> {a \in SUBSET n.pi : n.po[o] \in TrueAt(k, a)}]
  BY <1>1 DEF Outputs
<1>5. Outputs(n) = [o \in DOMAIN n.po |-> {a \in SUBSET n.pi : n.po[o] \in TrueAt(n, a)}]
  BY DEF Outputs
<1> QED BY <1>3, <1>4, <1>5 DEF k

(* In each part, taken by itself, nothing depends on a cycle. *)
PartsGrounded(n) == \A x \in {0, 1} : GroundedOff(n, Leaves(n, x))

LEMMA AcyclicParts ==
  ASSUME NEW n, IsNetwork(n), Acyclic(n)
  PROVE  PartsGrounded(n)
<1> SUFFICES ASSUME NEW x \in {0, 1} PROVE GroundedOff(n, Leaves(n, x))
  BY DEF PartsGrounded
<1>1. n.pi \subseteq Leaves(n, x)
  BY DEF Leaves, IsLeaf, Vertices
<1>2. ASSUME NEW S \in SUBSET (Vertices(n) \ Leaves(n, x)), S # {}
      PROVE  \E v \in S : Fanins(n, v) \cap S = {}
  BY <1>1, <1>2 DEF Acyclic, Vertices
<1> QED BY <1>1, <1>2 DEF GroundedOff

LEMMA TaggedGrounded ==
  ASSUME NEW n, NEW g, NEW T, IsCodec(n, g, T), NEW p \in {0, 1}, NEW q \in {0, 1}, p # q,
         PartsGrounded(n), NEW m, IsCoded(m, n, g, T, q), NEW k, IsTagged(k, m, n, g, T, p, q)
  PROVE  PartsGrounded(k)
<1> DEFINE E == Encoders(n, T)
           D == Decoders(n, g, T)
<1>1. /\ IsNetwork(n) /\ IsNetwork(k) /\ k.pi = n.pi /\ k.node = n.node \cup E \cup D
      /\ ToSet(g) \subseteq n.node /\ n.pi \cap n.node = {}
  <2>1. IsNetwork(n) /\ g \in Seq(n.node)
    BY DEF IsCodec
  <2>2. IsBipart(k)
    BY DEF IsTagged
  <2>3. IsNetwork(k)
    BY <2>2 DEF IsBipart
  <2>4. k.pi = n.pi /\ k.node = n.node \cup E \cup D
    BY DEF IsTagged, IsCoded
  <2>5. ToSet(g) \subseteq n.node
    BY <2>1 DEF ToSet
  <2>6. n.pi \cap n.node = {}
    BY <2>1 DEF IsNetwork
  <2> QED BY <2>1, <2>3, <2>4, <2>5, <2>6
<1>2. /\ \A v \in E : k.part[v] = p
      /\ \A v \in D : k.part[v] = q
      /\ \A v \in Vertices(n) : k.part[v] = n.part[v]
  BY DEF IsTagged
<1>3. \A v : Fanins(k, v) = Fanins(m, v)
  BY DEF Fanins, IsTagged
<1>4. /\ \A v \in n.node : n.part[v] # q => Fanins(k, v) = Fanins(n, v)
      /\ \A v \in n.node : n.part[v] = q => \A u \in Vertices(n) : u \in Fanins(k, v) => u \in Fanins(n, v)
      /\ \A v \in E : Fanins(k, v) = ToSet(g)
      /\ \A v \in D : Fanins(k, v) \subseteq E
  BY <1>3, CodedFanins
<1>5. \A v \in E \cup D : v \notin Vertices(n)
  BY NewIds
<1> HIDE DEF E, D
<1>6. ASSUME NEW x \in {0, 1}, NEW S \in SUBSET (Vertices(k) \ Leaves(k, x)), S # {}
      PROVE  \E v \in S : Fanins(k, v) \cap S = {}
  <2> SUFFICES ASSUME \A v \in S : Fanins(k, v) \cap S # {} PROVE FALSE
    OBVIOUS
  <2>1. \A v \in S : v \in k.node /\ k.part[v] = x
    <3> SUFFICES ASSUME NEW v \in S PROVE v \in k.node /\ k.part[v] = x
      OBVIOUS
    <3>1. ~IsLeaf(k, v, x) /\ v \in Vertices(k)
      BY <1>6 DEF Leaves
    <3>2. v \in k.node
      BY <3>1 DEF IsLeaf, Vertices
    <3>3. CASE k.fanin[v] = <<>>
      <4>1. Fanins(k, v) = {}
        BY <3>2, <3>3 DEF Fanins, ToSet
      <4> QED BY <4>1
    <3> QED BY <3>1, <3>2, <3>3 DEF IsLeaf
  <2> DEFINE O == S \cap n.node
  <2>2. O \in SUBSET (Vertices(n) \ Leaves(n, x))
    <3> SUFFICES ASSUME NEW v \in O PROVE v \in Vertices(n) /\ v \notin Leaves(n, x)
      OBVIOUS
    <3>1. v \in Vertices(n) /\ n.part[v] = x /\ v \notin n.pi
      BY <1>1, <1>2, <2>1 DEF Vertices
    <3> QED BY <3>1 DEF Leaves, IsLeaf
  <2>3. O # {} => \E v \in O : Fanins(n, v) \cap O = {}
    BY <2>2 DEF PartsGrounded, GroundedOff
  <2>4. S \subseteq O \cup E \cup D /\ S \cap Vertices(n) = O
    <3>1. S \subseteq k.node
      BY <2>1
    <3> QED BY <1>1, <1>5, <3>1 DEF Vertices
  <2>5. CASE x = p
    <3>1. S \cap D = {}
      BY <1>2, <2>1, <2>5
    <3>2. CASE O = {}
      <4>1. PICK v \in S : v \in E
        BY <1>6, <2>4, <3>1, <3>2
      <4>2. Fanins(k, v) \cap S = {}
        BY <1>1, <1>4, <3>2, <4>1
      <4> QED BY <4>2
    <3>3. CASE O # {}
      <4>1. PICK v \in O : Fanins(n, v) \cap O = {}
        BY <2>3, <3>3
      <4>2. n.part[v] # q
        BY <1>2, <2>1, <2>4, <2>5, <4>1
      <4>3. Fanins(k, v) = Fanins(n, v) /\ Fanins(n, v) \subseteq Vertices(n)
        BY <1>1, <1>4, <4>2, FaninsRead
      <4> QED BY <2>4, <4>1, <4>3
    <3> QED BY <3>2, <3>3
  <2>6. CASE x = q
    <3>1. S \cap E = {}
      BY <1>2, <2>1, <2>6
    <3>2. S \cap D = {}
      <4> SUFFICES ASSUME NEW v \in S \cap D PROVE FALSE
        OBVIOUS
      <4>1. Fanins(k, v) \subseteq E
        BY <1>4
      <4> QED BY <3>1, <4>1
    <3>3. S = O
      BY <2>4, <3>1, <3>2
    <3>4. PICK v \in O : Fanins(n, v) \cap O = {}
      BY <1>6, <2>3, <3>3
    <3>5. n.part[v] = q
      BY <1>2, <2>1, <2>4, <2>6
    <3>6. Fanins(k, v) \cap O = {}
      BY <1>4, <2>4, <3>4, <3>5
    <3> QED BY <3>3, <3>6
  <2> QED BY <2>5, <2>6
<1>7. ASSUME NEW x \in {0, 1} PROVE k.pi \subseteq Leaves(k, x)
  BY DEF Leaves, IsLeaf, Vertices
<1> QED BY <1>6, <1>7 DEF PartsGrounded, GroundedOff

(* What does not depend on numbers or parts *)
SameLogic(m, n) ==
  m.pi = n.pi /\ m.node = n.node /\ m.fanin = n.fanin /\ m.truth = n.truth /\ m.po = n.po

LEMMA LogicWithin ==
  ASSUME NEW n, IsNetwork(n), NEW m, IsNetwork(m), SameLogic(m, n)
  PROVE  Feeding(n) \subseteq Feeding(m) /\ Ordered(n) \subseteq Ordered(m)
<1>1. m.pi = n.pi /\ m.node = n.node /\ m.po = n.po /\ Vertices(m) = Vertices(n)
  BY DEF SameLogic, Vertices
<1>2. \A v : Fanins(m, v) = Fanins(n, v)
  BY DEF SameLogic, Fanins
<1>3. Feeding(n) \subseteq Feeding(m)
  <2> DEFINE C == Feeding(m)
  <2>1. (\A o \in DOMAIN n.po : n.po[o] \in C) /\ (\A v \in C : Fanins(n, v) \subseteq C)
    BY <1>1, <1>2, FeedingIs
  <2> HIDE DEF C
  <2>2. Feeding(n) \subseteq C
    BY <2>1, FeedingIs
  <2> QED BY <2>2 DEF C
<1>4. Ordered(n) \subseteq Ordered(m)
  <2> DEFINE B == n.node \ Ordered(m)
  <2>1. ASSUME NEW v \in B PROVE Fanins(n, v) \cap B # {}
    <3> SUFFICES ASSUME Fanins(n, v) \cap B = {} PROVE FALSE
      OBVIOUS
    <3>1. Fanins(n, v) \subseteq Vertices(n)
      BY FaninsRead
    <3>2. Fanins(m, v) \subseteq Ordered(m)
      BY <1>1, <1>2, <3>1, OrderedIs DEF Vertices
    <3> QED BY <1>1, <3>2, OrderedIs
  <2>2. B \in SUBSET n.node
    OBVIOUS
  <2> HIDE DEF B
  <2>3. Ordered(n) \cap B = {}
    BY <2>1, <2>2, OrderedIs
  <2>4. Ordered(n) \subseteq Vertices(n) /\ n.pi \subseteq Ordered(m)
    BY <1>1, OrderedIs
  <2> QED BY <2>3, <2>4 DEF B, Vertices
<1> QED BY <1>3, <1>4

LEMMA LogicSame ==
  ASSUME NEW n, IsNetwork(n), NEW m, IsNetwork(m), SameLogic(m, n)
  PROVE  /\ Feeding(m) = Feeding(n) /\ Ordered(m) = Ordered(n)
         /\ Outputs(Live(m)) = Outputs(Live(n))
<1> DEFINE k == Live(n)
           l == Live(m)
<1>1. /\ m.pi = n.pi /\ m.node = n.node /\ m.fanin = n.fanin /\ m.truth = n.truth /\ m.po = n.po
      /\ Vertices(m) = Vertices(n) /\ SameLogic(n, m)
  BY DEF SameLogic, Vertices
<1>2. \A v : Fanins(m, v) = Fanins(n, v)
  BY <1>1 DEF Fanins
<1>3. Feeding(m) = Feeding(n) /\ Ordered(m) = Ordered(n)
  <2>1. Feeding(n) \subseteq Feeding(m) /\ Ordered(n) \subseteq Ordered(m)
    BY LogicWithin
  <2>2. Feeding(m) \subseteq Feeding(n) /\ Ordered(m) \subseteq Ordered(n)
    BY <1>1, LogicWithin
  <2> QED BY <2>1, <2>2
<1>5. IsLive(k, n) /\ IsNetwork(k) /\ IsLive(l, m) /\ IsNetwork(l)
  BY LiveIs
<1> HIDE DEF k, l
<1>6. l.pi = k.pi /\ l.po = k.po /\ l.node = k.node /\ Vertices(l) = Vertices(k)
  BY <1>1, <1>3, <1>5 DEF IsLive, Vertices
<1>7. /\ k.fanin = [v \in k.node |-> k.fanin[v]] /\ l.fanin = [v \in l.node |-> l.fanin[v]]
      /\ k.truth = [v \in k.node |-> k.truth[v]] /\ l.truth = [v \in l.node |-> l.truth[v]]
  BY <1>5 DEF IsNetwork
<1>8. l.fanin = k.fanin /\ l.truth = k.truth
  <2>1. \A v \in k.node : l.fanin[v] = k.fanin[v] /\ l.truth[v] = k.truth[v]
    BY <1>1, <1>5, <1>6 DEF IsLive
  <2> QED BY <1>6, <1>7, <2>1
<1>9. \A a : TrueAt(l, a) = TrueAt(k, a)
  BY <1>6, <1>8 DEF TrueAt
<1>10. Outputs(l) = Outputs(k)
  BY <1>6, <1>9 DEF Outputs
<1> QED BY <1>3, <1>10 DEF k, l

LEMMA CircuitLogic ==
  ASSUME NEW n, IsNetwork(n), NEW m, IsNetwork(m), Circuit(m) = Circuit(n)
  PROVE  SameLogic(m, n) /\ (PartsGrounded(n) => PartsGrounded(m))
<1>1. DOMAIN n = Fields /\ DOMAIN m = Fields
  BY NetworkFields
<1>2. \A x \in Fields \ {"max"} : m[x] = Circuit(m)[x] /\ n[x] = Circuit(n)[x]
  BY <1>1 DEF Circuit
<1>3. /\ m.pi = n.pi /\ m.node = n.node /\ m.fanin = n.fanin /\ m.part = n.part
      /\ m.truth = n.truth /\ m.po = n.po
  BY <1>2 DEF Fields
<1>4. Vertices(m) = Vertices(n) /\ \A v : Fanins(m, v) = Fanins(n, v)
  BY <1>3 DEF Vertices, Fanins
<1>5. \A x : Leaves(m, x) = Leaves(n, x)
  BY <1>3, <1>4 DEF Leaves, IsLeaf
<1> QED BY <1>3, <1>4, <1>5 DEF SameLogic, PartsGrounded, GroundedOff

----------------------------------------------------------------------------
(* The network that the groups were formed of: while a codec is on trial,   *)
(* the one before it.                                                       *)
Base == IF step = "check" THEN before ELSE net

StateTyped ==
  /\ IsBipart(Base) /\ IsBipart(first)
  /\ cfg \in Configs /\ src \in {0, 1} /\ saved \in Nat
  /\ step \in {"collect", "group", "count", "verify", "check", "done"}
  /\ cut = [now |-> cut.now, entry |-> cut.entry] /\ cut.now \in Nat \cup {-1}

(* The lines of the groups that are left still cross; the tuples are        *)
(* different ones of the group's, as many as there are when it counts; and  *)
(* what is on trial is the codec of all of them.                            *)
Listing == step \in {"count", "verify", "check"}

GroupsInv ==
  /\ IsGrouping(groups, Crossing(Base, src), cfg.lines)
  /\ Listing => groups # <<>>

TuplesInv ==
  /\ ~Listing => tuples = <<>>
  /\ Listing => /\ tuples \in Seq(SUBSET DOMAIN Group) /\ IsInjective(tuples)
                /\ Len(tuples) <= Cap(Group)
  /\ step = "verify" => ToSet(tuples) = Reachable(net, Group, src)
  /\ step = "check" => /\ net = Coded(before, Group, tuples, Other)
                       /\ ToSet(tuples) = Reachable(before, Group, src)

SavedInv ==
  /\ Lines(first) = saved + Lines(Base)
  /\ saved = 0 => Circuit(Base) = Circuit(first)
  /\ cut.entry \in {-1, CutNets(first)}
  /\ step = "done" => cut.now \in {-1, CutNets(net)}

IInv == StateTyped /\ GroupsInv /\ TuplesInv /\ SavedInv

LEMMA LinesNat ==
  ASSUME NEW n, IsBipart(n)
  PROVE  Lines(n) \in Nat
<1>1. Cardinality(Crossing(n, 0)) \in Nat /\ Cardinality(Crossing(n, 1)) \in Nat
  BY CrossingFinite DEF IsBipart
<1> QED BY <1>1 DEF Lines

LEMMA InitHolds == Init => IInv
<1> SUFFICES ASSUME Init PROVE IInv
  OBVIOUS
<1>1. /\ net \in Networks /\ first = net /\ before = net /\ cfg \in Configs
      /\ src = 0 /\ step = "collect" /\ groups = <<>> /\ tuples = <<>> /\ saved = 0
  BY DEF Init
<1>2. PICK c \in {-1, CutNets(net)} : cut = [now |-> c, entry |-> c]
  BY DEF Init
<1>3. IsBipart(net) /\ Base = net
  BY <1>1, NetworksAssumption DEF IsBipart, Base
<1>4. CutNets(net) \in Nat
  BY <1>3, CutsTyped DEF IsBipart
<1>5. StateTyped
  BY <1>1, <1>2, <1>3, <1>4 DEF StateTyped
<1>6. GroupsInv /\ TuplesInv
  BY <1>1, EmptyGrouping DEF GroupsInv, TuplesInv, Listing
<1>7. SavedInv
  <2>1. Lines(net) \in Nat
    BY <1>3, LinesNat
  <2> QED BY <1>1, <1>2, <1>3, <2>1 DEF SavedInv
<1> QED BY <1>5, <1>6, <1>7 DEF IInv

(* What is known of the group at hand *)
LEMMA AtHand ==
  ASSUME IInv, Listing
  PROVE  /\ IsCodec(Base, Group, tuples)
         /\ ToSet(Group) \subseteq Crossing(Base, src) /\ Len(Group) \in Nat \ {0}
         /\ Cap(Group) \in Nat
         /\ Width(Len(tuples)) \in Nat /\ Width(Len(tuples)) < Len(Group)
<1>1. IsBipart(Base) /\ cfg.lines \in Nat
  BY ConfigsAssumption DEF IInv, StateTyped
<1>2. IsGrouping(groups, Crossing(Base, src), cfg.lines) /\ groups # <<>>
  BY DEF IInv, GroupsInv
<1>3. /\ Group \in Seq(Crossing(Base, src)) /\ Len(Group) \in Nat \ {0}
      /\ ToSet(Group) \subseteq Crossing(Base, src)
      /\ \A i, j \in DOMAIN Group : Group[i] = Group[j] => i = j
  BY <1>1, <1>2, HeadLines DEF Group
<1>4. tuples \in Seq(SUBSET DOMAIN Group) /\ IsInjective(tuples) /\ Len(tuples) <= Cap(Group)
  BY DEF IInv, TuplesInv
<1>5. Group \in Seq(Base.node)
  <2>1. Crossing(Base, src) \subseteq Base.node
    BY DEF Crossing
  <2> QED BY <1>3, <2>1
<1>6. IsCodec(Base, Group, tuples)
  BY <1>1, <1>3, <1>4, <1>5 DEF IsCodec, IsBipart, IsInjective
<1>7. Len(Group) - 1 \in Nat /\ Len(tuples) \in Nat
  BY <1>3, <1>4
<1>8. Cap(Group) \in Nat
  BY <1>7, PowerOfTwo DEF Cap
<1>9. Width(Len(tuples)) \in Nat /\ Width(Len(tuples)) <= Len(Group) - 1
  BY <1>4, <1>7, WidthIs DEF Cap
<1> DEFINE w == Width(Len(tuples))
           l == Len(Group)
<1>10. w < l
  <2>1. w \in Nat /\ l \in Nat /\ w <= l - 1
    BY <1>3, <1>9
  <2> HIDE DEF w, l
  <2> QED BY <2>1
<1> QED BY <1>3, <1>6, <1>8, <1>9, <1>10

(* A group is done with, and the network is as it was. *)
LEMMA DropStep ==
  ASSUME IInv, step # "check", groups # <<>>, Drop,
         UNCHANGED <<net, cfg, src, saved, cut, first, before>>
  PROVE  IInv'
<1>1. groups' = Tail(groups) /\ tuples' = <<>> /\ step' = "group"
  BY DEF Drop
<1>2. Base = net /\ Base' = net
  BY <1>1 DEF Base
<1>3. StateTyped'
  BY <1>1, <1>2 DEF IInv, StateTyped
<1>4. GroupsInv'
  <2>1. IsGrouping(Tail(groups), Crossing(Base, src), cfg.lines)
    BY TailGrouping DEF IInv, GroupsInv
  <2> QED BY <1>1, <1>2, <2>1 DEF GroupsInv, Listing
<1>5. TuplesInv'
  BY <1>1 DEF TuplesInv, Listing
<1>6. SavedInv'
  BY <1>1, <1>2 DEF IInv, SavedInv
<1> QED BY <1>3, <1>4, <1>5, <1>6 DEF IInv

LEMMA CollectStep == ASSUME IInv, Collect PROVE IInv'
<1>1. /\ step = "collect" /\ step' = "group" /\ groups' = LineGroups(net, src, cfg)
      /\ UNCHANGED <<net, cfg, src, tuples, saved, cut, first, before>>
  BY DEF Collect
<1>2. Base = net /\ Base' = net
  BY <1>1 DEF Base
<1>3. StateTyped'
  BY <1>1, <1>2 DEF IInv, StateTyped
<1>4. GroupsInv'
  <2>1. IsNetwork(net) /\ cfg.lines \in Nat \ {0}
    BY <1>2, ConfigsAssumption DEF IInv, StateTyped, IsBipart
  <2>2. IsGrouping(groups', Crossing(net, src), cfg.lines)
    BY <1>1, <2>1, GroupsWell
  <2> QED BY <1>1, <1>2, <2>2 DEF GroupsInv, Listing
<1>5. TuplesInv'
  BY <1>1 DEF IInv, TuplesInv, Listing
<1>6. SavedInv'
  BY <1>1, <1>2 DEF IInv, SavedInv
<1> QED BY <1>3, <1>4, <1>5, <1>6 DEF IInv

LEMMA StartCountStep == ASSUME IInv, StartCount PROVE IInv'
<1>1. /\ step = "group" /\ groups # <<>> /\ step' = "count"
      /\ UNCHANGED <<net, cfg, src, groups, tuples, saved, cut, first, before>>
  BY DEF StartCount
<1>2. Base = net /\ Base' = net
  BY <1>1 DEF Base
<1>3. StateTyped'
  BY <1>1, <1>2 DEF IInv, StateTyped
<1>4. GroupsInv'
  BY <1>1, <1>2 DEF IInv, GroupsInv, Listing
<1>5. TuplesInv'
  <2>1. tuples = <<>>
    BY <1>1 DEF IInv, TuplesInv, Listing
  <2>2. IsGrouping(groups, Crossing(Base, src), cfg.lines) /\ cfg.lines \in Nat
    BY ConfigsAssumption DEF IInv, GroupsInv, StateTyped
  <2>3. Len(Group) - 1 \in Nat
    <3>1. Len(Group) \in Nat \ {0}
      BY <1>1, <2>2, HeadLines DEF Group
    <3> QED BY <3>1
  <2>4. Cap(Group) \in Nat
    BY <2>3, PowerOfTwo DEF Cap
  <2>5. tuples \in Seq(SUBSET DOMAIN Group) /\ IsInjective(tuples) /\ Len(tuples) <= Cap(Group)
    BY <2>1, <2>4 DEF IsInjective
  <2>6. Group' = Group
    BY <1>1 DEF Group
  <2> QED BY <1>1, <2>5, <2>6 DEF TuplesInv, Listing
<1>6. SavedInv'
  BY <1>1, <1>2 DEF IInv, SavedInv
<1> QED BY <1>3, <1>4, <1>5, <1>6 DEF IInv

LEMMA EnumerateStep == ASSUME IInv, Enumerate PROVE IInv'
<1>1. step = "count" /\ UNCHANGED <<net, cfg, src, saved, cut, first, before>>
  BY DEF Enumerate
<1>2. PICK t \in Reachable(net, Group, src) \ ToSet(tuples) :
        IF Len(tuples) = Cap(Group) THEN Drop
        ELSE tuples' = Append(tuples, t) /\ UNCHANGED <<groups, step>>
  BY DEF Enumerate
<1>3. groups # <<>> /\ Listing
  BY <1>1 DEF IInv, GroupsInv, Listing
<1>4. CASE Len(tuples) = Cap(Group)
  BY <1>1, <1>2, <1>3, <1>4, DropStep
<1>5. CASE Len(tuples) # Cap(Group)
  <2>1. tuples' = Append(tuples, t) /\ groups' = groups /\ step' = "count"
    BY <1>1, <1>2, <1>5
  <2>2. Base = net /\ Base' = net /\ Group' = Group
    BY <1>1, <2>1 DEF Base, Group
  <2>3. StateTyped'
    BY <1>1, <2>1, <2>2 DEF IInv, StateTyped
  <2>4. GroupsInv'
    BY <1>1, <1>3, <2>1, <2>2 DEF IInv, GroupsInv
  <2>5. tuples' \in Seq(SUBSET DOMAIN Group) /\ IsInjective(tuples') /\ Len(tuples') <= Cap(Group)
    <3>1. tuples \in Seq(SUBSET DOMAIN Group) /\ IsInjective(tuples) /\ Len(tuples) <= Cap(Group)
      BY <1>3 DEF IInv, TuplesInv
    <3>2. t \in SUBSET DOMAIN Group
      BY DEF Reachable
    <3> DEFINE S == SUBSET DOMAIN Group
               c == Cap(Group)
    <3>3. tuples \in Seq(S) /\ t \in S /\ t \notin ToSet(tuples) /\ Len(tuples) <= c /\ Len(tuples) # c /\ c \in Nat
      BY <1>3, <1>5, <3>1, <3>2, AtHand
    <3> HIDE DEF S, c
    <3>4. /\ tuples' \in Seq(S) /\ Len(tuples') = Len(tuples) + 1 /\ Len(tuples) \in Nat
          /\ DOMAIN tuples' = 1 .. Len(tuples) + 1 /\ DOMAIN tuples = 1 .. Len(tuples)
          /\ tuples'[Len(tuples) + 1] = t
          /\ \A i \in DOMAIN tuples : tuples'[i] = tuples[i]
      BY <2>1, <3>3
    <3>5. \A i \in DOMAIN tuples : tuples[i] # t
      BY <3>3 DEF ToSet
    <3>6. \A i \in DOMAIN tuples' : i \in DOMAIN tuples \/ i = Len(tuples) + 1
      BY <3>4
    <3>7. IsInjective(tuples')
      BY <3>1, <3>4, <3>5, <3>6 DEF IsInjective
    <3>8. Len(tuples') <= c
      <4> DEFINE l == Len(tuples)
      <4>1. l \in Nat /\ c \in Nat /\ l <= c /\ l # c /\ Len(tuples') = l + 1
        BY <3>3, <3>4
      <4> HIDE DEF l
      <4> QED BY <4>1
    <3> QED BY <3>4, <3>7, <3>8 DEF S, c
  <2>6. TuplesInv'
    BY <2>1, <2>2, <2>5 DEF TuplesInv, Listing
  <2>7. SavedInv'
    BY <1>1, <2>1, <2>2 DEF IInv, SavedInv
  <2> QED BY <2>3, <2>4, <2>6, <2>7 DEF IInv
<1> QED BY <1>4, <1>5

LEMMA CountStep == ASSUME IInv, Count PROVE IInv'
<1>1. /\ step = "count" /\ Reachable(net, Group, src) = ToSet(tuples) /\ step' = "verify"
      /\ UNCHANGED <<net, cfg, src, groups, tuples, saved, cut, first, before>>
  BY DEF Count, AllFound
<1>2. Base = net /\ Base' = net /\ Group' = Group
  BY <1>1 DEF Base, Group
<1>3. StateTyped'
  BY <1>1, <1>2 DEF IInv, StateTyped
<1>4. GroupsInv'
  BY <1>1, <1>2 DEF IInv, GroupsInv, Listing
<1>5. TuplesInv'
  BY <1>1, <1>2 DEF IInv, TuplesInv, Listing
<1>6. SavedInv'
  BY <1>1, <1>2 DEF IInv, SavedInv
<1> QED BY <1>3, <1>4, <1>5, <1>6 DEF IInv

LEMMA InsertStep == ASSUME IInv, Insert PROVE IInv'
<1>1. /\ step = "verify" /\ step' = "check" /\ before' = net
      /\ net' = Coded(net, Group, tuples, Other) /\ cut' = [cut EXCEPT !.now = -1]
      /\ UNCHANGED <<cfg, src, groups, tuples, saved, first>>
  BY DEF Insert
<1>2. Base = net /\ Base' = net /\ Group' = Group /\ Other' = Other
  BY <1>1 DEF Base, Group, Other
<1>3. cut = [now |-> cut.now, entry |-> cut.entry]
  BY DEF IInv, StateTyped
<1>4. cut' = [now |-> -1, entry |-> cut.entry]
  BY <1>1, <1>3
<1>5. StateTyped'
  BY <1>1, <1>2, <1>4 DEF IInv, StateTyped
<1>6. GroupsInv'
  BY <1>1, <1>2 DEF IInv, GroupsInv, Listing
<1>7. TuplesInv'
  BY <1>1, <1>2 DEF IInv, TuplesInv, Listing
<1>8. SavedInv'
  BY <1>1, <1>2, <1>4 DEF IInv, SavedInv
<1> QED BY <1>5, <1>6, <1>7, <1>8 DEF IInv

LEMMA Sides == IInv => src \in {0, 1} /\ Other \in {0, 1} /\ src # Other
BY DEF IInv, StateTyped, Other

LEMMA AcceptStep ==
  ASSUME IInv, Accept
  PROVE  IInv' /\ saved' # saved
<1>1. /\ step = "check" /\ groups' = Tail(groups) /\ tuples' = <<>> /\ step' = "group"
      /\ net' = Tagged(net, before, Group, tuples, src, Other)
      /\ saved' = saved + Len(Group) - Width(Len(tuples))
      /\ UNCHANGED <<cfg, src, cut, first, before>>
  BY DEF Accept, Drop
<1>2. Base = before /\ Base' = net' /\ Listing /\ groups # <<>>
  BY <1>1 DEF Base, Listing, IInv, GroupsInv
<1>3. /\ IsCodec(before, Group, tuples) /\ ToSet(Group) \subseteq Crossing(before, src)
      /\ Len(Group) \in Nat \ {0} /\ Width(Len(tuples)) \in Nat /\ Width(Len(tuples)) < Len(Group)
  BY <1>2, AtHand
<1>4. IsCoded(net, before, Group, tuples, Other)
  BY <1>1, <1>3, CodedIs DEF IInv, TuplesInv
<1>5. src \in {0, 1} /\ Other \in {0, 1} /\ src # Other
  BY Sides
<1>6. IsTagged(net', net, before, Group, tuples, src, Other)
  BY <1>1, <1>3, <1>4, <1>5, TaggedIs
<1>7. Crossing(before, src) \ ToSet(Group) \subseteq Crossing(net', src)
  BY <1>3, <1>4, <1>5, <1>6, TaggedCrossing
<1>8. Lines(before) = Lines(net') + Len(Group) - Width(Len(tuples))
  BY <1>3, <1>4, <1>5, <1>6, TaggedSaves
<1>9. Lines(net') \in Nat
  BY <1>6, LinesNat DEF IsTagged
<1>10. /\ saved \in Nat /\ Lines(first) = saved + Lines(before)
  BY <1>2 DEF IInv, StateTyped, SavedInv
<1>11. saved' \in Nat \ {0} /\ saved' # saved /\ Lines(first) = saved' + Lines(net')
  <2> DEFINE l == Len(Group)
             w == Width(Len(tuples))
  <2>1. l \in Nat /\ w \in Nat /\ w < l /\ saved' = saved + l - w /\ Lines(before) = Lines(net') + l - w
    BY <1>1, <1>3, <1>8
  <2> HIDE DEF l, w
  <2> QED BY <1>9, <1>10, <2>1
<1>12. StateTyped'
  BY <1>1, <1>2, <1>6, <1>11 DEF IInv, StateTyped, IsTagged
<1>13. GroupsInv'
  <2>1. IsGrouping(groups, Crossing(before, src), cfg.lines)
    BY <1>2 DEF IInv, GroupsInv
  <2>2. IsGrouping(Tail(groups), Crossing(net', src), cfg.lines)
    BY <1>2, <1>7, <2>1, TailGrouping DEF Group
  <2> QED BY <1>1, <1>2, <2>2 DEF GroupsInv, Listing
<1>14. TuplesInv'
  BY <1>1 DEF TuplesInv, Listing
<1>15. SavedInv'
  BY <1>1, <1>2, <1>11 DEF IInv, SavedInv
<1> QED BY <1>11, <1>12, <1>13, <1>14, <1>15 DEF IInv

LEMMA RejectStep ==
  ASSUME IInv, Reject
  PROVE  IInv' /\ Circuit(net') = Circuit(before)
<1>1. /\ step = "check" /\ groups' = Tail(groups) /\ tuples' = <<>> /\ step' = "group"
      /\ net' = RolledBack(net, before, Group, tuples)
      /\ UNCHANGED <<cfg, src, saved, cut, first, before>>
  BY DEF Reject, Drop
<1>2. Base = before /\ Base' = net' /\ Listing /\ groups # <<>>
  BY <1>1 DEF Base, Listing, IInv, GroupsInv
<1>3. IsCodec(before, Group, tuples) /\ IsBipart(before)
  BY <1>2, AtHand DEF IInv, StateTyped
<1>4. IsCoded(net, before, Group, tuples, Other)
  BY <1>1, <1>3, CodedIs DEF IInv, TuplesInv
<1>5. net' = [before EXCEPT !.max = net.max] /\ net.max \in Nat /\ net.max >= before.max
  BY <1>1, <1>3, <1>4, RolledBackIs
<1>6. IsBipart(net') /\ Circuit(net') = Circuit(before)
  BY <1>3, <1>5, LaterBipart
<1>7. Crossing(net', src) = Crossing(before, src) /\ Lines(net') = Lines(before)
  BY <1>3, <1>6, CircuitSame DEF IsBipart
<1>8. StateTyped'
  BY <1>1, <1>2, <1>6 DEF IInv, StateTyped
<1>9. GroupsInv'
  <2>1. IsGrouping(groups, Crossing(before, src), cfg.lines)
    BY <1>2 DEF IInv, GroupsInv
  <2>2. IsGrouping(Tail(groups), Crossing(net', src), cfg.lines)
    BY <1>2, <1>7, <2>1, TailGrouping
  <2> QED BY <1>1, <1>2, <2>2 DEF GroupsInv, Listing
<1>10. TuplesInv'
  BY <1>1 DEF TuplesInv, Listing
<1>11. SavedInv'
  BY <1>1, <1>2, <1>6, <1>7 DEF IInv, SavedInv
<1> QED BY <1>6, <1>8, <1>9, <1>10, <1>11 DEF IInv

LEMMA TurnStep == ASSUME IInv, Turn PROVE IInv'
<1>1. /\ step = "group" /\ groups = <<>> /\ src' = 1 /\ step' = "collect"
      /\ UNCHANGED <<net, cfg, groups, tuples, saved, cut, first, before>>
  BY DEF Turn
<1>2. Base = net /\ Base' = net
  BY <1>1 DEF Base
<1>3. StateTyped'
  BY <1>1, <1>2 DEF IInv, StateTyped
<1>4. GroupsInv'
  BY <1>1, EmptyGrouping DEF GroupsInv, Listing
<1>5. TuplesInv'
  BY <1>1 DEF IInv, TuplesInv, Listing
<1>6. SavedInv'
  BY <1>1, <1>2 DEF IInv, SavedInv
<1> QED BY <1>3, <1>4, <1>5, <1>6 DEF IInv

LEMMA FinishStep == ASSUME IInv, Finish PROVE IInv'
<1>1. /\ step = "group" /\ groups = <<>> /\ step' = "done"
      /\ cut' = [cut EXCEPT !.now = IF saved > 0 THEN -1 ELSE cut.entry]
      /\ UNCHANGED <<net, cfg, src, groups, tuples, saved, first, before>>
  BY DEF Finish
<1>2. Base = net /\ Base' = net
  BY <1>1 DEF Base
<1>3. /\ cut = [now |-> cut.now, entry |-> cut.entry] /\ saved \in Nat
      /\ cut.entry \in {-1, CutNets(first)}
      /\ saved = 0 => Circuit(net) = Circuit(first)
      /\ IsBipart(net) /\ IsBipart(first)
  BY <1>2 DEF IInv, StateTyped, SavedInv
<1>4. cut' = [now |-> cut'.now, entry |-> cut.entry] /\ cut'.now = IF saved > 0 THEN -1 ELSE cut.entry
  BY <1>1, <1>3
<1>5. CutNets(first) \in Nat
  BY <1>3, CutsTyped DEF IsBipart
<1>6. cut'.now \in {-1, CutNets(net)} /\ cut'.now \in Nat \cup {-1}
  <2>1. CASE saved > 0
    BY <1>4, <2>1
  <2>2. CASE ~(saved > 0)
    <3>1. saved = 0
      BY <1>3, <2>2
    <3>2. CutNets(net) = CutNets(first)
      BY <1>3, <3>1, CircuitSame DEF IsBipart
    <3> QED BY <1>3, <1>4, <1>5, <2>2, <3>2
  <2> QED BY <2>1, <2>2
<1>7. StateTyped'
  BY <1>1, <1>2, <1>4, <1>6 DEF IInv, StateTyped
<1>8. GroupsInv'
  BY <1>1, EmptyGrouping DEF GroupsInv, Listing
<1>9. TuplesInv'
  BY <1>1 DEF IInv, TuplesInv, Listing
<1>10. SavedInv'
  BY <1>1, <1>2, <1>4, <1>6 DEF IInv, SavedInv
<1> QED BY <1>7, <1>8, <1>9, <1>10 DEF IInv

LEMMA NextHolds == IInv /\ [Next]_vars => IInv'
<1> SUFFICES ASSUME IInv, [Next]_vars PROVE IInv'
  OBVIOUS
<1>1. CASE Prune
  BY <1>1, DropStep DEF Prune
<1>2. CASE GiveUp
  BY <1>2, DropStep DEF GiveUp, IInv, GroupsInv, Listing
<1>3. CASE Unproved
  BY <1>3, DropStep DEF Unproved, IInv, GroupsInv, Listing
<1>4. CASE UNCHANGED vars
  BY <1>4 DEF vars, IInv, StateTyped, GroupsInv, TuplesInv, SavedInv, Base, Listing, Group, Other
<1>5. CASE Done
  BY <1>4, <1>5 DEF Done
<1> QED
  BY <1>1, <1>2, <1>3, <1>4, <1>5, CollectStep, StartCountStep, EnumerateStep, CountStep,
     InsertStep, AcceptStep, RejectStep, TurnStep, FinishStep DEF Next

THEOREM Invariance == Spec => []IInv
<1> QED BY InitHolds, NextHolds, PTL DEF Spec

(* ListsComplete: what is verified, and what the codec on trial is made of, *)
(* is the list of all the tuples that the lines of the group can take, in   *)
(* the network that the codec is put into, each of them once.               *)
THEOREM ListsCompleteAlways == Spec => []ListsComplete
<1>1. IInv => ListsComplete
  <2> SUFFICES ASSUME IInv PROVE ListsComplete
    OBVIOUS
  <2>1. IsNetwork(net)
    <3>1. CASE step = "check"
      <4>1. Base = before /\ Listing
        BY <3>1 DEF Base, Listing
      <4>2. IsCodec(before, Group, tuples)
        BY <4>1, AtHand
      <4>3. IsCoded(net, before, Group, tuples, Other)
        BY <3>1, <4>2, CodedIs DEF IInv, TuplesInv
      <4> QED BY <4>2, <4>3, CodedNetwork DEF IsBipart
    <3>2. CASE step # "check"
      BY <3>2 DEF IInv, StateTyped, Base, IsBipart
    <3> QED BY <3>1, <3>2
  <2>2. \A i \in DOMAIN groups : Len(groups[i]) \in 1 .. cfg.lines
    BY DEF IInv, GroupsInv, IsGrouping
  <2>3. tuples # <<>> => tuples \in Seq(SUBSET DOMAIN Group) /\ Len(tuples) <= Cap(Group)
    BY DEF IInv, TuplesInv
  <2>4. TypeOK
    BY <2>1, <2>2, <2>3 DEF TypeOK, IInv, StateTyped
  <2> QED BY <2>4 DEF ListsComplete, IInv, TuplesInv, Listing
<1> QED BY <1>1, Invariance, PTL

(* RollbackExact: a codec that is not kept leaves the network as it was but *)
(* for the next free number.                                                *)
THEOREM RollbackExactAlways == Spec => RollbackExact
<1>1. ASSUME IInv, [Next]_vars
      PROVE  [step = "check" /\ saved' = saved => Circuit(net') = Circuit(before)]_vars
  <2> SUFFICES ASSUME ~UNCHANGED vars, step = "check", saved' = saved
               PROVE  Circuit(net') = Circuit(before)
    OBVIOUS
  <2>1. Accept \/ Reject
    BY <1>1 DEF Next, Collect, Prune, StartCount, Enumerate, GiveUp, Count, Insert, Unproved,
                Turn, Finish, Done
  <2> QED BY <1>1, <2>1, AcceptStep, RejectStep
<1> QED BY <1>1, Invariance, PTL DEF Spec, RollbackExact

(* SavedExact: the lines that cross have become fewer by exactly what the   *)
(* command reports, and the cut size recorded in the end, if any, is that   *)
(* of the network.                                                          *)
THEOREM SavedExactAlways == Spec => []SavedExact
<1>1. IInv => SavedExact
  BY DEF IInv, SavedInv, SavedExact, Base
<1> QED BY <1>1, Invariance, PTL

----------------------------------------------------------------------------
(* Of the network the groups were formed of, no output depends on a cycle,  *)
(* every output computes what it did at the start, and each part by itself  *)
(* is free of cycles, so that what its lines can be is decided; the codec   *)
(* on trial was verified against it.                                        *)
KeptInv ==
  /\ Base.pi = first.pi /\ Feeding(Base) \subseteq Ordered(Base)
  /\ Outputs(Live(Base)) = Outputs(first)
  /\ PartsGrounded(Base)
  /\ step = "check" => Verified(before, Group, src, tuples)

LEMMA KeptInit == Init => KeptInv
<1> SUFFICES ASSUME Init PROVE KeptInv
  OBVIOUS
<1>1. net \in Networks /\ first = net /\ step = "collect" /\ Base = net
  BY DEF Init, Base
<1>2. IsNetwork(net) /\ Acyclic(net)
  BY <1>1, NetworksAssumption
<1>3. Feeding(net) \subseteq Ordered(net) /\ Outputs(Live(net)) = Outputs(net) /\ PartsGrounded(net)
  BY <1>2, AcyclicOrdered, LiveOutputs, AcyclicParts
<1> QED BY <1>1, <1>3 DEF KeptInv

(* Most steps leave that network alone. *)
LEMMA KeptSame ==
  ASSUME KeptInv, Base' = Base, first' = first, step' # "check"
  PROVE  KeptInv'
BY DEF KeptInv

LEMMA KeptInsert == ASSUME KeptInv, Insert PROVE KeptInv'
<1>1. /\ step = "verify" /\ Verified(net, Group, src, tuples) /\ step' = "check" /\ before' = net
      /\ UNCHANGED <<src, groups, tuples, first>>
  BY DEF Insert
<1>2. Base' = Base /\ Group' = Group
  BY <1>1 DEF Base, Group
<1>3. Verified(before', Group', src', tuples')
  BY <1>1, <1>2
<1> QED BY <1>1, <1>2, <1>3 DEF KeptInv

LEMMA KeptAccept == ASSUME IInv, KeptInv, Accept PROVE KeptInv'
<1>1. /\ step = "check" /\ step' = "group" /\ IsAcyclic(net)
      /\ net' = Tagged(net, before, Group, tuples, src, Other)
      /\ UNCHANGED <<src, first>>
  BY DEF Accept, Drop
<1>2. Base = before /\ Base' = net' /\ Listing
  BY <1>1 DEF Base, Listing
<1>3. IsCodec(before, Group, tuples)
  BY <1>2, AtHand
<1>4. IsCoded(net, before, Group, tuples, Other)
  BY <1>1, <1>3, CodedIs DEF IInv, TuplesInv
<1>5. src \in {0, 1} /\ Other \in {0, 1} /\ src # Other
  BY Sides
<1>6. IsTagged(net', net, before, Group, tuples, src, Other)
  BY <1>1, <1>3, <1>4, <1>5, TaggedIs
<1>7. /\ before.pi = first.pi /\ Feeding(before) \subseteq Ordered(before)
      /\ Outputs(Live(before)) = Outputs(first) /\ PartsGrounded(before)
      /\ Verified(before, Group, src, tuples)
  BY <1>1, <1>2 DEF KeptInv
<1>8. Feeding(net) \subseteq Ordered(net)
  BY <1>1 DEF IsAcyclic
<1>9. GroundedOff(before, Leaves(before, src))
  BY <1>5, <1>7 DEF PartsGrounded
<1>10. Outputs(Live(net)) = Outputs(Live(before))
  BY <1>3, <1>4, <1>5, <1>7, <1>8, <1>9, CodecKeeps
<1>11. IsBipart(net)
  BY <1>3, <1>4, CodedNetwork
<1>12. IsNetwork(net) /\ IsNetwork(net') /\ net.pi = before.pi
  BY <1>4, <1>6, <1>11 DEF IsTagged, IsBipart, IsCoded
<1>13. SameLogic(net', net)
  BY <1>6 DEF IsTagged, SameLogic
<1>14. /\ Feeding(net') = Feeding(net) /\ Ordered(net') = Ordered(net)
       /\ Outputs(Live(net')) = Outputs(Live(net))
  BY <1>12, <1>13, LogicSame
<1>15. PartsGrounded(net')
  BY <1>3, <1>4, <1>5, <1>6, <1>7, TaggedGrounded
<1>16. net'.pi = first'.pi
  BY <1>1, <1>7, <1>12, <1>13 DEF SameLogic
<1> QED BY <1>1, <1>2, <1>7, <1>8, <1>10, <1>14, <1>15, <1>16 DEF KeptInv

LEMMA KeptReject == ASSUME IInv, KeptInv, Reject PROVE KeptInv'
<1>1. step = "check" /\ step' = "group" /\ UNCHANGED first
  BY DEF Reject, Drop
<1>2. Base = before /\ Base' = net'
  BY <1>1 DEF Base
<1>3. Circuit(net') = Circuit(before) /\ IInv'
  BY RejectStep
<1>4. IsNetwork(before) /\ IsNetwork(net')
  BY <1>2, <1>3 DEF IInv, StateTyped, IsBipart
<1>5. SameLogic(net', before) /\ (PartsGrounded(before) => PartsGrounded(net'))
  BY <1>3, <1>4, CircuitLogic
<1>6. /\ Feeding(net') = Feeding(before) /\ Ordered(net') = Ordered(before)
      /\ Outputs(Live(net')) = Outputs(Live(before))
  BY <1>4, <1>5, LogicSame
<1>7. net'.pi = before.pi
  BY <1>5 DEF SameLogic
<1> QED BY <1>1, <1>2, <1>5, <1>6, <1>7 DEF KeptInv

LEMMA KeptStep == IInv /\ KeptInv /\ [Next]_vars => KeptInv'
<1> SUFFICES ASSUME IInv, KeptInv, [Next]_vars PROVE KeptInv'
  OBVIOUS
<1>1. CASE UNCHANGED vars
  BY <1>1 DEF vars, KeptInv, Base, Group
<1>2. CASE Done
  BY <1>1, <1>2 DEF Done
<1>3. ASSUME Collect \/ Prune \/ StartCount \/ Enumerate \/ GiveUp \/ Count \/ Unproved \/ Turn \/ Finish
      PROVE  KeptInv'
  <2>1. UNCHANGED <<net, first>> /\ step # "check" /\ step' # "check"
    BY <1>3 DEF Collect, Prune, StartCount, Enumerate, GiveUp, Count, Unproved, Turn, Finish, Drop
  <2>2. Base' = Base
    BY <2>1 DEF Base
  <2> QED BY <2>1, <2>2, KeptSame
<1> QED BY <1>1, <1>2, <1>3, KeptInsert, KeptAccept, KeptReject DEF Next

(* FunctionsKept: however the lines are grouped and coded, no output comes  *)
(* to depend on a cycle, and every output computes what it did at the       *)
(* start.  A codec was verified on all that its lines can be when what      *)
(* their part sees of the other takes any value; what they are in the       *)
(* network, before and after the insertion, is among that.                  *)
THEOREM FunctionsKeptAlways == Spec => []FunctionsKept
<1>1. KeptInv => FunctionsKept
  BY DEF KeptInv, FunctionsKept, Base
<1>2. IInv /\ KeptInv /\ [Next]_vars => (IInv /\ KeptInv)'
  BY NextHolds, KeptStep
<1> QED BY <1>1, <1>2, InitHolds, KeptInit, PTL DEF Spec

----------------------------------------------------------------------------
(* Csr4 *)
----------------------------------------------------------------------------
(* The inductive invariant. *)

(* A group, of the direction under way: its LUTs are boundary LUTs, and     *)
(* each of its nets crosses to one of them.                                 *)
GoodGroup(g) ==
  /\ g.luts \subseteq seen.lut
  /\ g.bound \subseteq LutVertices(seen)
  /\ \A v \in g.luts : seen.part[v] = dst
  /\ \A u \in g.bound : \E v \in g.luts : u \in Bound(seen, v)

GroupType == [luts : SUBSET seen.lut, bound : SUBSET LutVertices(seen)]

LutGroupsInv ==
  /\ todo \in Seq(GroupType)
  /\ \A i \in 1 .. Len(todo) : GoodGroup(todo[i])
  /\ \A i, j \in 1 .. Len(todo) : i # j => todo[i].luts \cap todo[j].luts = {}
  /\ left \subseteq BoundaryLuts(seen)
  /\ \A i \in 1 .. Len(todo) : left \cap todo[i].luts = {}

(* LUTs that are still to be rewritten are those that were collected. *)
Pending(v) == v \in left \/ \E i \in 1 .. Len(todo) : v \in todo[i].luts

SeenInv ==
  /\ seen.lut \subseteq lutnet.lut
  /\ LutVertices(seen) \subseteq LutVertices(lutnet)
  /\ \A v \in LutVertices(seen) : lutnet.part[v] = seen.part[v]
  /\ \A v \in lutnet.lut :
       Pending(v) => lutnet.fanin[v] = seen.fanin[v] /\ lutnet.truth[v] = seen.truth[v]

PhaseInv ==
  /\ pc \in {"collect", "group", "apply", "done"}
  /\ dst \in 0 .. 2
  /\ pc # "done" => dst \in {0, 1}
  /\ pc = "collect" => todo = <<>>
  /\ pc # "group" => left = {}

FirstInv ==
  /\ initial.lut \subseteq lutnet.lut
  /\ LutVertices(initial) \subseteq LutVertices(lutnet)
  /\ \A v \in LutVertices(initial) : lutnet.part[v] = initial.part[v]

RewriteInv ==
  /\ IsLutNetwork(lutnet) /\ IsLutNetwork(seen) /\ IsLutNetwork(initial)
  /\ LutGroupsInv /\ SeenInv /\ PhaseInv /\ FirstInv
  /\ FitsLut

----------------------------------------------------------------------------
(* Sets of vertices are finite. *)
LEMMA LutVerticesFinite ==
  ASSUME NEW n, IsLutNetwork(n)
  PROVE  IsFiniteSet(LutVertices(n))
<1>1. LutVertices(n) \subseteq 0 .. n.max - 1
  BY DEF IsLutNetwork
<1>2. IsFiniteSet(0 .. n.max - 1)
  BY FS_Interval DEF IsLutNetwork
<1> QED  BY <1>1, <1>2, FS_Subset

(* The encoders are t new ObjIds. *)
LEMMA EncoderIdsFresh ==
  ASSUME IsLutNetwork(lutnet), NEW t \in Nat
  PROVE  /\ EncoderIds(t) \cap LutVertices(lutnet) = {}
         /\ IsFiniteSet(EncoderIds(t))
         /\ Cardinality(EncoderIds(t)) = t
         /\ \A e \in EncoderIds(t) : e \in Nat /\ e < lutnet.max + t
<1>1. lutnet.max \in Nat
  BY DEF IsLutNetwork
<1>2. EncoderIds(t) = lutnet.max .. lutnet.max + t - 1
  <2>1. ASSUME NEW e \in lutnet.max .. lutnet.max + t - 1
        PROVE  e \in EncoderIds(t)
    <3>1. e - lutnet.max \in 0 .. t - 1 /\ e = lutnet.max + (e - lutnet.max)
      BY <1>1
    <3> QED  BY <3>1 DEF EncoderIds
  <2> QED  BY <1>1, <2>1 DEF EncoderIds
<1>3. IsFiniteSet(lutnet.max .. lutnet.max + t - 1)
      /\ Cardinality(lutnet.max .. lutnet.max + t - 1) = t
  <2> DEFINE b == lutnet.max + t - 1
  <2>1. lutnet.max \in Int /\ b \in Int
    BY <1>1
  <2>2. b - lutnet.max + 1 = t /\ (lutnet.max > b => t = 0)
    BY <1>1
  <2> HIDE DEF b
  <2>3. /\ IsFiniteSet(lutnet.max .. b)
        /\ Cardinality(lutnet.max .. b) = IF lutnet.max > b THEN 0 ELSE b - lutnet.max + 1
    BY <2>1, FS_Interval
  <2>4. IsFiniteSet(lutnet.max .. b) /\ Cardinality(lutnet.max .. b) = t
    BY <2>2, <2>3
  <2> QED  BY <2>4 DEF b
<1>4. EncoderIds(t) \cap LutVertices(lutnet) = {}
  BY <1>1, <1>2 DEF IsLutNetwork
<1> QED  BY <1>1, <1>2, <1>3, <1>4

----------------------------------------------------------------------------
(* What ApplyGroup knows of the group it rewrites. *)
Rewriting(g, kill, t, E, c) ==
  /\ kill = Kill(g)
  /\ t \in Nat /\ t < Cardinality(kill)
  /\ Cardinality(kill) \in Nat /\ Cardinality(kill) <= LutSize
  /\ IsFiniteSet(kill) /\ kill \subseteq g.bound
  /\ Feasible(g, kill, t)
  /\ E = EncoderIds(t)
  /\ IsCode(c, Keys(g, kill), E)
  /\ g \in GroupType /\ GoodGroup(g)
  /\ \A v \in g.luts :
       v \in lutnet.lut /\ lutnet.fanin[v] = seen.fanin[v] /\ lutnet.truth[v] = seen.truth[v]
  /\ lutnet' = Rewritten(g, kill, c, E)

LEMMA ApplyRewrites ==
  ASSUME RewriteInv, ApplyGroup
  PROVE  \E g, kill, t, E, c :
           Rewriting(g, kill, t, E, c) /\ g = Head(todo)
<1> DEFINE g    == Head(todo)
           kill == Kill(g)
           t    == CodeLength(g, kill)
           E    == EncoderIds(t)
           D    == Keys(g, kill)
           c    == CHOOSE f \in [D -> SUBSET E] : IsCode(f, D, E)
<1>1. todo \in Seq(GroupType) /\ todo # <<>>
  BY DEF RewriteInv, LutGroupsInv, ApplyGroup
<1>2. 1 \in 1 .. Len(todo) /\ g = todo[1]
  BY <1>1
<1>3. g \in GroupType /\ GoodGroup(g)
  <2> HIDE DEF g
  <2> QED  BY <1>1, <1>2 DEF RewriteInv, LutGroupsInv
<1>4. Worth(g) /\ IsCode(c, D, E) /\ lutnet' = Rewritten(g, kill, c, E)
  BY DEF ApplyGroup
<1>5. kill \subseteq g.bound
  BY DEF Kill
<1>6. g.bound \subseteq LutVertices(seen)
  <2> HIDE DEF g
  <2> QED  BY <1>3 DEF GoodGroup
<1>7. IsFiniteSet(kill)
  <2>1. IsFiniteSet(LutVertices(seen))
    BY LutVerticesFinite DEF RewriteInv
  <2> HIDE DEF g, kill
  <2> QED  BY <1>5, <1>6, <2>1, FS_Subset
<1>8. Cardinality(kill) \in Nat
  <2> HIDE DEF g, kill
  <2> QED  BY <1>7, FS_CardinalityType
<1>9. Cardinality(kill) <= LutSize /\ t \in 0 .. Cardinality(kill) - 1 /\ Feasible(g, kill, t)
  <2> HIDE DEF g
  <2> QED  BY <1>4 DEF Worth
<1>10. t \in Nat /\ t < Cardinality(kill)
  <2> HIDE DEF g, kill, t
  <2> QED  BY <1>8, <1>9
<1>11. \A v \in g.luts :
         v \in lutnet.lut /\ lutnet.fanin[v] = seen.fanin[v] /\ lutnet.truth[v] = seen.truth[v]
  <2>1. \A v \in g.luts : v \in lutnet.lut /\ Pending(v)
    <3> HIDE DEF g
    <3> QED  BY <1>2, <1>3 DEF RewriteInv, SeenInv, GoodGroup, Pending
  <2> HIDE DEF g
  <2> QED  BY <2>1 DEF RewriteInv, SeenInv
<1>12. Rewriting(g, kill, t, E, c)
  <2> HIDE DEF g, t, c
  <2> QED  BY <1>3, <1>4, <1>5, <1>7, <1>8, <1>9, <1>10, <1>11 DEF Rewriting
<1> QED  BY <1>12

----------------------------------------------------------------------------
(* What a rewrite does to the network. *)
LEMMA RewritingFacts ==
  ASSUME RewriteInv, dst \in {0, 1},
         NEW g, NEW kill, NEW t, NEW E, NEW c, Rewriting(g, kill, t, E, c)
  PROVE  /\ E \cap LutVertices(lutnet) = {}
         /\ kill \subseteq LutVertices(lutnet)
         /\ g.luts \subseteq lutnet.lut
         /\ \A e \in E : lutnet'.fanin[e] = kill /\ lutnet'.part[e] = 1 - dst
                        /\ lutnet'.truth[e] = EncoderTruth(g, kill, c, e)
         /\ \A v \in g.luts : /\ lutnet'.fanin[v] = E \cup (seen.fanin[v] \ kill)
                             /\ lutnet'.truth[v] = MemberTruth(g, kill, c, E, v)
         /\ \A v \in lutnet.lut \ g.luts : /\ lutnet'.fanin[v] = lutnet.fanin[v]
                                       /\ lutnet'.truth[v] = lutnet.truth[v]
         /\ \A v \in LutVertices(lutnet) : lutnet'.part[v] = lutnet.part[v]
         /\ lutnet'.pi = lutnet.pi /\ lutnet'.lut = lutnet.lut \cup E
         /\ lutnet'.max = lutnet.max + t
<1>1. E = EncoderIds(t) /\ t \in Nat /\ lutnet' = Rewritten(g, kill, c, E)
  BY DEF Rewriting
<1>2. E \cap LutVertices(lutnet) = {} /\ Cardinality(E) = t
  BY <1>1, EncoderIdsFresh DEF RewriteInv
<1>3. g.luts \subseteq lutnet.lut
  BY DEF Rewriting
<1>4. kill \subseteq LutVertices(lutnet)
  BY DEF Rewriting, GoodGroup, RewriteInv, SeenInv
<1>5. lutnet'.pi = lutnet.pi /\ lutnet'.lut = lutnet.lut \cup E /\ lutnet'.max = lutnet.max + Cardinality(E)
  BY <1>1 DEF Rewritten
<1>6. /\ lutnet'.part = [v \in lutnet.pi \cup (lutnet.lut \cup E) |->
                        IF v \in E THEN 1 - dst ELSE lutnet.part[v]]
      /\ lutnet'.fanin = [v \in lutnet.lut \cup E |->
                        IF v \in E THEN kill
                        ELSE IF v \in g.luts THEN E \cup (seen.fanin[v] \ kill)
                        ELSE lutnet.fanin[v]]
      /\ lutnet'.truth = [v \in lutnet.lut \cup E |->
                        IF v \in E THEN EncoderTruth(g, kill, c, v)
                        ELSE IF v \in g.luts THEN MemberTruth(g, kill, c, E, v)
                        ELSE lutnet.truth[v]]
  BY <1>1 DEF Rewritten
<1>7. \A v \in lutnet.lut : v \notin E
  BY <1>2 DEF LutVertices
<1>8. \A e \in E : lutnet'.fanin[e] = kill /\ lutnet'.part[e] = 1 - dst
                 /\ lutnet'.truth[e] = EncoderTruth(g, kill, c, e)
  BY <1>6
<1>9. \A v \in g.luts : /\ lutnet'.fanin[v] = E \cup (seen.fanin[v] \ kill)
                      /\ lutnet'.truth[v] = MemberTruth(g, kill, c, E, v)
  BY <1>3, <1>6, <1>7
<1>10. \A v \in lutnet.lut \ g.luts : lutnet'.fanin[v] = lutnet.fanin[v] /\ lutnet'.truth[v] = lutnet.truth[v]
  BY <1>6, <1>7
<1>11. \A v \in LutVertices(lutnet) : lutnet'.part[v] = lutnet.part[v]
  BY <1>2, <1>6 DEF LutVertices
<1> QED  BY <1>2, <1>3, <1>4, <1>5, <1>8, <1>9, <1>10, <1>11

(* The rewritten network is a network. *)
LEMMA RewritingIsNetwork ==
  ASSUME RewriteInv, dst \in {0, 1},
         NEW g, NEW kill, NEW t, NEW E, NEW c, Rewriting(g, kill, t, E, c)
  PROVE  IsLutNetwork(lutnet')
<1>1. IsLutNetwork(lutnet)
  BY DEF RewriteInv
<1>2. t \in Nat /\ E = EncoderIds(t)
  BY DEF Rewriting
<1>3. \A e \in E : e \in Nat /\ e < lutnet.max + t
  BY <1>1, <1>2, EncoderIdsFresh
<1> DEFINE V == LutVertices(lutnet) \cup E
<1>4. /\ lutnet'.pi = lutnet.pi /\ lutnet'.lut = lutnet.lut \cup E
      /\ LutVertices(lutnet') = V /\ lutnet'.max = lutnet.max + t
  BY RewritingFacts DEF LutVertices
<1>5. \A v \in V : v \in Nat /\ v < lutnet'.max
  BY <1>1, <1>2, <1>3, <1>4 DEF IsLutNetwork
<1>6. lutnet'.max \in Nat
  BY <1>1, <1>2, <1>4 DEF IsLutNetwork
<1>7. lutnet'.pi \cap lutnet'.lut = {}
  BY <1>1, <1>4, RewritingFacts DEF IsLutNetwork, LutVertices
<1>8. \A v \in g.luts : seen.fanin[v] \subseteq LutVertices(lutnet)
  <2>1. \A v \in g.luts : v \in lutnet.lut /\ lutnet.fanin[v] = seen.fanin[v]
    BY DEF Rewriting
  <2> QED  BY <1>1, <2>1 DEF IsLutNetwork
<1>9. lutnet'.fanin \in [lutnet'.lut -> SUBSET V]
  <2>1. lutnet'.fanin = [v \in lutnet'.lut |-> lutnet'.fanin[v]]
    BY DEF Rewriting, Rewritten
  <2>2. ASSUME NEW v \in lutnet'.lut
        PROVE  lutnet'.fanin[v] \subseteq V
    <3>1. CASE v \in E
      BY <3>1, RewritingFacts
    <3>2. CASE v \in g.luts
      BY <3>2, <1>8, RewritingFacts
    <3>3. CASE v \in lutnet.lut \ g.luts
      <4>1. lutnet'.fanin[v] = lutnet.fanin[v]
        BY <3>3, RewritingFacts
      <4> QED  BY <1>1, <3>3, <4>1 DEF IsLutNetwork
    <3> QED  BY <1>4, <3>1, <3>2, <3>3
  <2> QED  BY <2>1, <2>2
<1>10. lutnet'.part \in [V -> {0, 1, NoPart}]
  <2>1. lutnet'.part = [v \in lutnet'.pi \cup lutnet'.lut |-> lutnet'.part[v]]
    BY DEF Rewriting, Rewritten
  <2>2. ASSUME NEW v \in V
        PROVE  lutnet'.part[v] \in {0, 1, NoPart}
    <3>1. CASE v \in E
      BY <3>1, RewritingFacts
    <3>2. CASE v \in LutVertices(lutnet)
      <4>1. lutnet'.part[v] = lutnet.part[v]
        BY <3>2, RewritingFacts
      <4> QED  BY <1>1, <3>2, <4>1 DEF IsLutNetwork
    <3> QED  BY <3>1, <3>2
  <2>3. lutnet'.pi \cup lutnet'.lut = V
    BY <1>4 DEF LutVertices
  <2> QED  BY <2>1, <2>2, <2>3
<1>11. ASSUME NEW v \in lutnet'.lut
       PROVE  lutnet'.truth[v] \subseteq SUBSET lutnet'.fanin[v]
  <2>1. CASE v \in E
    BY <2>1, RewritingFacts DEF EncoderTruth
  <2>2. CASE v \in g.luts
    <3>1. lutnet'.fanin[v] = E \cup (seen.fanin[v] \ kill) /\ lutnet'.truth[v] = MemberTruth(g, kill, c, E, v)
      BY <2>2, RewritingFacts
    <3>2. MemberTruth(g, kill, c, E, v) \subseteq SUBSET (E \cup (seen.fanin[v] \ kill))
      BY Zenon DEF MemberTruth
    <3> QED  BY <3>1, <3>2
  <2>3. CASE v \in lutnet.lut \ g.luts
    <3>1. lutnet'.fanin[v] = lutnet.fanin[v] /\ lutnet'.truth[v] = lutnet.truth[v]
      BY <2>3, RewritingFacts
    <3> QED  BY <1>1, <2>3, <3>1 DEF IsLutNetwork
  <2> QED  BY <1>4, <2>1, <2>2, <2>3
<1> HIDE DEF V
<1> QED  BY <1>4, <1>5, <1>6, <1>7, <1>9, <1>10, <1>11 DEF IsLutNetwork

(* The code of an assignment b leads every member to a representative of    *)
(* the class of b.                                                          *)
LEMMA RepresentativeAgrees ==
  ASSUME NEW g, NEW kill, NEW E, NEW c, IsCode(c, Keys(g, kill), E),
         NEW b \in SUBSET kill, NEW v \in g.luts
  PROVE  LET r == Representative(g, kill, c, c[Key(g, kill, b)]) IN
         r \in SUBSET kill /\ Restriction(v, kill, r) = Restriction(v, kill, b)
<1> DEFINE D == Keys(g, kill)
           s == c[Key(g, kill, b)]
           r == Representative(g, kill, c, s)
<1>1. \A x \in SUBSET kill : Key(g, kill, x) \in D
  BY DEF Keys
<1>2. DOMAIN c = D /\ \A j, k \in D : c[j] = c[k] => j = k
  BY DEF IsCode
<1>3. \E j \in DOMAIN c : c[j] = s
  BY <1>1, <1>2
<1>4. r = CHOOSE x \in SUBSET kill : c[Key(g, kill, x)] = s
  <2> HIDE DEF s
  <2> QED  BY <1>3 DEF Representative
<1>5. \E x \in SUBSET kill : c[Key(g, kill, x)] = s
  OBVIOUS
<1>6. r \in SUBSET kill /\ c[Key(g, kill, r)] = s
  <2> HIDE DEF s, r
  <2> QED  BY <1>4, <1>5
<1>7. Key(g, kill, r) = Key(g, kill, b)
  <2> HIDE DEF r
  <2> QED  BY <1>1, <1>2, <1>6
<1>8. Restriction(v, kill, r) = Restriction(v, kill, b)
  <2>1. Key(g, kill, r)[v] = Restriction(v, kill, r) /\ Key(g, kill, b)[v] = Restriction(v, kill, b)
    BY DEF Key
  <2> HIDE DEF r
  <2> QED  BY <1>7, <2>1
<1> QED  BY <1>6, <1>8

----------------------------------------------------------------------------
(* A rewrite keeps the equation of every LUT. *)
LEMMA RewritingKeepsEquations ==
  ASSUME RewriteInv, dst \in {0, 1},
         NEW g, NEW kill, NEW t, NEW E, NEW c, Rewriting(g, kill, t, E, c),
         NEW a \in SUBSET LutVertices(lutnet), NEW v \in lutnet.lut
  PROVE  a \cap lutnet.fanin[v] \in lutnet.truth[v]
           <=> EncodedValues(a) \cap lutnet'.fanin[v] \in lutnet'.truth[v]
<1> DEFINE b    == a \cap kill
           s    == c[Key(g, kill, b)]
           free == seen.fanin[v] \ kill
           r    == Representative(g, kill, c, s)
<1>1. E \cap LutVertices(lutnet) = {} /\ lutnet'.lut = lutnet.lut \cup E
  BY RewritingFacts
<1>2. E \cap lutnet.lut = {} /\ lutnet'.lut \ lutnet.lut = E
  BY <1>1 DEF LutVertices
<1>3. lutnet.fanin[v] \subseteq LutVertices(lutnet)
  BY DEF RewriteInv, IsLutNetwork
<1>4. EncodedValues(a) = a \cup s
  <2>1. IsCode(c, Keys(g, kill), E) /\ Key(g, kill, b) \in Keys(g, kill)
    BY DEF Rewriting, Keys
  <2>2. s \subseteq E
    BY <2>1 DEF IsCode
  <2>3. \A e \in E : a \cap lutnet'.fanin[e] \in lutnet'.truth[e] <=> e \in s
    <3>1. \A e \in E : lutnet'.fanin[e] = kill /\ lutnet'.truth[e] = EncoderTruth(g, kill, c, e)
      BY RewritingFacts
    <3> QED  BY <3>1 DEF EncoderTruth
  <2>4. EncodedValues(a) = a \cup {e \in E : a \cap lutnet'.fanin[e] \in lutnet'.truth[e]}
    BY <1>2 DEF EncodedValues
  <2> HIDE DEF s
  <2> QED  BY <2>2, <2>3, <2>4
<1>5. s \subseteq E
  <2>1. IsCode(c, Keys(g, kill), E) /\ Key(g, kill, b) \in Keys(g, kill)
    BY DEF Rewriting, Keys
  <2> QED  BY <2>1 DEF IsCode
<1>6. CASE v \notin g.luts
  <2>1. lutnet'.fanin[v] = lutnet.fanin[v] /\ lutnet'.truth[v] = lutnet.truth[v]
    BY <1>6, RewritingFacts
  <2>2. (a \cup s) \cap lutnet.fanin[v] = a \cap lutnet.fanin[v]
    <3> HIDE DEF s
    <3> QED  BY <1>1, <1>3, <1>5
  <2> HIDE DEF s
  <2> QED  BY <1>4, <2>1, <2>2
<1>7. CASE v \in g.luts
  <2>1. lutnet'.fanin[v] = E \cup free /\ lutnet'.truth[v] = MemberTruth(g, kill, c, E, v)
    BY <1>7, RewritingFacts
  <2>2. lutnet.fanin[v] = seen.fanin[v] /\ lutnet.truth[v] = seen.truth[v]
    BY <1>7 DEF Rewriting
  <2> DEFINE x == (a \cup s) \cap (E \cup free)
  <2>3. x \in SUBSET (E \cup free) /\ x \cap E = s /\ x \cap free = a \cap free
    <3> HIDE DEF s
    <3> QED  BY <1>1, <1>3, <1>5, <2>2
  <2>4. x \in MemberTruth(g, kill, c, E, v)
          <=> (a \cap free) \cup (r \cap seen.fanin[v]) \in seen.truth[v]
    <3>1. x \in MemberTruth(g, kill, c, E, v)
            <=> (x \cap free) \cup (Representative(g, kill, c, x \cap E) \cap seen.fanin[v])
                  \in seen.truth[v]
      <4> HIDE DEF x
      <4> QED  BY <2>3 DEF MemberTruth
    <3> HIDE DEF x, s, free
    <3> QED  BY <2>3, <3>1
  <2>5. r \in SUBSET kill /\ Restriction(v, kill, r) = Restriction(v, kill, b)
    <3>1. IsCode(c, Keys(g, kill), E) /\ b \in SUBSET kill
      BY DEF Rewriting
    <3> QED  BY <1>7, <3>1, RepresentativeAgrees
  <2>6. (a \cap free) \cup (r \cap seen.fanin[v]) \in seen.truth[v]
          <=> (a \cap free) \cup (b \cap seen.fanin[v]) \in seen.truth[v]
    <3>1. \A y : a \cap free \in Restriction(v, kill, y)
                  <=> (a \cap free) \cup (y \cap seen.fanin[v]) \in seen.truth[v]
      BY DEF Restriction
    <3> HIDE DEF r, b
    <3> QED  BY <2>5, <3>1
  <2>7. (a \cap free) \cup (b \cap seen.fanin[v]) = a \cap seen.fanin[v]
    OBVIOUS
  <2>8. EncodedValues(a) \cap lutnet'.fanin[v] = x
    <3> HIDE DEF s, free
    <3> QED  BY <1>4, <2>1
  <2> HIDE DEF x, r, b, free
  <2> QED  BY <2>1, <2>2, <2>4, <2>6, <2>7, <2>8
<1> QED  BY <1>6, <1>7

(* A rewrite puts no LUT over K inputs. *)
LEMMA RewritingFits ==
  ASSUME RewriteInv, dst \in {0, 1}, Fits(lutnet),
         NEW g, NEW kill, NEW t, NEW E, NEW c, Rewriting(g, kill, t, E, c)
  PROVE  Fits(lutnet')
<1>1. t \in Nat /\ E = EncoderIds(t) /\ Feasible(g, kill, t) /\ Cardinality(kill) <= LutSize
  BY DEF Rewriting
<1>2. IsFiniteSet(E) /\ Cardinality(E) = t
  BY <1>1, EncoderIdsFresh DEF RewriteInv
<1>3. ASSUME NEW v \in lutnet'.lut
      PROVE  Cardinality(lutnet'.fanin[v]) <= LutSize
  <2>1. CASE v \in E
    BY <1>1, <2>1, RewritingFacts
  <2>2. CASE v \in g.luts
    <3> DEFINE free == seen.fanin[v] \ kill
    <3>1. lutnet'.fanin[v] = E \cup free
      BY <2>2, RewritingFacts
    <3>2. t + Cardinality(free) <= LutSize
      BY <1>1, <2>2 DEF Feasible
    <3>3. seen.fanin[v] \subseteq LutVertices(lutnet)
      <4>1. v \in lutnet.lut /\ lutnet.fanin[v] = seen.fanin[v]
        BY <2>2 DEF Rewriting
      <4> QED  BY <4>1 DEF RewriteInv, IsLutNetwork
    <3>4. IsFiniteSet(free)
      <4>1. IsFiniteSet(LutVertices(lutnet)) /\ free \subseteq LutVertices(lutnet)
        BY <3>3, LutVerticesFinite DEF RewriteInv
      <4> HIDE DEF free
      <4> QED  BY <4>1, FS_Subset
    <3>5. E \cap free = {}
      BY <3>3, RewritingFacts
    <3> HIDE DEF free
    <3>6. Cardinality(E \cup free) = Cardinality(E) + Cardinality(free) - Cardinality(E \cap free)
      BY <1>2, <3>4, FS_Union
    <3>7. Cardinality(E \cap free) = 0
      BY <3>5, FS_EmptySet
    <3>8. Cardinality(free) \in Nat
      BY <3>4, FS_CardinalityType
    <3>9. Cardinality(E \cup free) <= LutSize
      BY <1>1, <1>2, <3>2, <3>6, <3>7, <3>8
    <3> QED  BY <3>1, <3>9
  <2>3. CASE v \in lutnet.lut \ g.luts
    <3>1. lutnet'.fanin[v] = lutnet.fanin[v]
      BY <2>3, RewritingFacts
    <3> QED  BY <2>3, <3>1 DEF Fits
  <2>4. lutnet'.lut = lutnet.lut \cup E
    BY RewritingFacts
  <2> QED  BY <2>1, <2>2, <2>3, <2>4
<1> QED  BY <1>3 DEF Fits

(* A rewrite saves more crossing nets than it adds. *)
LEMMA RewritingCuts ==
  ASSUME RewriteInv, dst \in {0, 1},
         NEW g, NEW kill, NEW t, NEW E, NEW c, Rewriting(g, kill, t, E, c)
  PROVE  Cardinality(CrossingNets(lutnet')) < Cardinality(CrossingNets(lutnet))
<1>1. /\ t \in Nat /\ E = EncoderIds(t) /\ t < Cardinality(kill)
      /\ IsFiniteSet(kill) /\ Cardinality(kill) \in Nat
      /\ kill = Kill(g) /\ kill \subseteq g.bound /\ GoodGroup(g)
  BY DEF Rewriting
<1>2. IsFiniteSet(E) /\ Cardinality(E) = t /\ E \cap LutVertices(lutnet) = {}
  BY <1>1, EncoderIdsFresh DEF RewriteInv
<1>3. ASSUME NEW u \in kill
      PROVE  /\ u \in LutVertices(lutnet) /\ lutnet.part[u] = 1 - dst
             /\ \E v \in g.luts : u \in lutnet.fanin[v] /\ lutnet.part[v] = dst
  <2>1. PICK v \in g.luts : u \in Bound(seen, v)
    BY <1>1 DEF GoodGroup
  <2>2. u \in seen.fanin[v] /\ seen.part[u] = 1 - dst /\ seen.part[v] = dst /\ v \in seen.lut
    BY <1>1, <2>1 DEF Bound, GoodGroup
  <2>3. u \in LutVertices(seen) /\ v \in LutVertices(seen)
    BY <1>1, <2>2 DEF GoodGroup, LutVertices
  <2>4. lutnet.part[u] = 1 - dst /\ lutnet.part[v] = dst /\ u \in LutVertices(lutnet)
    BY <2>2, <2>3 DEF RewriteInv, SeenInv
  <2>5. lutnet.fanin[v] = seen.fanin[v]
    BY DEF Rewriting
  <2> QED  BY <2>2, <2>4, <2>5
<1>4. kill \subseteq CrossingNets(lutnet)
  <2>1. ASSUME NEW u \in kill  PROVE  u \in CrossingNets(lutnet)
    <3>1. PICK v \in g.luts : u \in lutnet.fanin[v] /\ lutnet.part[v] = dst
      BY <1>3
    <3>2. v \in lutnet.lut
      BY RewritingFacts
    <3>3. {lutnet.part[u], lutnet.part[v]} = {0, 1}
      BY <1>3, <3>1
    <3> QED  BY <1>3, <3>1, <3>2, <3>3 DEF CrossingNets
  <2> QED  BY <2>1
<1>5. CrossingNets(lutnet') \subseteq (CrossingNets(lutnet) \ kill) \cup E
  <2>1. LutVertices(lutnet') = LutVertices(lutnet) \cup E /\ lutnet'.lut = lutnet.lut \cup E
    BY RewritingFacts DEF LutVertices
  <2>2. ASSUME NEW u \in LutVertices(lutnet), NEW w \in lutnet'.lut,
               u \in lutnet'.fanin[w], {lutnet'.part[u], lutnet'.part[w]} = {0, 1}
        PROVE  u \in CrossingNets(lutnet) \ kill
    <3>1. lutnet'.part[u] = lutnet.part[u] /\ u \notin E
      BY <1>2, RewritingFacts
    <3>2. w \notin E
      <4> SUFFICES ASSUME w \in E PROVE FALSE
        OBVIOUS
      <4>1. u \in kill /\ lutnet'.part[w] = 1 - dst
        BY <2>2, RewritingFacts
      <4>2. lutnet.part[u] = 1 - dst
        BY <1>3, <4>1
      <4> QED  BY <2>2, <3>1, <4>1, <4>2
    <3>3. w \in lutnet.lut /\ lutnet'.part[w] = lutnet.part[w]
      <4>1. w \in lutnet.lut
        BY <2>1, <3>2
      <4> QED  BY <4>1, RewritingFacts DEF LutVertices
    <3>4. CASE w \in g.luts
      <4>1. u \in seen.fanin[w] \ kill
        BY <2>2, <3>1, <3>4, RewritingFacts
      <4>2. u \in lutnet.fanin[w]
        BY <3>4, <4>1 DEF Rewriting
      <4> QED  BY <2>2, <3>1, <3>3, <4>1, <4>2 DEF CrossingNets
    <3>5. CASE w \notin g.luts
      <4>1. u \in lutnet.fanin[w]
        BY <2>2, <3>3, <3>5, RewritingFacts
      <4>2. u \notin kill
        <5> SUFFICES ASSUME u \in kill PROVE FALSE
          OBVIOUS
        <5>1. lutnet.part[w] # dst
          BY <1>1, <3>3, <3>5, <4>1 DEF Kill
        <5>2. lutnet.part[u] = 1 - dst
          BY <1>3
        <5> QED  BY <2>2, <3>1, <3>3, <5>1, <5>2
      <4> QED  BY <2>2, <3>1, <3>3, <4>1, <4>2 DEF CrossingNets
    <3> QED  BY <3>4, <3>5
  <2> QED  BY <2>1, <2>2 DEF CrossingNets
<1> DEFINE C == CrossingNets(lutnet)
           C1 == CrossingNets(lutnet')
<1>6. IsFiniteSet(C)
  <2>1. C \subseteq LutVertices(lutnet) /\ IsFiniteSet(LutVertices(lutnet))
    BY LutVerticesFinite DEF RewriteInv, CrossingNets
  <2> HIDE DEF C
  <2> QED  BY <2>1, FS_Subset
<1>7. C1 \subseteq (C \ kill) \cup E /\ kill \subseteq C
  BY <1>4, <1>5
<1> HIDE DEF C, C1
<1>8. IsFiniteSet(C \ kill) /\ Cardinality(C \ kill) = Cardinality(C) - Cardinality(C \cap kill)
  BY <1>6, FS_Difference
<1>9. C \cap kill = kill
  BY <1>7
<1>10. IsFiniteSet((C \ kill) \cup E)
       /\ Cardinality((C \ kill) \cup E)
            = Cardinality(C \ kill) + Cardinality(E) - Cardinality((C \ kill) \cap E)
  BY <1>2, <1>8, FS_Union
<1>11. Cardinality((C \ kill) \cap E) \in Nat
  <2>1. IsFiniteSet((C \ kill) \cap E)
    BY <1>8, FS_Intersection
  <2> QED  BY <2>1, FS_CardinalityType
<1>12. Cardinality(C1) <= Cardinality((C \ kill) \cup E) /\ IsFiniteSet(C1)
  BY <1>7, <1>10, FS_Subset
<1>13. Cardinality(C) \in Nat /\ Cardinality(C1) \in Nat
  BY <1>6, <1>12, FS_CardinalityType
<1>14. Cardinality(C1) < Cardinality(C)
  <2>1. Cardinality((C \ kill) \cup E)
          = Cardinality(C) - Cardinality(kill) + t - Cardinality((C \ kill) \cap E)
    BY <1>2, <1>8, <1>9, <1>10
  <2> QED  BY <1>1, <1>11, <1>12, <1>13, <2>1
<1> QED  BY <1>14 DEF C, C1

----------------------------------------------------------------------------
(* The invariant holds initially and every action keeps it. *)
LEMMA InitInv == LutInit => RewriteInv
<1> SUFFICES ASSUME LutInit PROVE RewriteInv
  OBVIOUS
<1>1. IsLutNetwork(lutnet) /\ seen = lutnet /\ initial = lutnet
  BY LutNetworksAssumption DEF LutInit
<1>2. LutGroupsInv
  BY DEF LutInit, LutGroupsInv
<1>3. SeenInv /\ FirstInv /\ FitsLut
  BY <1>1 DEF SeenInv, FirstInv, FitsLut
<1>4. PhaseInv
  BY DEF LutInit, PhaseInv
<1> QED  BY <1>1, <1>2, <1>3, <1>4 DEF RewriteInv

LEMMA CollectInv == RewriteInv /\ CollectLuts => RewriteInv'
<1> SUFFICES ASSUME RewriteInv, CollectLuts PROVE RewriteInv'
  OBVIOUS
<1>1. /\ lutnet' = lutnet /\ initial' = initial /\ seen' = lutnet /\ dst' = dst
      /\ todo' = todo /\ todo = <<>> /\ left' = BoundaryLuts(lutnet) /\ pc' = "group"
  BY DEF CollectLuts, RewriteInv, PhaseInv
<1>2. BoundaryLuts(seen)' = BoundaryLuts(lutnet)
  BY <1>1 DEF BoundaryLuts, Bound
<1>3. LutGroupsInv'
  BY <1>1, <1>2 DEF LutGroupsInv
<1>4. SeenInv'
  BY <1>1 DEF SeenInv
<1>5. PhaseInv'
  BY <1>1 DEF RewriteInv, PhaseInv, CollectLuts
<1>6. FirstInv' /\ FitsLut'
  BY <1>1 DEF RewriteInv, FirstInv, FitsLut
<1> QED  BY <1>1, <1>3, <1>4, <1>5, <1>6 DEF RewriteInv

LEMMA GroupNextInv == RewriteInv /\ GroupNext => RewriteInv'
<1> SUFFICES ASSUME RewriteInv, GroupNext PROVE RewriteInv'
  OBVIOUS
<1>1. PICK v \in left :
        /\ left' = left \ {v}
        /\ \/ Joins(v) /\ todo' = [todo EXCEPT ![Len(todo)] = With(@, v)]
           \/ ~Joins(v) /\ todo' = Append(todo, [luts |-> {v}, bound |-> Bound(seen, v)])
  BY DEF GroupNext
<1>2. lutnet' = lutnet /\ initial' = initial /\ seen' = seen /\ dst' = dst /\ pc' = pc /\ pc = "group"
  BY DEF GroupNext
<1>3. v \in BoundaryLuts(seen) /\ todo \in Seq(GroupType)
  BY DEF RewriteInv, LutGroupsInv
<1>4. v \in seen.lut /\ seen.part[v] = dst
  BY <1>3 DEF BoundaryLuts
<1>5. Bound(seen, v) \subseteq LutVertices(seen)
  BY <1>4 DEF Bound, RewriteInv, IsLutNetwork
<1>6. \A i \in 1 .. Len(todo) : v \notin todo[i].luts
  BY DEF RewriteInv, LutGroupsInv
<1>7. /\ LutGroupsInv'
      /\ \A w : Pending(w)' => Pending(w)
  <2> DEFINE n == Len(todo)
  <2>1. CASE Joins(v) /\ todo' = [todo EXCEPT ![n] = With(@, v)]
    <3> DEFINE old == todo[n]
               new == With(old, v)
    <3>1. todo # <<>>
      BY <2>1 DEF Joins
    <3>2. n \in 1 .. n /\ old \in GroupType /\ GoodGroup(old)
      BY <1>3, <3>1 DEF RewriteInv, LutGroupsInv
    <3>3. new.luts = old.luts \cup {v} /\ new.bound = old.bound \cup Bound(seen, v)
      BY DEF With
    <3>4. new \in GroupType
      BY <1>4, <1>5, <3>2 DEF With, GroupType
    <3>5. GoodGroup(new)
      <4> HIDE DEF old, new
      <4> QED  BY <1>4, <1>5, <3>2, <3>3 DEF GoodGroup
    <3>6. /\ todo' \in Seq(GroupType) /\ Len(todo') = n
          /\ \A i \in 1 .. n : todo'[i] = IF i = n THEN new ELSE todo[i]
      <4> HIDE DEF new
      <4>1. todo' = [todo EXCEPT ![n] = new]
        BY <2>1 DEF new
      <4>2. n \in Nat /\ todo \in [1 .. n -> GroupType]
        BY <1>3
      <4> HIDE DEF n
      <4>3. /\ todo' \in [1 .. n -> GroupType]
            /\ \A i \in 1 .. n : todo'[i] = IF i = n THEN new ELSE todo[i]
        BY <3>2, <3>4, <4>1, <4>2
      <4>4. todo' \in Seq(GroupType) /\ Len(todo') = n
        BY <4>2, <4>3
      <4> QED  BY <4>3, <4>4
    <3>7. \A i \in 1 .. n : todo'[i].luts = IF i = n THEN old.luts \cup {v} ELSE todo[i].luts
      BY <3>3, <3>6
    <3>8. \A i \in 1 .. n : GoodGroup(todo'[i])
      <4> HIDE DEF new
      <4> QED  BY <3>5, <3>6 DEF RewriteInv, LutGroupsInv
    <3>9. \A i \in 1 .. n : GoodGroup(todo[i])'
      BY <1>2, <3>8 DEF GoodGroup, Bound, LutVertices
    <3>10. \A i, j \in 1 .. n : i # j => todo[i].luts \cap todo[j].luts = {}
      BY DEF RewriteInv, LutGroupsInv
    <3>11. \A i, j \in 1 .. n : i # j => todo'[i].luts \cap todo'[j].luts = {}
      BY <1>6, <3>7, <3>10
    <3>12. \A i \in 1 .. n : left' \cap todo'[i].luts = {}
      <4>1. \A i \in 1 .. n : left \cap todo[i].luts = {}
        BY DEF RewriteInv, LutGroupsInv
      <4> QED  BY <1>1, <3>7, <4>1
    <3>13. left' \subseteq BoundaryLuts(seen)'
      BY <1>1, <1>2 DEF RewriteInv, LutGroupsInv, BoundaryLuts, Bound
    <3>14. GroupType' = GroupType
      BY <1>2 DEF GroupType, LutVertices
    <3>15. LutGroupsInv'
      <4> HIDE DEF n
      <4> QED  BY <3>6, <3>9, <3>11, <3>12, <3>13, <3>14 DEF LutGroupsInv
    <3>16. ASSUME NEW w, Pending(w)'  PROVE  Pending(w)
      <4>1. CASE w \in left'
        BY <1>1, <4>1 DEF Pending
      <4>2. ASSUME NEW i \in 1 .. n, w \in todo'[i].luts  PROVE Pending(w)
        BY <1>1, <3>2, <3>7, <4>2 DEF Pending
      <4> HIDE DEF n
      <4> QED  BY <3>6, <3>16, <4>1, <4>2 DEF Pending
    <3> QED  BY <3>15, <3>16
  <2>2. CASE ~Joins(v) /\ todo' = Append(todo, [luts |-> {v}, bound |-> Bound(seen, v)])
    <3> DEFINE new == [luts |-> {v}, bound |-> Bound(seen, v)]
    <3>1. new \in GroupType
      BY <1>4, <1>5 DEF GroupType
    <3>2. GoodGroup(new)
      BY <1>4, <1>5 DEF GoodGroup
    <3>3. /\ todo' \in Seq(GroupType) /\ Len(todo') = n + 1 /\ n \in Nat
          /\ \A i \in 1 .. n + 1 : todo'[i] = IF i = n + 1 THEN new ELSE todo[i]
      <4>1. todo' = Append(todo, new)
        BY <2>2
      <4> HIDE DEF new
      <4> QED  BY <1>3, <3>1, <4>1
    <3>4. \A i \in 1 .. n + 1 : i # n + 1 => i \in 1 .. n
      BY <3>3
    <3>5. \A i \in 1 .. n + 1 : todo'[i].luts = IF i = n + 1 THEN {v} ELSE todo[i].luts
      <4>1. new.luts = {v}
        OBVIOUS
      <4> HIDE DEF new, n
      <4> QED  BY <3>3, <4>1
    <3>6. \A i \in 1 .. n + 1 : GoodGroup(todo'[i])
      <4> HIDE DEF new
      <4> QED  BY <3>2, <3>3, <3>4 DEF RewriteInv, LutGroupsInv
    <3>7. \A i \in 1 .. n + 1 : GoodGroup(todo[i])'
      BY <1>2, <3>6 DEF GoodGroup, Bound, LutVertices
    <3>8. \A i, j \in 1 .. n : i # j => todo[i].luts \cap todo[j].luts = {}
      BY DEF RewriteInv, LutGroupsInv
    <3>9. \A i, j \in 1 .. n + 1 : i # j => todo'[i].luts \cap todo'[j].luts = {}
      <4> HIDE DEF n
      <4> QED  BY <1>6, <3>4, <3>5, <3>8 DEF n
    <3>10. \A i \in 1 .. n + 1 : left' \cap todo'[i].luts = {}
      <4>1. \A i \in 1 .. n : left \cap todo[i].luts = {}
        BY DEF RewriteInv, LutGroupsInv
      <4> QED  BY <1>1, <3>4, <3>5, <4>1
    <3>11. left' \subseteq BoundaryLuts(seen)'
      BY <1>1, <1>2 DEF RewriteInv, LutGroupsInv, BoundaryLuts, Bound
    <3>12. GroupType' = GroupType
      BY <1>2 DEF GroupType, LutVertices
    <3>13. LutGroupsInv'
      <4> HIDE DEF n
      <4> QED  BY <3>3, <3>7, <3>9, <3>10, <3>11, <3>12 DEF LutGroupsInv
    <3>14. ASSUME NEW w, Pending(w)'  PROVE  Pending(w)
      <4>1. CASE w \in left'
        BY <1>1, <4>1 DEF Pending
      <4>2. ASSUME NEW i \in 1 .. n + 1, w \in todo'[i].luts  PROVE Pending(w)
        <5>1. CASE i = n + 1
          BY <1>1, <3>5, <4>2, <5>1 DEF Pending
        <5>2. CASE i # n + 1
          BY <3>4, <3>5, <4>2, <5>2 DEF Pending
        <5> QED  BY <5>1, <5>2
      <4> HIDE DEF n
      <4> QED  BY <3>3, <3>14, <4>1, <4>2 DEF Pending
    <3> QED  BY <3>13, <3>14
  <2> QED  BY <1>1, <2>1, <2>2
<1>8. SeenInv'
  <2>1. \A w \in lutnet.lut : Pending(w)' => Pending(w)
    BY <1>7
  <2> QED  BY <1>2, <2>1 DEF RewriteInv, SeenInv, LutVertices
<1>9. PhaseInv'
  BY <1>2 DEF RewriteInv, PhaseInv
<1>10. FirstInv' /\ FitsLut'
  BY <1>2 DEF RewriteInv, FirstInv, FitsLut
<1> QED  BY <1>2, <1>7, <1>8, <1>9, <1>10 DEF RewriteInv

LEMMA GroupedInv == RewriteInv /\ Grouped => RewriteInv'
<1> SUFFICES ASSUME RewriteInv, Grouped PROVE RewriteInv'
  OBVIOUS
<1>1. UNCHANGED <<lutnet, dst, seen, left, todo, initial>> /\ left = {} /\ pc = "group" /\ pc' = "apply"
  BY DEF Grouped
<1>2. LutGroupsInv'
  BY <1>1 DEF RewriteInv, LutGroupsInv, GoodGroup, GroupType, BoundaryLuts, Bound, LutVertices
<1>3. SeenInv' /\ FirstInv' /\ FitsLut'
  BY <1>1 DEF RewriteInv, SeenInv, FirstInv, FitsLut, Pending, LutVertices
<1>4. PhaseInv'
  BY <1>1 DEF RewriteInv, PhaseInv
<1> QED  BY <1>1, <1>2, <1>3, <1>4 DEF RewriteInv

(* Dropping the first group keeps what is said of the others. *)
LEMMA TailGroups ==
  ASSUME RewriteInv, todo # <<>>, todo' = Tail(todo), pc = "apply",
         UNCHANGED <<dst, seen, left, pc, initial>>
  PROVE  /\ LutGroupsInv' /\ PhaseInv'
         /\ \A v : Pending(v)' => Pending(v) /\ v \notin Head(todo).luts
<1>1. todo \in Seq(GroupType) /\ Len(todo) \in Nat /\ left = {}
  BY DEF RewriteInv, LutGroupsInv, PhaseInv
<1>2. /\ todo' \in Seq(GroupType) /\ Len(todo') = Len(todo) - 1
      /\ \A i \in 1 .. Len(todo') : todo'[i] = todo[i + 1]
  BY <1>1
<1>3. \A i \in 1 .. Len(todo') : i + 1 \in 1 .. Len(todo) /\ i + 1 # 1
  BY <1>1, <1>2
<1>4. \A i \in 1 .. Len(todo') : GoodGroup(todo'[i])
  BY <1>2, <1>3 DEF RewriteInv, LutGroupsInv
<1>5. \A i \in 1 .. Len(todo') : GoodGroup(todo[i])'
  BY <1>4 DEF GoodGroup, Bound, LutVertices
<1>6. \A i, j \in 1 .. Len(todo) : i # j => todo[i].luts \cap todo[j].luts = {}
  BY DEF RewriteInv, LutGroupsInv
<1>7. ASSUME NEW i \in 1 .. Len(todo'), NEW j \in 1 .. Len(todo'), i # j
      PROVE  todo'[i].luts \cap todo'[j].luts = {}
  <2>1. i + 1 # j + 1
    BY <1>1, <1>2, <1>7
  <2> QED  BY <1>2, <1>3, <1>6, <2>1
<1>8. left' \subseteq BoundaryLuts(seen)'
  BY <1>1
<1>9. GroupType' = GroupType
  BY DEF GroupType, LutVertices
<1>10. LutGroupsInv'
  BY <1>1, <1>2, <1>5, <1>7, <1>8, <1>9 DEF LutGroupsInv
<1>11. PhaseInv'
  BY DEF RewriteInv, PhaseInv
<1>12. ASSUME NEW v, Pending(v)'  PROVE  Pending(v) /\ v \notin Head(todo).luts
  <2>1. PICK i \in 1 .. Len(todo') : v \in todo'[i].luts
    BY <1>1, <1>12 DEF Pending
  <2>2. v \in todo[i + 1].luts /\ i + 1 \in 1 .. Len(todo) /\ i + 1 # 1
    BY <1>2, <1>3, <2>1
  <2>3. 1 \in 1 .. Len(todo) /\ Head(todo) = todo[1]
    BY <1>1
  <2>4. v \notin todo[1].luts
    BY <1>6, <2>2, <2>3
  <2> QED  BY <2>2, <2>3, <2>4 DEF Pending
<1> QED  BY <1>10, <1>11, <1>12

LEMMA ApplyGroupInv == RewriteInv /\ ApplyGroup => RewriteInv'
<1> SUFFICES ASSUME RewriteInv, ApplyGroup PROVE RewriteInv'
  OBVIOUS
<1>1. /\ todo # <<>> /\ todo' = Tail(todo) /\ pc = "apply"
      /\ UNCHANGED <<dst, seen, left, pc, initial>>
  BY DEF ApplyGroup
<1>2. dst \in {0, 1}
  BY <1>1 DEF RewriteInv, PhaseInv
<1>3. PICK g : \E kill, t, E, c : Rewriting(g, kill, t, E, c) /\ g = Head(todo)
  BY ApplyRewrites
<1>4. PICK kill : \E t, E, c : Rewriting(g, kill, t, E, c) /\ g = Head(todo)
  BY <1>3
<1>5. PICK t : \E E, c : Rewriting(g, kill, t, E, c) /\ g = Head(todo)
  BY <1>4
<1>6. PICK E : \E c : Rewriting(g, kill, t, E, c) /\ g = Head(todo)
  BY <1>5
<1>7. PICK c : Rewriting(g, kill, t, E, c) /\ g = Head(todo)
  BY <1>6
<1>8. IsLutNetwork(lutnet') /\ IsLutNetwork(seen)' /\ IsLutNetwork(initial)'
  BY <1>1, <1>2, <1>7, RewritingIsNetwork DEF RewriteInv
<1>9. /\ LutGroupsInv' /\ PhaseInv'
      /\ \A v : Pending(v)' => Pending(v) /\ v \notin g.luts
  BY <1>1, <1>7, TailGroups
<1>10. /\ lutnet'.lut = lutnet.lut \cup E /\ lutnet'.pi = lutnet.pi /\ E \cap LutVertices(lutnet) = {}
       /\ \A v \in LutVertices(lutnet) : lutnet'.part[v] = lutnet.part[v]
       /\ \A v \in lutnet.lut \ g.luts : lutnet'.fanin[v] = lutnet.fanin[v] /\ lutnet'.truth[v] = lutnet.truth[v]
  BY <1>2, <1>7, RewritingFacts
<1>11. SeenInv'
  <2>1. seen.lut \subseteq lutnet'.lut /\ LutVertices(seen) \subseteq LutVertices(lutnet')
    BY <1>10 DEF RewriteInv, SeenInv, LutVertices
  <2>2. \A v \in LutVertices(seen) : lutnet'.part[v] = seen.part[v]
    BY <1>10 DEF RewriteInv, SeenInv
  <2>3. ASSUME NEW v \in lutnet'.lut, Pending(v)'
        PROVE  lutnet'.fanin[v] = seen.fanin[v] /\ lutnet'.truth[v] = seen.truth[v]
    <3>1. Pending(v) /\ v \notin g.luts
      BY <1>9, <2>3
    <3>2. v \in lutnet.lut
      <4>1. CASE v \in left
        BY <4>1 DEF RewriteInv, LutGroupsInv, BoundaryLuts, SeenInv
      <4>2. ASSUME NEW i \in 1 .. Len(todo), v \in todo[i].luts  PROVE v \in lutnet.lut
        BY <4>2 DEF RewriteInv, LutGroupsInv, GoodGroup, SeenInv
      <4> QED  BY <3>1, <4>1, <4>2 DEF Pending
    <3>3. lutnet'.fanin[v] = lutnet.fanin[v] /\ lutnet'.truth[v] = lutnet.truth[v]
      BY <1>10, <3>1, <3>2
    <3> QED  BY <3>1, <3>2, <3>3 DEF RewriteInv, SeenInv
  <2> QED  BY <1>1, <2>1, <2>2, <2>3 DEF SeenInv, LutVertices
<1>12. FirstInv'
  <2>1. initial.lut \subseteq lutnet'.lut /\ LutVertices(initial) \subseteq LutVertices(lutnet')
    BY <1>10 DEF RewriteInv, FirstInv, LutVertices
  <2>2. \A v \in LutVertices(initial) : lutnet'.part[v] = initial.part[v]
    BY <1>10 DEF RewriteInv, FirstInv
  <2> QED  BY <1>1, <2>1, <2>2 DEF FirstInv, LutVertices
<1>13. FitsLut'
  <2>1. Fits(lutnet) => Fits(lutnet')
    BY <1>2, <1>7, RewritingFits
  <2>2. Fits(initial)' = Fits(initial) /\ Fits(lutnet)' = Fits(lutnet')
    BY <1>1 DEF Fits
  <2> QED  BY <2>1, <2>2 DEF RewriteInv, FitsLut
<1> QED  BY <1>8, <1>9, <1>11, <1>12, <1>13 DEF RewriteInv, IsLutNetwork, LutVertices

LEMMA SkipGroupInv == RewriteInv /\ SkipGroup => RewriteInv'
<1> SUFFICES ASSUME RewriteInv, SkipGroup PROVE RewriteInv'
  OBVIOUS
<1>1. /\ todo # <<>> /\ todo' = Tail(todo) /\ pc = "apply" /\ lutnet' = lutnet
      /\ UNCHANGED <<dst, seen, left, pc, initial>>
  BY DEF SkipGroup
<1>2. /\ LutGroupsInv' /\ PhaseInv'
      /\ \A v : Pending(v)' => Pending(v)
  BY <1>1, TailGroups
<1>3. SeenInv'
  BY <1>1, <1>2 DEF RewriteInv, SeenInv, LutVertices
<1>4. FirstInv' /\ FitsLut'
  BY <1>1 DEF RewriteInv, FirstInv, FitsLut, LutVertices
<1> QED  BY <1>1, <1>2, <1>3, <1>4 DEF RewriteInv

LEMMA NextDirectionInv == RewriteInv /\ NextDirection => RewriteInv'
<1> SUFFICES ASSUME RewriteInv, NextDirection PROVE RewriteInv'
  OBVIOUS
<1>1. /\ todo = <<>> /\ pc = "apply" /\ dst' = dst + 1
      /\ pc' = (IF dst = 0 THEN "collect" ELSE "done")
      /\ UNCHANGED <<lutnet, seen, left, todo, initial>>
  BY DEF NextDirection
<1>2. dst \in {0, 1} /\ left = {}
  BY <1>1 DEF RewriteInv, PhaseInv
<1>3. LutGroupsInv'
  BY <1>1, <1>2 DEF RewriteInv, LutGroupsInv, GroupType, LutVertices
<1>4. SeenInv' /\ FirstInv' /\ FitsLut'
  BY <1>1 DEF RewriteInv, SeenInv, FirstInv, FitsLut, Pending, LutVertices
<1>5. PhaseInv'
  BY <1>1, <1>2 DEF RewriteInv, PhaseInv
<1> QED  BY <1>1, <1>3, <1>4, <1>5 DEF RewriteInv

LEMMA StepInv == RewriteInv /\ [LutNext]_lutVars => RewriteInv'
<1> SUFFICES ASSUME RewriteInv, [LutNext]_lutVars PROVE RewriteInv'
  OBVIOUS
<1>1. CASE UNCHANGED lutVars
  <2>1. UNCHANGED <<lutnet, dst, seen, left, todo, pc, initial>>
    BY <1>1 DEF lutVars
  <2>2. LutGroupsInv'
    BY <2>1 DEF RewriteInv, LutGroupsInv, GoodGroup, GroupType, BoundaryLuts, Bound, LutVertices
  <2>3. SeenInv' /\ FirstInv' /\ FitsLut'
    BY <2>1 DEF RewriteInv, SeenInv, FirstInv, FitsLut, Pending, LutVertices
  <2>4. PhaseInv'
    BY <2>1 DEF RewriteInv, PhaseInv
  <2> QED  BY <2>1, <2>2, <2>3, <2>4 DEF RewriteInv
<1>2. CASE Finished
  BY <1>1, <1>2 DEF Finished
<1> QED  BY <1>1, <1>2, CollectInv, GroupNextInv, GroupedInv, ApplyGroupInv, SkipGroupInv,
            NextDirectionInv DEF LutNext

LEMMA InvHolds == LutSpec => []RewriteInv
  BY InitInv, StepInv, PTL DEF LutSpec

----------------------------------------------------------------------------
(* Only ApplyGroup changes the network. *)
LEMMA OnlyApplyRewrites ==
  ASSUME RewriteInv, [LutNext]_lutVars, lutnet' # lutnet
  PROVE  /\ dst \in {0, 1}
         /\ \E g, kill, t, E, c : Rewriting(g, kill, t, E, c)
<1>1. ApplyGroup
  BY DEF LutNext, lutVars, CollectLuts, GroupNext, Grouped, SkipGroup, NextDirection, Finished
<1> QED  BY <1>1, ApplyRewrites DEF ApplyGroup, RewriteInv, PhaseInv

(* Every LUT of the old network keeps its equation through every rewrite of *)
(* apply_group, for every group and code.                                   *)
THEOREM EquationsHold == LutSpec => EquationsKept
<1> DEFINE A == \A a \in SUBSET LutVertices(lutnet), v \in lutnet.lut :
                  a \cap lutnet.fanin[v] \in lutnet.truth[v]
                    <=> EncodedValues(a) \cap lutnet'.fanin[v] \in lutnet'.truth[v]
<1>1. RewriteInv /\ [LutNext]_lutVars => [A]_lutVars
  <2> SUFFICES ASSUME RewriteInv, [LutNext]_lutVars PROVE A
    OBVIOUS
  <2>1. CASE lutnet' = lutnet
    <3>1. ASSUME NEW a \in SUBSET LutVertices(lutnet)  PROVE EncodedValues(a) = a
      BY <2>1 DEF EncodedValues
    <3> QED  BY <2>1, <3>1
  <2>2. CASE lutnet' # lutnet
    <3>1. dst \in {0, 1} /\ \E g, kill, t, E, c : Rewriting(g, kill, t, E, c)
      BY <2>2, OnlyApplyRewrites
    <3> QED  BY <3>1, RewritingKeepsEquations
  <2> QED  BY <2>1, <2>2
<1>2. LutSpec => [][A]_lutVars
  BY <1>1, InvHolds, PTL DEF LutSpec
<1> QED  BY <1>2 DEF EquationsKept

(* Every rewrite of apply_group lowers Abc_NtkComputeCutEdgeNum. *)
THEOREM CutsDrop == LutSpec => CutDrops
<1> DEFINE A == lutnet' # lutnet => Cardinality(CrossingNets(lutnet')) < Cardinality(CrossingNets(lutnet))
<1>1. RewriteInv /\ [LutNext]_lutVars => [A]_lutVars
  BY OnlyApplyRewrites, RewritingCuts
<1>2. LutSpec => [][A]_lutVars
  BY <1>1, InvHolds, PTL DEF LutSpec
<1> QED  BY <1>2 DEF CutDrops

(* No LUT has more than K fanins after csr4 if none had before. *)
THEOREM LutsFit == LutSpec => []FitsLut
<1>1. RewriteInv => FitsLut
  BY DEF RewriteInv
<1> QED  BY <1>1, InvHolds, PTL
=============================================================================
