---------------------------------- MODULE Csr3 ----------------------------------
(****************************************************************************)
(* RunCsr3 with -x (csr3/csr3.cpp, csr3_encode.cpp): the signals that cross *)
(* from one part to the other are put into groups with similar supports;    *)
(* the tuples of values that the lines of a group can take are enumerated,  *)
(* and if a shorter code can tell them apart, an encoder in the one part    *)
(* and a decoder in the other take the place of the lines.  Both directions *)
(* are done, one after the other.                                           *)
(*                                                                          *)
(* A tuple is the set of the positions of the group's lines that are true.  *)
(* Simulation and SAT answers are those any patterns and any search order   *)
(* could give, and every SAT call may exceed its conflict limit.            *)
(****************************************************************************)
EXTENDS PartNet

CONSTANTS
  Networks,   (* partitioned networks with the parts 0 and 1 *)
  Configs     (* [jaccard, lines]: -J and -M *)

ASSUME NetworksAssumption ==
  \A n \in Networks : /\ IsNetwork(n) /\ Acyclic(n)
                      /\ \A v \in Vertices(n) : n.part[v] \in {0, 1, NoPart}
ASSUME ConfigsAssumption ==
  \A c \in Configs : c.jaccard \in Nat /\ c.lines \in Nat \ {0}
ASSUME NoPartAssumption == NoPart \notin {0, 1}

VARIABLES
  net, cfg,
  src,        (* srcPart *)
  step,
  groups,     (* those of this direction that are left *)
  tuples,     (* the reachable tuples found so far *)
  saved,      (* globalSaved *)
  cut,        (* the cut size the partition database holds, -1 if none: now, *)
              (* and at the entry                                             *)
  first,      (* the network at the start *)
  before      (* the network before the last codec *)

vars == <<net, cfg, src, step, groups, tuples, saved, cut, first, before>>

----------------------------------------------------------------------------
Crossing(n, p) ==
  {v \in n.node : n.part[v] = p /\ \E w \in Fanouts(n, v) : Foreign(n.part[w], p)}

(* is_cone_leaf, extract_support_partition_aware *)
IsLeaf(n, v, p) == v \in n.pi \/ (n.fanin[v] # <<>> /\ n.part[v] # p)

Support(n, v, p) ==
  LET support[u \in Vertices(n)] ==
        IF IsLeaf(n, u, p) THEN {u} ELSE UNION {support[w] : w \in Fanins(n, u)}
  IN support[v]

(* group_by_jaccard *)
Similar(S, T, pct) ==
  S \cap T # {} /\ 100 * Cardinality(S \cap T) > pct * Cardinality(S \cup T)

(* The buckets of the union-find: with a line all lines that are similar to *)
(* one of its bucket.                                                       *)
Bucket(lines, support, pct, v) ==
  LET Closed(S) == \A x \in S, y \in lines : Similar(support[x], support[y], pct) => y \in S
  IN {w \in lines : \A S \in SUBSET lines : v \in S /\ Closed(S) => w \in S}

(* Buckets come in the order of their first lines, cut into chunks of most; *)
(* a chunk is known by its first line.                                      *)
LineGroups(n, p, c) ==
  LET lines == Crossing(n, p)
      support == [v \in lines |-> Support(n, v, p)]
      bucket == [v \in lines |-> Bucket(lines, support, c.jaccard, v)]
      place == [v \in lines |-> Earlier(v, bucket[v], ById(lines))]
      heads == {v \in lines : place[v] % c.lines = 0}
      precedes(u, v) == IF bucket[u] = bucket[v] THEN u < v ELSE Min(bucket[u]) < Min(bucket[v])
      order == {e \in heads \X heads : precedes(e[1], e[2])}
      chunk(v) == {w \in bucket[v] : place[w] \in place[v] .. place[v] + c.lines - 1}
  IN [i \in 1 .. Cardinality(heads) |-> LET S == chunk(Listed(heads, order)[i]) IN Listed(S, ById(S))]

(* build_group_cone_ntk: the inputs of the cone are free, and so are its     *)
(* leaves in the other part.                                                *)
LeavesOf(n, g, p) == UNION {Support(n, g[j], p) : j \in DOMAIN g}

Reachable(n, g, p) ==
  LET tuple(a) ==
        LET true[v \in Vertices(n)] ==
              IF IsLeaf(n, v, p) THEN v \in a
              ELSE {i \in DOMAIN n.fanin[v] : true[n.fanin[v][i]]} \in n.truth[v]
        IN {j \in DOMAIN g : true[g[j]]}
  IN {tuple(a) : a \in SUBSET LeavesOf(n, g, p)}

(* The most tuples that a shorter code can tell apart *)
Cap(g) == 2 ^ (Len(g) - 1)

----------------------------------------------------------------------------
(* ceil_log2 *)
Width(m) == Min({b \in 0 .. m : 2 ^ b >= m})

(* encoder_sop, decoder_sop: the code of a tuple is its place in the list. *)
Code(i, r) == {b \in 1 .. r : ((i - 1) \div 2 ^ (b - 1)) % 2 = 1}
Encoder(T, b, r) == {T[i] : i \in {i \in DOMAIN T : b \in Code(i, r)}}
Decoder(T, j, r) == {Code(i, r) : i \in {i \in DOMAIN T : j \in T[i]}}

(* verify_group_codec: what the cone can produce is decoded to what it was. *)
Verified(n, g, p, T) ==
  LET r == Width(Len(T))
      encoded(t) == {b \in 1 .. r : t \in Encoder(T, b, r)}
  IN \A t \in Reachable(n, g, p) : t = {j \in DOMAIN g : encoded(t) \in Decoder(T, j, r)}

(* apply_group_codec: the encoders get the numbers max .., then the decoders *)
(* theirs; a decoder that is never true reads nothing.  The readers of a    *)
(* line in the part q read its decoder; the new nodes have no part as yet.  *)
EncoderId(n, b) == n.max + b - 1
DecoderId(n, T, j) == n.max + Width(Len(T)) + j - 1

Encoders(n, T) == {EncoderId(n, b) : b \in 1 .. Width(Len(T))}
Decoders(n, g, T) == {DecoderId(n, T, j) : j \in DOMAIN g}

Coded(n, g, T, q) ==
  LET r == Width(Len(T))
      E == Encoders(n, T)
      D == Decoders(n, g, T)
      code(v) == v - EncoderId(n, 0)
      line(v) == v - DecoderId(n, T, 0)
      codes == [b \in 1 .. r |-> EncoderId(n, b)]
      reads(j) == IF Decoder(T, j, r) = {} THEN <<>> ELSE codes
      decoded(u) == IF u \in ToSet(g) THEN DecoderId(n, T, CHOOSE j \in DOMAIN g : g[j] = u) ELSE u
  IN [n EXCEPT
        !.max = @ + r + Len(g),
        !.node = @ \cup E \cup D,
        !.fanin = [v \in n.node \cup E \cup D |->
           CASE v \in E -> g
             [] v \in D -> reads(line(v))
             [] v \in n.node -> IF n.part[v] = q THEN [i \in DOMAIN @[v] |-> decoded(@[v][i])] ELSE @[v]],
        !.truth = [v \in n.node \cup E \cup D |->
           CASE v \in E -> Encoder(T, code(v), r)
             [] v \in D -> Decoder(T, line(v), r)
             [] v \in n.node -> @[v]],
        !.part = [v \in Vertices(n) \cup E \cup D |-> IF v \in E \cup D THEN NoPart ELSE @[v]]]

(* The two ways it ends; n is the network before. *)
OneSided(m, n, g, T, p, q) ==   \* slip: the decoders stay with the encoders
  [m EXCEPT !.part = [v \in DOMAIN @ |-> IF v >= n.max THEN p ELSE @[v]]]
Tagged(m, n, g, T, p, q) ==
  [m EXCEPT !.part = [v \in DOMAIN @ |-> IF v \in Encoders(n, T) THEN p
                                         ELSE IF v \in Decoders(n, g, T) THEN q ELSE @[v]]]

Repointed(m, n, g, T) ==
  LET line(u) == IF u \in Decoders(n, g, T) THEN g[u - DecoderId(n, T, 0)] ELSE u
  IN [m EXCEPT !.fanin = [v \in m.node |-> [i \in DOMAIN @[v] |-> line(@[v][i])]]]
OnlyRepointed(m, n, g, T) == Repointed(m, n, g, T)   \* slip: the new nodes are left behind
RolledBack(m, n, g, T) == Without(Repointed(m, n, g, T), Encoders(n, T) \cup Decoders(n, g, T))

(* Abc_NtkIsAcyclic looks at what the outputs depend on. *)
Feeding(n) ==
  LET fed[S \in SUBSET Vertices(n)] ==
        LET T == S \cup UNION {Fanins(n, u) : u \in S} IN IF T = S THEN S ELSE fed[T]
  IN fed[ToSet(n.po)]
Ordered(n) ==
  LET put[S \in SUBSET Vertices(n)] ==
        LET T == S \cup {u \in n.node : Fanins(n, u) \subseteq S} IN IF T = S THEN S ELSE put[T]
  IN put[n.pi]
NoSelfLoop(n) == \A v \in n.node : v \notin Fanins(n, v)   \* slip: direct loops only
IsAcyclic(n) == Feeding(n) \subseteq Ordered(n)

----------------------------------------------------------------------------
Init ==
  /\ net \in Networks /\ first = net /\ before = net
  /\ cfg \in Configs
  /\ src = 0 /\ step = "collect" /\ groups = <<>> /\ tuples = <<>> /\ saved = 0
  /\ \E c \in {-1, CutNets(net)} : cut = [now |-> c, entry |-> c]

Other == 1 - src
Group == Head(groups)
Drop == groups' = Tail(groups) /\ tuples' = <<>> /\ step' = "group"

Collect ==
  /\ step = "collect" /\ step' = "group"
  /\ groups' = LineGroups(net, src, cfg)
  /\ UNCHANGED <<net, cfg, src, tuples, saved, cut, first, before>>

(* simulate_prefilter: the patterns show more tuples than the cap, or do not. *)
Prune ==
  /\ step = "group" /\ groups # <<>> /\ Cardinality(Reachable(net, Group, src)) > Cap(Group)
  /\ Drop
  /\ UNCHANGED <<net, cfg, src, saved, cut, first, before>>

StartCount ==
  /\ step = "group" /\ groups # <<>> /\ step' = "count"
  /\ UNCHANGED <<net, cfg, src, groups, tuples, saved, cut, first, before>>

(* count_m_sat: a tuple at a time, until there is none left, or too many, or *)
(* a call gives up.                                                         *)
Enumerate ==
  /\ step = "count"
  /\ \E t \in Reachable(net, Group, src) \ ToSet(tuples) :
       IF Len(tuples) = Cap(Group) THEN Drop
       ELSE tuples' = Append(tuples, t) /\ UNCHANGED <<groups, step>>
  /\ UNCHANGED <<net, cfg, src, saved, cut, first, before>>

GiveUp ==
  /\ step = "count" /\ Drop
  /\ UNCHANGED <<net, cfg, src, saved, cut, first, before>>

SomeFound(n, g, p, T) == T # <<>>   \* slip: a call that gave up ends the list
AllFound(n, g, p, T) == Reachable(n, g, p) = ToSet(T)

Count ==
  /\ step = "count" /\ AllFound(net, Group, src, tuples)
  /\ step' = "verify"
  /\ UNCHANGED <<net, cfg, src, groups, tuples, saved, cut, first, before>>

Insert ==
  /\ step = "verify" /\ Verified(net, Group, src, tuples)
  /\ step' = "check"
  /\ before' = net /\ net' = Coded(net, Group, tuples, Other)
  /\ cut' = [cut EXCEPT !.now = -1]
  /\ UNCHANGED <<cfg, src, groups, tuples, saved, first>>

Unproved ==
  /\ step = "verify" /\ Drop
  /\ UNCHANGED <<net, cfg, src, saved, cut, first, before>>

Accept ==
  /\ step = "check" /\ IsAcyclic(net) /\ Drop
  /\ net' = Tagged(net, before, Group, tuples, src, Other)
  /\ saved' = saved + Len(Group) - Width(Len(tuples))
  /\ UNCHANGED <<cfg, src, cut, first, before>>

Reject ==
  /\ step = "check" /\ ~IsAcyclic(net) /\ Drop
  /\ net' = RolledBack(net, before, Group, tuples)
  /\ UNCHANGED <<cfg, src, saved, cut, first, before>>

(* The end of a direction; after the second the cut size of the start is    *)
(* put back if nothing was saved.                                           *)
Turn ==
  /\ step = "group" /\ groups = <<>> /\ src = 0
  /\ src' = 1 /\ step' = "collect"
  /\ UNCHANGED <<net, cfg, groups, tuples, saved, cut, first, before>>

Finish ==
  /\ step = "group" /\ groups = <<>> /\ src = 1
  /\ step' = "done" /\ cut' = [cut EXCEPT !.now = IF saved > 0 THEN -1 ELSE cut.entry]
  /\ UNCHANGED <<net, cfg, src, groups, tuples, saved, first, before>>

Done == step = "done" /\ UNCHANGED vars

Next ==
  \/ Collect \/ Prune \/ StartCount \/ Enumerate \/ GiveUp \/ Count
  \/ Insert \/ Unproved \/ Accept \/ Reject \/ Turn
  \/ Finish \/ Done

Spec == Init /\ [][Next]_vars
----------------------------------------------------------------------------
(* Every variable has its type. *)
TypeOK ==
  /\ IsNetwork(net) /\ src \in 0 .. 1 /\ saved \in Nat /\ cut.now \in Nat \cup {-1}
  /\ step \in {"collect", "group", "count", "verify", "check", "done"}
  /\ \A i \in DOMAIN groups : Len(groups[i]) \in 1 .. cfg.lines
  /\ tuples # <<>> => tuples \in Seq(SUBSET DOMAIN Group) /\ Len(tuples) <= Cap(Group)

(* What the outputs depend on *)
Live(n) == Without(n, n.node \ Feeding(n))

(* Except between the insertion of a codec and the decision about it, no    *)
(* output depends on a cycle, and every output computes what it did at the  *)
(* start: although a decoder reads all lines of its group, so that a reader *)
(* of one line now depends on all of them.                                  *)
FunctionsKept ==
  step # "check" => /\ Feeding(net) \subseteq Ordered(net)
                    /\ net.pi = first.pi /\ Outputs(Live(net)) = Outputs(first)

(* With the types: only a complete list of the tuples the lines can take is *)
(* verified, whatever call of the solver gave up, and the codec on trial is *)
(* built from one: complete for the network that it was put into, with what *)
(* earlier groups and the other direction had put into it.                  *)
ListsComplete ==
  /\ TypeOK
  /\ LET n == IF step = "check" THEN before ELSE net
     IN step \in {"verify", "check"} =>
          /\ ToSet(tuples) = Reachable(n, Group, src) /\ IsInjective(tuples)
          /\ step = "check" => net = Coded(n, Group, tuples, Other)

(* A codec that would close a cycle leaves no trace. *)
RollbackExact ==
  [][step = "check" /\ saved' = saved => Circuit(net') = Circuit(before)]_vars

Lines(n) == Cardinality(Crossing(n, 0)) + Cardinality(Crossing(n, 1))

(* The lines that cross are as many fewer as the command reports to have    *)
(* saved: the groups, formed at the beginning of a direction, still consist *)
(* of crossing lines when their turn comes, and no codec makes new ones.    *)
(* The cut size recorded in the end is that of the network, if any is.      *)
SavedExact ==
  /\ step # "check" => Lines(first) = saved + Lines(net)
  /\ step = "done" => cut.now \in {-1, CutNets(net)}
=============================================================================
