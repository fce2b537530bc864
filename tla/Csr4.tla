--------------------------------- MODULE Csr4 ---------------------------------
(****************************************************************************)
(* RunCsr4 with -a (csr4/csr4.cpp): in a network split into parts 0 and 1,  *)
(* groups of LUTs that read the same crossing nets are rewritten to read a  *)
(* shorter code of those nets, which new encoder LUTs in the other part     *)
(* compute; nets that only the group read stop crossing.                    *)
(*                                                                          *)
(* A truth table is the set of the fanin sets that make the LUT true; the   *)
(* order of fanin slots is abstracted.  An ObjId is a number below max, the *)
(* Abc_NtkObjNumMax of the network, and a new object gets the next one.     *)
(****************************************************************************)
EXTENDS PartIds, Integers, Sequences, FiniteSets, FiniteSetsExt

CONSTANTS
  LutSize,     (* -K *)
  MaxBound,    (* -B *)
  MaxLuts,     (* -L *)
  MaxFanin,    (* CSR4_MAX_FANIN *)
  LutNetworks  (* partitioned LUT networks *)

LutVertices(n) == n.pi \cup n.lut

IsLutNetwork(n) ==
  /\ n.max \in Nat
  /\ \A v \in LutVertices(n) : v \in Nat /\ v < n.max
  /\ n.pi \cap n.lut = {}
  /\ n.fanin \in [n.lut -> SUBSET LutVertices(n)]
  /\ n.part \in [LutVertices(n) -> {0, 1, NoPart}]
  /\ \A v \in n.lut : n.truth[v] \subseteq SUBSET n.fanin[v]

ASSUME ConfigAssumption == LutSize \in Nat /\ MaxBound \in Nat /\ MaxLuts \in Nat /\ MaxFanin \in Nat
ASSUME LutNetworksAssumption == \A n \in LutNetworks : IsLutNetwork(n)

VARIABLES
  lutnet,   (* the network *)
  dst,      (* dstPart, 2 after both directions *)
  seen,     (* the network when the boundary LUTs were collected: BoundaryLut *)
  left,     (* boundary LUTs not grouped yet *)
  todo,     (* groups not processed yet *)
  pc,
  initial   (* the network at the start: what the before/after report compares *)

lutVars == <<lutnet, dst, seen, left, todo, pc, initial>>

----------------------------------------------------------------------------
(* collect_boundary_luts *)
Bound(n, v) == {u \in n.fanin[v] : n.part[u] = 1 - dst}

BoundaryLuts(n) ==
  {v \in n.lut : n.part[v] = dst /\ Cardinality(Bound(n, v)) >= 2
                /\ Cardinality(n.fanin[v]) <= MaxFanin}

(* group_boundary_luts: components of LUTs that share a crossing net, in    *)
(* the order of their first LUT.                                            *)
Component(v) ==
  LET L == BoundaryLuts(seen)
      Closed(S) == \A x \in S, y \in L : Bound(seen, x) \cap Bound(seen, y) # {} => y \in S
  IN {w \in L : \A S \in SUBSET L : v \in S /\ Closed(S) => w \in S}

Before(v, w) ==
  LET cv == Min(Component(v))
      cw == Min(Component(w))
  IN cv < cw \/ (cv = cw /\ v <= w)

(* A component is cut into groups of at most MaxLuts LUTs and MaxBound nets. *)
Joins(v) ==
  /\ todo # <<>>
  /\ LET g == todo[Len(todo)] IN
     /\ g.luts \subseteq Component(v)
     /\ Cardinality(g.luts) + 1 <= MaxLuts
     /\ Cardinality(g.bound \cup Bound(seen, v)) <= MaxBound

With(g, v) == [luts |-> g.luts \cup {v}, bound |-> g.bound \cup Bound(seen, v)]

(* classify_bound_nets: B_kill *)
KillUnlessAllRead(g) ==   \* slip: one sink in the group is enough
  {u \in g.bound : \E w \in lutnet.lut : u \in lutnet.fanin[w] /\ lutnet.part[w] = dst /\ w \in g.luts}

Kill(g) ==
  {u \in g.bound :
     \A w \in lutnet.lut : u \in lutnet.fanin[w] /\ lutnet.part[w] = dst => w \in g.luts}

----------------------------------------------------------------------------
(* restriction_of: the function of v over its free fanins when, of the nets *)
(* in kill, those in b are true.                                            *)
Restriction(v, kill, b) ==
  {f \in SUBSET (seen.fanin[v] \ kill) : f \cup (b \cap seen.fanin[v]) \in seen.truth[v]}

(* compute_classes: assignments that no member of the group tells apart.    *)
KeyOfOne(g, kill, b) ==   \* slip: the class of the first member only
  [v \in {Min(g.luts)} |-> Restriction(v, kill, b)]

Key(g, kill, b) == [v \in g.luts |-> Restriction(v, kill, b)]

Keys(g, kill) == {Key(g, kill, b) : b \in SUBSET kill}

CeilLog2(m) == CHOOSE t \in 0 .. m : 2 ^ t >= m /\ \A k \in 0 .. m : 2 ^ k >= m => t <= k

CodeLength(g, kill) == CeilLog2(Cardinality(Keys(g, kill)))

(* check_k_feasible *)
FeasibleBefore(g, kill, t) ==   \* slip: the code wires are forgotten
  \A v \in g.luts : Cardinality(seen.fanin[v] \ kill) <= LutSize
Feasible(g, kill, t) ==
  \A v \in g.luts : t + Cardinality(seen.fanin[v] \ kill) <= LutSize

(* evaluate_group, and the checks at the head of apply_group *)
Worth(g) ==
  LET kill == Kill(g)
      k    == Cardinality(kill)
      t    == CodeLength(g, kill)
  IN /\ 2 <= k /\ k <= MaxBound /\ k <= LutSize
     /\ t \in 0 .. k - 1
     /\ Feasible(g, kill, t)

----------------------------------------------------------------------------
(* A code gives each class a set of encoders of its own, those that are     *)
(* true; the code numbers the classes as it meets them, so one of them has  *)
(* the empty set.                                                           *)
IsCode(c, D, E) ==
  /\ c \in [D -> SUBSET E]
  /\ \A j, k \in D : c[j] = c[k] => j = k
  /\ \E k \in D : c[k] = {}

(* rep: an assignment of the class; that of the first class for a code that *)
(* no class has.                                                            *)
Representative(g, kill, c, s) ==
  CHOOSE b \in SUBSET kill :
    LET k == Key(g, kill, b) IN
    IF \E j \in DOMAIN c : c[j] = s THEN c[k] = s ELSE c[k] = {}

EncoderTruth(g, kill, c, e) == {b \in SUBSET kill : e \in c[Key(g, kill, b)]}

(* g_L: v reads the code and its free fanins. *)
MemberTruth(g, kill, c, E, v) ==
  LET free == seen.fanin[v] \ kill IN
  {s \in SUBSET (E \cup free) :
     (s \cap free) \cup (Representative(g, kill, c, s \cap E) \cap seen.fanin[v])
       \in seen.truth[v]}

Rewritten(g, kill, c, E) ==
  LET V == lutnet.lut \cup E IN
  [ max   |-> lutnet.max + Cardinality(E),
    pi    |-> lutnet.pi,
    lut   |-> V,
    part  |-> [v \in lutnet.pi \cup V |-> IF v \in E THEN 1 - dst ELSE lutnet.part[v]],
    fanin |-> [v \in V |-> IF v \in E THEN kill
                           ELSE IF v \in g.luts THEN E \cup (seen.fanin[v] \ kill)
                           ELSE lutnet.fanin[v]],
    truth |-> [v \in V |-> IF v \in E THEN EncoderTruth(g, kill, c, v)
                           ELSE IF v \in g.luts THEN MemberTruth(g, kill, c, E, v)
                           ELSE lutnet.truth[v]] ]

EncoderIds(t) == {lutnet.max + i : i \in 0 .. t - 1}

----------------------------------------------------------------------------
LutInit ==
  /\ lutnet \in LutNetworks
  /\ dst = 0
  /\ seen = lutnet /\ left = {} /\ todo = <<>>
  /\ pc = "collect"
  /\ initial = lutnet

CollectLuts ==
  /\ pc = "collect"
  /\ seen' = lutnet
  /\ left' = BoundaryLuts(lutnet)
  /\ pc' = "group"
  /\ UNCHANGED <<lutnet, dst, todo, initial>>

GroupNext ==
  /\ pc = "group"
  /\ \E v \in left :
       /\ \A w \in left : Before(v, w)
       /\ left' = left \ {v}
       /\ \/ Joins(v) /\ todo' = [todo EXCEPT ![Len(todo)] = With(@, v)]
          \/ ~Joins(v) /\ todo' = Append(todo, [luts |-> {v}, bound |-> Bound(seen, v)])
  /\ UNCHANGED <<lutnet, dst, seen, pc, initial>>

Grouped ==
  /\ pc = "group" /\ left = {}
  /\ pc' = "apply"
  /\ UNCHANGED <<lutnet, dst, seen, left, todo, initial>>

ApplyGroup ==
  /\ pc = "apply" /\ todo # <<>>
  /\ LET g    == Head(todo)
         kill == Kill(g)
         E    == EncoderIds(CodeLength(g, kill))
         D    == Keys(g, kill)
         c    == CHOOSE f \in [D -> SUBSET E] : IsCode(f, D, E)
     IN
     /\ Worth(g)
     /\ IsCode(c, D, E)     \* there is one: D has at most 2^t classes
     /\ lutnet' = Rewritten(g, kill, c, E)
  /\ todo' = Tail(todo)
  /\ UNCHANGED <<dst, seen, left, pc, initial>>

SkipGroup ==
  /\ pc = "apply" /\ todo # <<>>
  /\ ~Worth(Head(todo))
  /\ todo' = Tail(todo)
  /\ UNCHANGED <<lutnet, dst, seen, left, pc, initial>>

NextDirection ==
  /\ pc = "apply" /\ todo = <<>>
  /\ dst' = dst + 1
  /\ pc' = IF dst = 0 THEN "collect" ELSE "done"
  /\ UNCHANGED <<lutnet, seen, left, todo, initial>>

Finished == pc = "done" /\ UNCHANGED lutVars

LutNext ==
  \/ CollectLuts \/ GroupNext \/ Grouped
  \/ ApplyGroup \/ SkipGroup \/ NextDirection
  \/ Finished

LutSpec == LutInit /\ [][LutNext]_lutVars

----------------------------------------------------------------------------
(* The rewritten network has the equations of the old one: whatever values  *)
(* its old vertices have, and the encoders those that follow, every old LUT *)
(* is true exactly when its old truth table said so; so the shared code     *)
(* loses nothing a member needs (docs/csr4.md sections 3 and 6).            *)
EncodedValues(a) == a \cup {e \in lutnet'.lut \ lutnet.lut : a \cap lutnet'.fanin[e] \in lutnet'.truth[e]}

EquationsKept ==
  [][\A a \in SUBSET LutVertices(lutnet), v \in lutnet.lut :
       a \cap lutnet.fanin[v] \in lutnet.truth[v]
         <=> EncodedValues(a) \cap lutnet'.fanin[v] \in lutnet'.truth[v]]_lutVars

(* Every rewrite saves a crossing wire, by Abc_NtkComputeCutEdgeNum: nets   *)
(* with a sink outside the group are not counted as saved                   *)
(* (docs/csr4.md section 5).                                                *)
CrossingNets(n) ==
  {u \in LutVertices(n) :
     \E w \in n.lut : u \in n.fanin[w] /\ {n.part[u], n.part[w]} = {0, 1}}

CutDrops ==
  [][lutnet' # lutnet => Cardinality(CrossingNets(lutnet')) < Cardinality(CrossingNets(lutnet))]_lutVars

(* In a network mapped to LutSize inputs no LUT, encoder or member, gets    *)
(* more, although every member reads the whole code (docs/csr4.md section   *)
(* 8).                                                                      *)
Fits(n) == \A v \in n.lut : Cardinality(n.fanin[v]) <= LutSize

FitsLut == Fits(initial) => Fits(lutnet)

(* v is in its own transitive fanin. *)
OnCycle(n, v) ==
  \A S \in SUBSET n.lut :
    (\A x \in S \cup {v} : n.fanin[x] \cap n.lut \subseteq S) => v \in S

(* The rewrite is correct by construction, so it needs no equivalence check *)
(* (docs/csr4.md:98): a network without a cycle stays one.                  *)
StaysAcyclic == \A v \in lutnet.lut : ~OnCycle(lutnet, v)
=============================================================================
