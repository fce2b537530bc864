-------------------------------- MODULE FMPart --------------------------------
(****************************************************************************)
(* FMPart::run (fmpart/fmpart.hpp): Fiduccia-Mattheyses bipartitioning of a *)
(* weighted hypergraph under a balance bound.  A run places the vertices,   *)
(* then makes passes; a pass moves and locks one vertex at a time, keeping  *)
(* pin counts, side weights, cut and gains up to date, and then undoes the  *)
(* moves beyond the best prefix of its trail.                               *)
(*                                                                          *)
(* The gain buckets are taken at the level of GainQueue, which GainBuckets  *)
(* implements: the vertices held and their gains; of several vertices of    *)
(* the same gain find_top may answer any.  move_vertex is one step per net  *)
(* and scan, so the gains are visible half-way through a move.              *)
(****************************************************************************)
EXTENDS Hypergraph, Sequences, FiniteSets, Functions

CONSTANTS
  Net,      (* nets, numbered in the order of the CSR arrays *)
  Inputs    (* hypergraphs with their configuration: see InputType *)

InputType ==
  [ pins : [Net -> SUBSET Vertex], nw : [Net -> Nat], vw : [Vertex -> Nat],
    fixed : [Vertex -> Side \cup {-1}],
    pct : Nat, maxPasses : Nat, minGain : Int ]

ASSUME InputsAssumption == Inputs \subseteq InputType
ASSUME FiniteAssumption ==
  IsFiniteSet(Vertex) /\ IsFiniteSet(Net) /\ Vertex \subseteq Nat /\ Net \subseteq Nat

VARIABLES
  h,        (* the hypergraph and the configuration, constant in a run *)
  pc,       (* where run() is *)
  part,     (* m_part *)
  cnt,      (* m_cnt: pins of a net on a side *)
  wsum,     (* m_wsum *)
  cut,      (* m_cut *)
  locked,   (* vertices whose m_locked is set *)
  held,     (* vertices in the buckets *)
  gain,     (* their gains *)
  trail,    (* m_trail *)
  cum,      (* gain of the trail *)
  best,     (* the best prefix so far: balanced, cum and length *)
  pass,     (* passes begun *)
  was,      (* whether the pass began balanced *)
  mv,       (* the vertex being moved and the nets its scan has left *)
  start,    (* the initial solution's cut (initial_cut) and balance *)
  hist      (* part, wsum and cut after each prefix of the trail (history) *)

vars == <<h, pc, part, cnt, wsum, cut, locked, held, gain, trail, cum, best,
          pass, was, mv, start, hist>>

counters == <<cnt, wsum, cut>>
passVars == <<locked, held, gain, trail, cum, best, mv, hist>>
runVars  == <<pass, was, start>>

----------------------------------------------------------------------------
(* What the constructor derives from the hypergraph. *)
NetsOf(v)   == {e \in Net : v \in h.pins[e]}
TotalWeight == SumFunction(h.vw)
MaxWeight   ==
  LET avg   == TotalWeight \div 2
      slack == (avg * h.pct + 99) \div 100
  IN IF avg + slack > avg + 1 THEN avg + slack ELSE avg + 1
MinWeight   == CHOOSE w \in {h.vw[v] : v \in Vertex} : \A v \in Vertex : w <= h.vw[v]
IncidentWeight(v) == SumFunctionOnSet(h.nw, NetsOf(v))
GMax == CHOOSE g \in {IncidentWeight(v) : v \in Vertex} :
          \A v \in Vertex : IncidentWeight(v) <= g

Other(s)   == 1 - s
IsBalanced == wsum[0] <= MaxWeight /\ wsum[1] <= MaxWeight

(* The counters, and a vertex's gain, from scratch. *)
PinsOn(e, s) == {v \in h.pins[e] : part[v] = s}
CountOf(e, s) == Cardinality(PinsOn(e, s))
WeightOf(s)  == SumFunctionOnSet(h.vw, {v \in Vertex : part[v] = s})
CutOf        == SumFunctionOnSet(h.nw, {e \in Net : \A s \in Side : PinsOn(e, s) # {}})

(* slip: only the nets that a move would uncut are counted *)
GainWithoutLoss(v, count) ==
  SumFunctionOnSet(h.nw, {e \in NetsOf(v) : count[e][part[v]] = 1})

ComputeGain(v, count) ==
  LET F == part[v]
      T == Other(F)
  IN SumFunctionOnSet(h.nw, {e \in NetsOf(v) : count[e][F] = 1})
       - SumFunctionOnSet(h.nw, {e \in NetsOf(v) : count[e][T] = 0})

----------------------------------------------------------------------------
NoMove     == [v |-> 0, todo |-> {}]
Scanned(x) == [v |-> mv.v, todo |-> mv.todo \ {x}]

Init ==
  /\ h \in Inputs
  /\ pc = "init"
  /\ part = [v \in Vertex |-> 0]
  /\ cnt = [e \in Net |-> [s \in Side |-> 0]]
  /\ wsum = [s \in Side |-> 0]
  /\ cut = 0
  /\ locked = {} /\ held = {}
  /\ gain = [v \in Vertex |-> 0]
  /\ trail = <<>> /\ cum = 0
  /\ best = [bal |-> FALSE, cum |-> 0, len |-> 0]
  /\ pass = 0 /\ was = FALSE
  /\ mv = NoMove
  /\ start = [cut |-> 0, bal |-> FALSE]
  /\ hist = <<>>

Fixed == {v \in Vertex : h.fixed[v] # -1}

(* The caller's initial solution; fixed vertices override it. *)
GivenInit ==
  /\ pc = "init"
  /\ \E init \in [Vertex -> Side] :
       part' = [v \in Vertex |-> IF v \in Fixed THEN h.fixed[v] ELSE init[v]]
  /\ pc' = "count"
  /\ UNCHANGED <<h, counters, passVars, runVars>>

(* random_init: fixed vertices first; the others in shuffled order, each to *)
(* the lighter side.  mv.todo holds the vertices not placed yet.            *)
RandomInit ==
  /\ pc = "init"
  /\ part' = [v \in Vertex |-> IF v \in Fixed THEN h.fixed[v] ELSE 0]
  /\ wsum' = [s \in Side |->
                SumFunctionOnSet(h.vw, {v \in Fixed : h.fixed[v] = s})]
  /\ mv' = [v |-> 0, todo |-> Vertex \ Fixed]
  /\ pc' = "place"
  /\ UNCHANGED <<h, cnt, cut, locked, held, gain, trail, cum, best, hist, runVars>>

PlaceNext ==
  /\ pc = "place"
  /\ \E v \in mv.todo :
       LET s == IF wsum[0] <= wsum[1] THEN 0 ELSE 1 IN
       /\ part' = [part EXCEPT ![v] = s]
       /\ wsum' = [wsum EXCEPT ![s] = @ + h.vw[v]]
       /\ mv' = Scanned(v)
  /\ UNCHANGED <<h, pc, cnt, cut, locked, held, gain, trail, cum, best, hist, runVars>>

PlaceDone ==
  /\ pc = "place" /\ mv.todo = {}
  /\ pc' = "count"
  /\ UNCHANGED <<h, part, counters, passVars, runVars>>

(* rebuild_counts: the weights vertex by vertex, then the nets one by one;  *)
(* mv.todo holds the vertices or nets left.                                 *)
First(S, x) == x \in S /\ \A y \in S : x <= y

RebuildCounts ==
  /\ pc = "count"
  /\ cnt' = [e \in Net |-> [s \in Side |-> 0]]
  /\ wsum' = [s \in Side |-> 0]
  /\ mv' = [v |-> 0, todo |-> Vertex]
  /\ pc' = "weigh"
  /\ UNCHANGED <<h, part, cut, locked, held, gain, trail, cum, best, hist, runVars>>

WeighNext ==
  /\ pc = "weigh"
  /\ \E v \in mv.todo :
       /\ First(mv.todo, v)
       /\ wsum' = [wsum EXCEPT ![part[v]] = @ + h.vw[v]]
       /\ mv' = Scanned(v)
  /\ UNCHANGED <<h, pc, part, cnt, cut, locked, held, gain, trail, cum, best, hist, runVars>>

WeighDone ==
  /\ pc = "weigh" /\ mv.todo = {}
  /\ mv' = [v |-> 0, todo |-> Net]
  /\ cut' = 0
  /\ pc' = "tally"
  /\ UNCHANGED <<h, part, cnt, wsum, locked, held, gain, trail, cum, best, hist, runVars>>

TallyNext ==
  /\ pc = "tally"
  /\ \E e \in mv.todo :
       /\ First(mv.todo, e)
       /\ cnt' = [cnt EXCEPT ![e] = [s \in Side |-> CountOf(e, s)]]
       /\ cut' = IF \A s \in Side : CountOf(e, s) > 0 THEN cut + h.nw[e] ELSE cut
       /\ mv' = Scanned(e)
  /\ UNCHANGED <<h, pc, part, wsum, locked, held, gain, trail, cum, best, hist, runVars>>

TallyDone ==
  /\ pc = "tally" /\ mv.todo = {}
  /\ start' = [cut |-> cut, bal |-> IsBalanced]
  /\ pc' = "pass"
  /\ UNCHANGED <<h, part, counters, passVars, pass, was>>

----------------------------------------------------------------------------
Snapshot == [part |-> part, wsum |-> wsum, cut |-> cut]

(* The head of run_one_pass: lock the fixed vertices, fill the buckets. *)
StartPass ==
  /\ pc = "pass" /\ pass < h.maxPasses
  /\ pass' = pass + 1
  /\ was' = IsBalanced
  /\ locked' = Fixed
  /\ held' = Vertex \ Fixed
  /\ gain' = [v \in Vertex |-> IF v \in Fixed THEN 0 ELSE ComputeGain(v, cnt)]
  /\ trail' = <<>> /\ cum' = 0
  /\ best' = [bal |-> IsBalanced, cum |-> 0, len |-> 0]
  /\ hist' = <<Snapshot>>
  /\ mv' = NoMove
  /\ pc' = "pick"
  /\ UNCHANGED <<h, part, counters, start>>

PassesExhausted ==
  /\ pc = "pass" /\ pass = h.maxPasses
  /\ pc' = "done"
  /\ UNCHANGED <<h, part, counters, passVars, runVars>>

OnSide(s) == {v \in held : part[v] = s}
AnyOf(s)  == OnSide(s)   \* slip: the weight of the vertex is not asked
Fits(s)   == {v \in OnSide(s) : wsum[Other(s)] + h.vw[v] <= MaxWeight}

(* pick_from: the feasible vertices of the largest gain. *)
PickFrom(s) ==
  IF wsum[Other(s)] + MinWeight > MaxWeight THEN {}
  ELSE {v \in Fits(s) : \A u \in Fits(s) : gain[u] <= gain[v]}

(* side s has a vertex of larger gain than any of the other side's *)
Leads(s) == \E v \in OnSide(s) : \A u \in OnSide(Other(s)) : gain[u] < gain[v]

FirstSide ==
  IF Leads(0) THEN 0
  ELSE IF Leads(1) THEN 1
  ELSE IF wsum[0] >= wsum[1] THEN 0 ELSE 1

MoveChoices ==
  IF wsum[0] > MaxWeight THEN PickFrom(0)
  ELSE IF wsum[1] > MaxWeight THEN PickFrom(1)
  ELSE IF PickFrom(FirstSide) # {} THEN PickFrom(FirstSide)
  ELSE PickFrom(Other(FirstSide))

(* The loop body up to and including the lock and the erase of move_vertex. *)
Pick ==
  /\ pc = "pick"
  /\ \E v \in MoveChoices :
       /\ cum' = cum + gain[v]
       /\ locked' = locked \cup {v}
       /\ held' = held \ {v}
       /\ mv' = [v |-> v, todo |-> NetsOf(v)]
  /\ pc' = "before"
  /\ UNCHANGED <<h, part, counters, gain, trail, best, hist, runVars>>

(* slip: an overweight side without candidates is tried again *)
RetryForced ==
  /\ pc = "pick" /\ MoveChoices = {}
  /\ pc' = IF IsBalanced THEN "undo" ELSE "pick"
  /\ UNCHANGED <<h, part, counters, passVars, runVars>>

NoChoice ==
  /\ pc = "pick" /\ MoveChoices = {}
  /\ pc' = "undo"
  /\ UNCHANGED <<h, part, counters, passVars, runVars>>

(* update_gain for each unlocked vertex of S: an erase and an insert. *)
BumpLockedToo(S, d) ==   \* slip: m_locked is not asked
  /\ gain' = [u \in Vertex |-> IF u \in S THEN gain[u] + d ELSE gain[u]]
  /\ held' = held \cup S

Bump(S, d) ==
  LET touched == S \ locked IN
  /\ gain' = [u \in Vertex |-> IF u \in touched THEN gain[u] + d ELSE gain[u]]
  /\ held' = held \cup touched

(* The only pin of net e on side s: the scan stops at the first it finds. *)
FirstPinOnly(e, s) ==    \* slip: it stops at the first pin whatever its side
  {v \in PinsOn(e, s) : v = CHOOSE u \in h.pins[e] : TRUE}
SolePin(e, s) == PinsOn(e, s)

(* Net counts c after a pin has gone from side F to side T. *)
ShiftInOnly(c, F, T) == [c EXCEPT ![T] = @ + 1]   \* slip: the pin is not taken out
Shift(c, F, T)       == [c EXCEPT ![F] = @ - 1, ![T] = @ + 1]

(* First scan of move_vertex: counts of net e before the move. *)
BeforeNet ==
  /\ pc = "before"
  /\ \E e \in mv.todo :
       LET F  == part[mv.v]
           T  == Other(F)
           cF == cnt[e][F]
           cT == cnt[e][T]
           w  == h.nw[e]
       IN
       /\ First(mv.todo, e)
       /\ \/ cT = 0 /\ Bump(h.pins[e], w)
          \/ cT = 1 /\ Bump(SolePin(e, T), 0 - w)
          \/ cT > 1 /\ UNCHANGED <<gain, held>>
       /\ cut' = cut + (IF cT = 0 /\ cF > 1 THEN w ELSE 0)
                     - (IF cT > 0 /\ cF = 1 THEN w ELSE 0)
       /\ cnt' = [cnt EXCEPT ![e] = Shift(@, F, T)]
       /\ mv' = Scanned(e)
  /\ UNCHANGED <<h, pc, part, wsum, locked, trail, cum, best, hist, runVars>>

(* Between the scans the vertex changes side. *)
SwitchSide ==
  /\ pc = "before" /\ mv.todo = {}
  /\ LET v == mv.v
         F == part[v]
     IN /\ part' = [part EXCEPT ![v] = Other(F)]
        /\ wsum' = [wsum EXCEPT ![F] = @ - h.vw[v], ![Other(F)] = @ + h.vw[v]]
        /\ mv' = [v |-> v, todo |-> NetsOf(v)]
  /\ pc' = "after"
  /\ UNCHANGED <<h, cnt, cut, locked, held, gain, trail, cum, best, hist, runVars>>

(* Second scan: counts of net e after the move. *)
AfterNet ==
  /\ pc = "after"
  /\ \E e \in mv.todo :
       LET F  == Other(part[mv.v])
           cF == cnt[e][F]
           w  == h.nw[e]
       IN
       /\ First(mv.todo, e)
       /\ \/ cF = 0 /\ Bump(h.pins[e], 0 - w)
          \/ cF = 1 /\ Bump(SolePin(e, F), w)
          \/ cF > 1 /\ UNCHANGED <<gain, held>>
       /\ mv' = Scanned(e)
  /\ UNCHANGED <<h, pc, part, counters, locked, trail, cum, best, hist, runVars>>

(* key(balanced, cum) in lexicographic order *)
BetterByGain(bal, c)  == c > best.cum                   \* slip: no balance
Better(bal, c) == (bal /\ ~best.bal) \/ (bal = best.bal /\ c > best.cum)

RecordMove ==
  /\ pc = "after" /\ mv.todo = {}
  /\ trail' = Append(trail, mv.v)
  /\ best' = IF Better(IsBalanced, cum)
             THEN [bal |-> IsBalanced, cum |-> cum, len |-> Len(trail) + 1]
             ELSE best
  /\ hist' = Append(hist, Snapshot)
  /\ pc' = "pick"
  /\ UNCHANGED <<h, part, counters, locked, held, gain, cum, mv, runVars>>

----------------------------------------------------------------------------
(* undo_move of the last vertex of the trail: gains are left alone. *)
UndoCut(v, e) ==
  LET T  == part[v]
      cF == cnt[e][Other(T)]
      cT == cnt[e][T]
  IN (IF cF = 0 /\ cT > 1 THEN h.nw[e] ELSE 0) - (IF cF > 0 /\ cT = 1 THEN h.nw[e] ELSE 0)

UndoLast ==
  /\ pc = "undo" /\ Len(trail) > best.len
  /\ mv' = [v |-> trail[Len(trail)], todo |-> NetsOf(trail[Len(trail)])]
  /\ pc' = "back"
  /\ UNCHANGED <<h, part, counters, locked, held, gain, trail, cum, best, hist, runVars>>

UndoNet ==
  /\ pc = "back"
  /\ \E e \in mv.todo :
       /\ First(mv.todo, e)
       /\ cut' = cut + UndoCut(mv.v, e)
       /\ cnt' = [cnt EXCEPT ![e] = Shift(@, part[mv.v], Other(part[mv.v]))]
       /\ mv' = Scanned(e)
  /\ UNCHANGED <<h, pc, part, wsum, locked, held, gain, trail, cum, best, hist, runVars>>

SwitchBack ==
  /\ pc = "back" /\ mv.todo = {}
  /\ LET v == mv.v
         T == part[v]
     IN /\ part' = [part EXCEPT ![v] = Other(T)]
        /\ wsum' = [wsum EXCEPT ![T] = @ - h.vw[v], ![Other(T)] = @ + h.vw[v]]
  /\ trail' = SubSeq(trail, 1, Len(trail) - 1)
  /\ pc' = "undo"
  /\ UNCHANGED <<h, cnt, cut, locked, held, gain, cum, best, mv, hist, runVars>>

(* run() after the pass: stop when it gained too little, unless the pass    *)
(* was the one that restored balance.                                       *)
EndPass ==
  /\ pc = "undo" /\ Len(trail) = best.len
  /\ pc' = IF ~(IsBalanced /\ ~was) /\ best.cum < h.minGain THEN "done" ELSE "pass"
  /\ UNCHANGED <<h, part, counters, passVars, runVars>>

Finished == pc = "done" /\ UNCHANGED vars

Next ==
  \/ GivenInit \/ RandomInit \/ PlaceNext \/ PlaceDone
  \/ RebuildCounts \/ WeighNext \/ WeighDone \/ TallyNext \/ TallyDone
  \/ StartPass \/ PassesExhausted
  \/ Pick \/ NoChoice \/ BeforeNet \/ SwitchSide \/ AfterNet \/ RecordMove
  \/ UndoLast \/ UndoNet \/ SwitchBack \/ EndPass
  \/ Finished

Spec == Init /\ [][Next]_vars

(* run() is a loop on one thread: while it has a step to take it takes one. *)
FairSpec == Spec /\ WF_vars(Next)

----------------------------------------------------------------------------
(* The types.  A gain outside -GMax..GMax, even half-way through a move,    *)
(* would index past its side's bucket array (fm_buckets.hpp:35).            *)
Phase == {"init", "place", "count", "weigh", "tally", "pass",
          "pick", "before", "after", "undo", "back", "done"}

SnapshotType == [part : [Vertex -> Side], wsum : [Side -> Int], cut : Int]

StateType ==
  /\ h \in Inputs
  /\ pc \in Phase
  /\ part \in [Vertex -> Side]
  /\ cnt \in [Net -> [Side -> Int]]
  /\ pc \notin {"init", "place", "count"} => wsum \in [Side -> Int]
  /\ cut \in Int
  /\ locked \subseteq Vertex /\ held \subseteq Vertex
  /\ trail \in Seq(Vertex)
  /\ best.len \in Nat /\ best.bal \in BOOLEAN
  /\ mv = [v |-> mv.v, todo |-> mv.todo]
  /\ pc \in {"place", "weigh"} => mv.todo \subseteq Vertex
  /\ pc = "tally" => mv.todo \subseteq Net
  /\ pc \in {"before", "after", "back"} => mv.v \in Vertex /\ mv.todo \subseteq NetsOf(mv.v)
  /\ hist \in Seq(SnapshotType)

TypeOK ==
  /\ StateType
  /\ cnt \in [Net -> [Side -> Nat]] /\ wsum \in [Side -> Nat] /\ cut \in Nat
  /\ gain \in [Vertex -> Int]
  /\ \A v \in held : 0 - GMax <= gain[v] /\ gain[v] <= GMax
  /\ cum \in Int /\ best.cum \in Int
  /\ pass \in 0 .. h.maxPasses /\ was \in BOOLEAN
  /\ start \in [cut : Nat, bal : BOOLEAN]

(* Between moves, after every undo and at the end, the pin counts kept up   *)
(* to date move by move are those counted from part (verify_invariants).    *)
Settled == pc \in {"pass", "pick", "undo", "done"}

PinCountsExact == Settled => \A e \in Net, s \in Side : cnt[e][s] = CountOf(e, s)

(* So are the side weights, which decide what may move, and the cut that    *)
(* run() returns.  When a vertex is picked, the buckets hold exactly the    *)
(* unlocked vertices and each has the gain compute_gain would give it,      *)
(* although every gain is the sum of the increments of all earlier moves;   *)
(* so a move's gain is the cut it saves (fmpart.hpp:239-318, 323-375).  And *)
(* at every moment every variable has its type, and a held vertex a gain    *)
(* that its bucket array has room for.                                      *)
CutAndGainsExact ==
  /\ TypeOK
  /\ Settled => (\A s \in Side : wsum[s] = WeightOf(s)) /\ cut = CutOf
  /\ pc = "pick" =>
       /\ held = Vertex \ locked
       /\ \A v \in held : gain[v] = ComputeGain(v, cnt)
       /\ cum = hist[1].cut - cut

(* The undo loop leaves the sides and weights of the best prefix exactly as *)
(* they were when the trail had that length; and if any prefix was          *)
(* balanced, the solution kept is (docs/fmpart-design.md section 5.3).      *)
PassEnd == pc = "undo" /\ Len(trail) = best.len

BalancedAt(i) == \A s \in Side : hist[i].wsum[s] <= MaxWeight

PrefixRestored ==
  PassEnd =>
    /\ best.len + 1 \in 1 .. Len(hist)
    /\ part = hist[best.len + 1].part /\ wsum = hist[best.len + 1].wsum
    /\ \A i \in 1 .. Len(hist) : BalancedAt(i) => IsBalanced

(* No forward move makes a side heavier than the bound, or an overweight    *)
(* side heavier still; so a balanced pass stays balanced throughout.        *)
OverweightShrinks ==
  [][pc = "before" =>
       \A s \in Side : wsum'[s] <= MaxWeight \/ wsum'[s] <= wsum[s]]_vars

(* No prefix that is balanced alike has a smaller cut than the one a pass   *)
(* keeps, though the code compared sums of gains (fmpart.hpp:435-448); so a *)
(* run that begins balanced ends balanced and never with a larger cut,      *)
(* whichever pass it stops at (docs/fmpart-design.md section 5.3).          *)
RunImproves ==
  /\ PassEnd =>
       \A i \in 1 .. Len(hist) :
         cut <= hist[i].cut \/ (IsBalanced /\ ~BalancedAt(i))
  /\ pc = "done" /\ start.bal => IsBalanced /\ cut <= start.cut

(* Fixed vertices never leave their side (docs/fmpart-design.md, FixNode),  *)
(* and no vertex moves twice in a pass.                                     *)
MovesAreLegal ==
  pc # "init" =>
    /\ \A v \in Fixed : part[v] = h.fixed[v]
    /\ \A i, j \in 1 .. Len(trail) : i # j => trail[i] # trail[j]

(* The run ends, whatever the input: a start that cannot be balanced, no    *)
(* free vertex, no net (docs/fmpart-design.md section 6.3).                 *)
RunEnds == <>(pc = "done")
=============================================================================
