---------------------------------- MODULE Hive ----------------------------------
(****************************************************************************)
(* RunHive (hive/hive.cpp): ranks the nodes, grows a region from each seed  *)
(* one absorbed node (and what makes it convex again) at a time, keeps the  *)
(* best region of each growth, and reports the best ones that overlap       *)
(* little.  The network is only read.                                       *)
(****************************************************************************)
EXTENDS HiveRegion

CONSTANTS
  Networks,
  Configs,         (* Config: num_regions, max_nodes, max_in, max_out, lut_k, num_seeds *)
  TopL,            (* kTopL *)
  Stall,           (* kStall *)
  JaccardPct,      (* kJaccardPct *)
  ClosureBudget,   (* kClosureBudget *)
  FanoutCap        (* kFanoutCap *)

NetworkAssumption == \A n \in Networks : IsNet(n)
ASSUME NetworkAssumption
ConfigAssumption == \A c \in Configs : c.lut_k \in Nat /\ c.lut_k >= 2   (* -K 2..16 *)
ASSUME ConfigAssumption
ASSUME BoundAssumption == Stall \in Nat \ {0} /\ JaccardPct \in Nat

VARIABLES
  net, cfg, pc,
  rank, indeg, queue, processed,   (* of the constructor of CombGraph *)
  seeds, root,
  region, best, stall,             (* r, bestR and bestM, stall *)
  listed, outs,                    (* candidates, out members still to look at *)
  top, trial, pending, nextR,      (* scored[..topl], t, vertices to add, nextR or none *)
  cands, regions                   (* the reports, those accepted *)

graphVars  == <<rank, indeg, queue, processed>>
growVars   == <<region, best, stall>>
listVars   == <<listed, outs>>
trialVars  == <<trial, pending>>
reportVars == <<cands, regions>>
vars == <<net, cfg, pc, graphVars, seeds, root, growVars, listVars, top, nextR, trialVars, reportVars>>

(* The vertices without predecessors *)
Sources == {v \in net.node : Preds(net, v) = {}}

Init ==
  /\ net \in Networks /\ cfg \in Configs /\ pc = "rank"
  /\ rank = [v \in net.node |-> 0]
  /\ indeg = [v \in net.node |-> Cardinality(Preds(net, v))]
  /\ queue = Sources /\ processed = {}
  /\ seeds = {} /\ root = -1 /\ region = EmptyRegion /\ best = EmptyRegion /\ stall = 0
  /\ listed = {} /\ outs = {} /\ top = {} /\ trial = EmptyRegion /\ pending = {} /\ nextR = EmptyRegion
  /\ cands = {} /\ regions = <<>>

----------------------------------------------------------------------------
(* Kahn's algorithm.  The queue's order does not show in its result: any    *)
(* vertex of it may be next.                                                *)
Raised(v, s) == IF rank[v] < rank[s] THEN rank[s] ELSE rank[v] + 1
FirstSeen(s) == rank[s] = 0   \* slip: queued by the first of its predecessors
Ready(s) == indeg[s] = 1

Rank(v) ==
  /\ pc = "rank" /\ v \in queue
  /\ rank'  = [s \in net.node |-> IF s \in Succs(net, v) THEN Raised(v, s) ELSE rank[s]]
  /\ indeg' = [s \in net.node |-> indeg[s] - Count(s \in Succs(net, v))]
  /\ queue' = (queue \ {v}) \cup {s \in Succs(net, v) : Ready(s)}
  /\ processed' = processed \cup {v}
  /\ UNCHANGED <<net, cfg, pc, seeds, root, growVars, listVars, top, nextR, trialVars, reportVars>>

(* Seeds by the size of their cone, then by id, the first num_seeds of them *)
SeedBefore(u, v) ==
  LET a == Cardinality(Mffc(net, u))
      b == Cardinality(Mffc(net, v))
  IN a > b \/ (a = b /\ u < v)
Seeds == {v \in net.node : \/ cfg.num_seeds = 0
                            \/ Cardinality({u \in net.node : SeedBefore(u, v)}) < cfg.num_seeds}

Ranked ==
  /\ pc = "rank" /\ queue = {}
  /\ IF processed = net.node THEN pc' = "seed" /\ seeds' = Seeds
                             ELSE pc' = "loop" /\ UNCHANGED seeds
  /\ UNCHANGED <<net, cfg, graphVars, root, growVars, listVars, top, nextR, trialVars, reportVars>>

----------------------------------------------------------------------------
(* GrowFromSeed *)
CapsOk(r) ==
  /\ Cardinality(r.members) <= cfg.max_nodes
  /\ r.in <= cfg.max_in /\ r.out <= cfg.max_out

NextSeed(v) ==
  /\ pc = "seed" /\ v \in seeds /\ \A u \in seeds \ {v} : SeedBefore(v, u)
  /\ pc' = "init" /\ root' = v /\ seeds' = seeds \ {v}
  /\ trial' = EmptyRegion /\ pending' = Mffc(net, v)
  /\ UNCHANGED <<net, cfg, graphVars, growVars, listVars, top, nextR, reportVars>>

(* Region::init, in the order of Abc_NodeMffcLabel's search: any *)
InitAdd(v) ==
  /\ pc = "init" /\ v \in pending
  /\ trial' = Add(net, trial, v) /\ pending' = pending \ {v}
  /\ UNCHANGED <<net, cfg, pc, graphVars, seeds, root, growVars, listVars, top, nextR, reportVars>>

SkipSeed ==
  /\ pc = "init" /\ pending = {} /\ ~CapsOk(trial)
  /\ pc' = "seed"
  /\ UNCHANGED <<net, cfg, graphVars, seeds, root, growVars, listVars, top, nextR, trialVars, reportVars>>

StartGrowth ==
  /\ pc = "init" /\ pending = {} /\ CapsOk(trial)
  /\ pc' = "grow" /\ region' = trial /\ best' = trial /\ stall' = 0
  /\ UNCHANGED <<net, cfg, graphVars, seeds, root, listVars, top, nextR, trialVars, reportVars>>

(* The candidates: drivers of the region, and of the successors of each out *)
(* member, in the order of ids, the first FanoutCap that are not in the     *)
(* region or taken before                                                   *)
List ==
  /\ pc = "grow" /\ Cardinality(region.members) < cfg.max_nodes
  /\ pc' = "list"
  /\ listed' = EntranceCandidates(net, region) /\ outs' = OutMembers(net, region)
  /\ UNCHANGED <<net, cfg, graphVars, seeds, root, growVars, top, nextR, trialVars, reportVars>>

NewSuccs(m) == Succs(net, m) \ (region.members \cup listed)
Sampled(S) == {s \in S : Cardinality({t \in S : t < s}) < FanoutCap}

ListExits(m) ==
  /\ pc = "list" /\ m \in outs /\ \A o \in outs : m <= o
  /\ listed' = listed \cup Sampled(NewSuccs(m)) /\ outs' = outs \ {m}
  /\ UNCHANGED <<net, cfg, pc, graphVars, seeds, root, growVars, top, nextR, trialVars, reportVars>>

(* nth_element: TopL candidates, none worse than one left out by the Q it   *)
(* would have alone                                                         *)
TopSets ==
  LET q == [c \in listed |-> Q(Add(net, region, c))]
  IN {T \in SUBSET listed :
        /\ Cardinality(T) = TopL \/ (T = listed /\ Cardinality(T) < TopL)
        /\ \A c \in T : \A d \in listed \ T : ~Less(q[c], q[d])}

StartStep ==
  /\ pc = "list" /\ outs = {} /\ listed # {}
  /\ pc' = "pick" /\ nextR' = EmptyRegion /\ top' \in TopSets
  /\ UNCHANGED <<net, cfg, graphVars, seeds, root, growVars, listVars, trialVars, reportVars>>

RejectCandidate(c) ==
  /\ pc = "pick" /\ c \in top
  /\ OverBudget(net, rank, region.members \cup {c}, ClosureBudget)
  /\ top' = top \ {c}
  /\ UNCHANGED <<net, cfg, pc, graphVars, seeds, root, growVars, listVars, nextR, trialVars, reportVars>>

TryCandidate(c) ==
  /\ pc = "pick" /\ c \in top
  /\ ~OverBudget(net, rank, region.members \cup {c}, ClosureBudget)
  /\ pc' = "try" /\ top' = top \ {c}
  /\ trial' = Add(net, region, c)
  /\ pending' = Violators(net, rank, region.members \cup {c})
  /\ UNCHANGED <<net, cfg, graphVars, seeds, root, growVars, listVars, nextR, reportVars>>

AddViolator(v) ==
  /\ pc = "try" /\ v \in pending /\ \A u \in pending : v <= u
  /\ trial' = Add(net, trial, v) /\ pending' = pending \ {v}
  /\ UNCHANGED <<net, cfg, pc, graphVars, seeds, root, growVars, listVars, top, nextR, reportVars>>

Improved == nextR # EmptyRegion

JudgeTrial ==
  /\ pc = "try" /\ pending = {}
  /\ pc' = "pick"
  /\ nextR' = IF CapsOk(trial) /\ (~Improved \/ Less(Q(nextR), Q(trial))) THEN trial ELSE nextR
  /\ UNCHANGED <<net, cfg, graphVars, seeds, root, growVars, listVars, top, trialVars, reportVars>>

Grow ==
  /\ pc = "pick" /\ top = {} /\ Improved
  /\ region' = nextR
  /\ LET better == Less(Q(best), Q(nextR))
     IN /\ best'  = (IF better THEN nextR ELSE best)
        /\ stall' = (IF better THEN 0 ELSE stall + 1)
        /\ pc'    = (IF ~better /\ stall + 1 >= Stall THEN "report" ELSE "grow")
  /\ UNCHANGED <<net, cfg, graphVars, seeds, root, listVars, top, nextR, trialVars, reportVars>>

StopGrowing ==
  /\ \/ pc = "grow" /\ Cardinality(region.members) >= cfg.max_nodes
     \/ pc = "list" /\ outs = {} /\ listed = {}
     \/ pc = "pick" /\ top = {} /\ ~Improved
  /\ pc' = "report"
  /\ UNCHANGED <<net, cfg, graphVars, seeds, root, growVars, listVars, top, nextR, trialVars, reportVars>>

(* MakeReport *)
Report ==
  /\ pc = "report" /\ pc' = "seed"
  /\ cands' = cands \cup {[ root |-> root, members |-> best.members, in |-> best.in,
                            out |-> best.out, q |-> Q(best), lb |-> LowerBound(net, best, cfg.lut_k) ]}
  /\ UNCHANGED <<net, cfg, graphVars, seeds, root, growVars, listVars, top, nextR, trialVars, regions>>

----------------------------------------------------------------------------
(* The choice of the reported regions *)
Overlap(A, B) ==
  IF A \cup B = {} THEN 0 ELSE (100 * Cardinality(A \cap B)) \div Cardinality(A \cup B)
OverlapLast(m) == regions # <<>> /\ Overlap(m, Last(regions).members) > JaccardPct
   \* slip: compared with the last report only
Duplicate(m) == \E i \in DOMAIN regions : Overlap(m, regions[i].members) > JaccardPct

AllGrown ==
  /\ pc = "seed" /\ seeds = {}
  /\ pc' = "select"
  /\ UNCHANGED <<net, cfg, graphVars, seeds, root, growVars, listVars, top, nextR, trialVars, reportVars>>

Select(c) ==
  /\ pc = "select" /\ c \in cands /\ \A d \in cands : ~Less(c.q, d.q)
  /\ Len(regions) < cfg.num_regions
  /\ cands' = cands \ {c}
  /\ regions' = (IF Duplicate(c.members) THEN regions ELSE Append(regions, c))
  /\ UNCHANGED <<net, cfg, pc, graphVars, seeds, root, growVars, listVars, top, nextR, trialVars>>

Ended == pc = "loop" \/ (pc = "select" /\ (cands = {} \/ Len(regions) >= cfg.num_regions))
Done == Ended /\ UNCHANGED vars

Next ==
  \/ (\E v \in queue : Rank(v)) \/ Ranked
  \/ (\E v \in seeds : NextSeed(v)) \/ (\E v \in pending : InitAdd(v) \/ AddViolator(v)) \/ SkipSeed \/ StartGrowth
  \/ List \/ (\E m \in outs : ListExits(m)) \/ StartStep \/ (\E c \in top : RejectCandidate(c) \/ TryCandidate(c)) \/ JudgeTrial
  \/ Grow \/ StopGrowing \/ Report
  \/ AllGrown \/ (\E c \in cands : Select(c)) \/ Done

Spec == Init /\ [][Next]_vars

----------------------------------------------------------------------------
(* Every variable has its type. *)
IsRegion(r) ==
  /\ r.members \subseteq net.node
  /\ r.driven \in [DOMAIN r.driven -> Nat] /\ DOMAIN r.driven \subseteq net.node \cup net.ci
  /\ r.ext \in [r.members -> Nat]
  /\ r.in \in Nat /\ r.out \in Nat

TypeOK ==
  /\ net \in Networks /\ cfg \in Configs
  /\ pc \in {"rank", "loop", "seed", "init", "grow", "list", "pick", "try", "report", "select"}
  /\ rank \in [net.node -> Nat] /\ indeg \in [net.node -> Nat]
  /\ queue \subseteq net.node /\ processed \subseteq net.node
  /\ IsRegion(region) /\ IsRegion(best) /\ IsRegion(trial) /\ IsRegion(nextR)
  /\ seeds \subseteq net.node /\ stall \in 0 .. Stall
  /\ listed \subseteq net.node /\ outs \subseteq region.members
  /\ pc \in {"list", "pick", "try"} => listed \cap region.members = {}
  /\ top \subseteq listed /\ pending \subseteq net.node

(* Ranks rise strictly along every edge of a network that is taken for      *)
(* acyclic, on which the closure's search band rests; and only a network    *)
(* with a combinational loop is refused.                                    *)
Looped == \E D \in SUBSET net.node : D # {} /\ \A v \in D : Preds(net, v) \cap D # {}
RanksRight ==
  /\ pc \notin {"rank", "loop"} => \A v \in net.node : \A p \in Preds(net, v) : rank[p] < rank[v]
  /\ pc = "loop" => Looped

(* The counts that Region keeps are at every moment, also between two       *)
(* additions, those that a scan of the members gives (Region::recompute).   *)
CountsExact == Exact(net, region) /\ Exact(net, best) /\ Exact(net, trial) /\ Exact(net, nextR)

(* Every region that a growth has reached, and every report, is convex: no  *)
(* path leaves it and comes back.  The closure searches only the band of    *)
(* ranks of the region, once, and a seed is not closed at all.              *)
RegionsConvex ==
  /\ Convex(net, region.members) /\ Convex(net, best.members) /\ Convex(net, nextR.members)
  /\ pc = "init" => Convex(net, trial.members \cup pending)
  /\ \A c \in cands \cup ToSet(regions) : Convex(net, c.members)

(* A report gives the inputs, the outputs, the Q and the bound on LUTs of   *)
(* the region it lists, as a scan of those nodes finds them.                *)
Measured(c) ==
  LET r == Scan(net, c.members)
  IN c.in = r.in /\ c.out = r.out /\ c.q = Q(r) /\ c.lb = LowerBound(net, r, cfg.lut_k)

(* No node dangles or has more fanins than a LUT. *)
Mapped == \A v \in net.node : /\ Succs(net, v) # {} \/ v \in net.co
                              /\ Len(net.fanin[v]) <= cfg.lut_k

(* With the types: what is reported of a seed is measured right, although   *)
(* the growth went on after its best region; it keeps the caps, holds the   *)
(* seed, is the best of its growth, and in a mapped network has a bound on  *)
(* LUTs no greater than its number of nodes; and the reported regions come  *)
(* by falling Q, overlap little, and leave no better candidate behind.      *)
ReportsRight ==
  /\ TypeOK
  /\ \A c \in cands \cup ToSet(regions) :
       /\ Measured(c)
       /\ Cardinality(c.members) <= cfg.max_nodes /\ c.in <= cfg.max_in /\ c.out <= cfg.max_out
       /\ c.root \in c.members
       /\ Mapped => c.lb <= Cardinality(c.members)
  /\ pc \in {"grow", "list", "pick", "try", "report"} => ~Less(Q(best), Q(region))
  /\ \A i, j \in DOMAIN regions : i < j =>
       /\ ~Less(regions[i].q, regions[j].q)
       /\ Overlap(regions[i].members, regions[j].members) <= JaccardPct
  /\ pc = "select" /\ regions # <<>> => \A c \in cands : ~Less(Last(regions).q, c.q)
=============================================================================
