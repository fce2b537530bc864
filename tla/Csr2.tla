---------------------------------- MODULE Csr2 ----------------------------------
(****************************************************************************)
(* ApplyCsr of csr2 (csr2/csr2.cpp): each trajectory works on a copy of the *)
(* frame's network, under the limits taken from it, through relocation,     *)
(* swaps, a beam search for sequences of relocations, the replacement of a  *)
(* node by an equal one, resubstitution, the replication of clusters of     *)
(* nodes, and the balance repair; the best result takes the network's place *)
(* in the frame.  A search changes the network itself and takes it back.    *)
(*                                                                          *)
(* SAT answers are those any window could give, and equal local functions   *)
(* may have representations that differ.  The decomposition of -X is off,   *)
(* as it is by default.  Abc_NtkDup renumbers in the same order: only the   *)
(* order of the numbers is ever looked at, and they are kept.               *)
(****************************************************************************)
EXTENDS Csr2Plans

CONSTANTS
  MaxDepth,         (* kRelocationMaxDepth, 3 *)
  MaxClusters,      (* kMaxClustersPerDriverPart, 16 *)
  MaxClusterNodes,  (* 3 *)
  MaxClusterDepth,  (* 2 *)
  Inputs            (* partitioned networks without dangling nodes, each with a *)
                    (* Config and what the partition database holds             *)

ASSUME BoundsAssumption ==
  /\ MaxDepth \in Nat \ {0} /\ MaxClusters \in Nat /\ MaxClusterNodes \in Nat
  /\ MaxClusterDepth \in Nat /\ SeedLimit \in Nat /\ BeamWidth \in Nat
ASSUME InputsAssumption ==
  \A i \in Inputs :
    /\ IsNetwork(i.net) /\ Acyclic(i.net)
    /\ i.cfg \in [rounds : Nat, stall : Nat \ {0}, relocate : BOOLEAN, repair : BOOLEAN,
                  trajectories : Nat, growth : Nat, cutnets : Nat, balance : Int, parts : Int, pct : Int]

VARIABLES
  frame, limits, (* Abc_FrameReadNtk, EntryLimits *)
  cfg,
  results, tid,  (* the trajectories that were valid, [net, tid] *)
  net, used,     (* the trajectory's network, GrowthTracker *)
  phase, step,
  round, stall, best, progress,
  todo,          (* candidates left in the round *)
  sizes, limit,  (* sz, max_allowed *)
  snap,          (* hop_arrival and the logic depth at the start of a round *)
  saved,         (* what an open round, search or repair may go back to *)
  search,        (* FindBestRelocationSequence *)
  find           (* FindBestReplicationCluster *)

loop == <<round, stall, best, progress>>
entry == <<frame, limits, cfg, results, tid>>
vars == <<entry, net, used, phase, step, loop, todo, sizes, limit, snap, saved, search, find>>

NoSnap == [arrival |-> <<>>, depth |-> 0]
NoSearch == [beam |-> {}, next |-> {}, best |-> NoPlan, depth |-> 0, open |-> NoPlan]
NoTxn == [patches |-> {}, old |-> 0, new |-> 0, dups |-> {}]
NoFind == [driver |-> 0, part |-> 0, frontier |-> <<>>, next |-> <<>>, tried |-> 0,
           depth |-> 0, best |-> NoCluster, txn |-> NoTxn]

Remaining == limits.budget - used

(* OptimizationState.Audit *)
AnyHops(n) ==   \* slip: the hops are not looked at
  Cardinality(n.node) <= limits.nodes /\ CutNets(n) <= limits.cutnets /\ BalanceHolds(n, limits)
Audit(n) == Within(n, limits) /\ used <= limits.budget

----------------------------------------------------------------------------
Phases == <<"begin", "relocate", "swap", "compound", "joint", "resub", "replicate", "repair",
            "audit", "done">>

Init ==
  /\ \E i \in Inputs : frame = i.net /\ cfg = i.cfg
  /\ limits = EntryLimits(frame, cfg)
  /\ results = {} /\ tid = 0 /\ net = frame /\ used = 0
  /\ phase = "begin" /\ step = "enter"
  /\ round = 0 /\ stall = 0 /\ best = 0 /\ progress = FALSE
  /\ todo = {} /\ sizes = <<>> /\ limit = 0 /\ snap = NoSnap
  /\ saved = frame /\ search = NoSearch /\ find = NoFind

(* The head of optimize_trajectory *)
Begin ==
  /\ phase = "begin" /\ tid < cfg.trajectories
  /\ net' = frame /\ used' = 0
  /\ IF Within(frame, limits)
     THEN phase' = (IF cfg.relocate THEN "relocate" ELSE "joint") /\ UNCHANGED tid
     ELSE tid' = tid + 1 /\ UNCHANGED phase
  /\ UNCHANGED <<frame, limits, cfg, results, step, loop, todo, sizes, limit, snap, saved, search, find>>

NextPhase ==
  CASE phase = "relocate" -> "swap"
    [] phase = "swap" -> "compound"
    [] phase = "compound" -> "joint"
    [] phase = "joint" -> "resub"
    [] phase = "resub" -> "replicate"
    [] phase = "replicate" -> IF cfg.repair THEN "repair" ELSE "audit"
    [] phase = "repair" -> "audit"

Enter ==
  /\ step = "enter" /\ phase \in {"relocate", "swap", "compound", "resub", "replicate", "repair"}
  /\ step' = "round"
  /\ round' = 0 /\ stall' = 0 /\ progress' = FALSE /\ best' = CutEdges(net)
  /\ IF phase \in {"relocate", "repair"}
     THEN sizes' = Sizes(net, limits.parts) /\ limit' = MaxAllowed(sizes', limits.pct)
     ELSE UNCHANGED <<sizes, limit>>
  /\ saved' = (IF phase = "repair" THEN net ELSE frame)
  /\ UNCHANGED <<entry, net, used, phase, todo, snap, search, find>>

LeaveWith(n) ==
  /\ net' = n /\ phase' = NextPhase /\ step' = "enter"
  /\ todo' = {} /\ snap' = NoSnap /\ saved' = frame /\ search' = NoSearch
  /\ UNCHANGED <<entry, used, loop, sizes, limit, find>>

----------------------------------------------------------------------------
(* The head of a round *)
Candidates ==
  CASE phase = "relocate" -> Moves(net)
    [] phase = "swap" -> Pairs(net)
    [] phase = "resub" -> CutCandidates(net)
    [] phase = "replicate" -> Replications(net)

Rank(c) ==
  CASE phase = "resub" -> <<c.key, c.node, c.slot>>
    [] phase = "replicate" -> c.key
    [] OTHER -> <<c.key>>

InRounds == phase \in {"relocate", "swap", "resub", "replicate"}
OutOfBudget == phase = "replicate" /\ Remaining < 1
NoRound == round = cfg.rounds \/ OutOfBudget \/ Candidates = {}

LeavePhase == step = "round" /\ InRounds /\ NoRound /\ LeaveWith(net)

StartRound ==
  /\ step = "round" /\ InRounds /\ ~NoRound
  /\ step' = "try" /\ todo' = Candidates /\ progress' = FALSE
  /\ IF phase = "resub"
     THEN snap' = [arrival |-> Arrival(net), depth |-> Depth(net)] /\ saved' = net
     ELSE UNCHANGED <<snap, saved>>
  /\ UNCHANGED <<entry, net, used, phase, round, stall, best, sizes, limit, search, find>>

(* A candidate c of the phase p is taken. *)
First(c) == \A d \in todo : ~Before(Rank(d), Rank(c))
Try(p, c) ==
  /\ phase = p /\ step = "try" /\ First(c) /\ todo' = todo \ {c}
  /\ UNCHANGED <<entry, used, phase, round, stall, best, limit, snap, search>>

Keep == UNCHANGED <<net, progress, sizes, step, saved, find>>
Commit(n) == net' = n /\ progress' = TRUE /\ UNCHANGED <<step, saved, find>>

----------------------------------------------------------------------------
(* run_phase0_relocate *)
MayMove(v, p) == sizes[p] + 1 <= limit /\ Audit(Moved(net, v, p))

MoveNode(c) ==
  /\ Try("relocate", c)
  /\ \E p \in BestTargets(net, c.node) :
       /\ MayMove(c.node, p) /\ Commit(Moved(net, c.node, p))
       /\ sizes' = SizesMoved(sizes, net.part[c.node], p)

KeepNode(c) ==
  /\ Try("relocate", c)
  /\ \/ BestTargets(net, c.node) = {}
     \/ \E p \in BestTargets(net, c.node) : ~MayMove(c.node, p)
  /\ Keep

(* run_phase0_swap *)
MaySwapEven(c) ==   \* slip: a swap that changes nothing is kept
  LET n == Swapped(net, c.a, c.b)
  IN net.part[c.a] # net.part[c.b] /\ CutEdges(n) <= CutEdges(net) /\ Audit(n)
MaySwap(c) ==
  LET n == Swapped(net, c.a, c.b)
  IN net.part[c.a] # net.part[c.b] /\ CutEdges(n) < CutEdges(net) /\ Audit(n)

SwapPair(c) == Try("swap", c) /\ MaySwap(c) /\ Commit(Swapped(net, c.a, c.b)) /\ UNCHANGED sizes
KeepPair(c) == Try("swap", c) /\ ~MaySwap(c) /\ Keep

----------------------------------------------------------------------------
(* FindBestRelocationSequence *)
Searching(from, to) ==
  /\ phase = "compound" /\ step = from /\ step' = to
  /\ UNCHANGED <<entry, used, phase, stall, best, progress, todo, sizes, limit, snap, find>>

StartSearch ==
  /\ Searching("round", "search") /\ round < cfg.rounds
  /\ search' = [NoSearch EXCEPT !.beam = IF Audit(net) THEN {NoPlan} ELSE {}]
  /\ saved' = net /\ UNCHANGED <<net, round>>

OpenParent ==
  /\ Searching("search", "open") /\ search.beam # {}
  /\ search' = [search EXCEPT !.open = FirstBy([p \in search.beam |-> PlanKey(p)])]
  /\ net' = Relocated(net, search'.open.steps)
  /\ UNCHANGED <<round, saved>>

CloseParent ==
  /\ Searching("open", "search")
  /\ search' = [search EXCEPT !.beam = @ \ {search.open}, !.open = NoPlan,
                              !.next = @ \cup Children(net, limits, tid, search.open)]
  /\ net' = RelocationUndone(net, search.open.steps)
  /\ UNCHANGED <<round, saved>>

DeepenBeam ==
  /\ Searching("search", "search") /\ search.beam = {} /\ search.next # {}
  /\ LET kept == FirstsBy([p \in search.next |-> PlanKey(p)], BeamWidth)
         good == {p \in kept \cup {search.best} : p.delta < 0}
     IN search' = [search EXCEPT
          !.next  = {},
          !.depth = @ + 1,
          !.beam  = IF search.depth + 1 < MaxDepth THEN kept ELSE {},
          !.best  = IF good = {} THEN NoPlan ELSE FirstBy([p \in good |-> PlanKey(p)])]
  /\ UNCHANGED <<net, round, saved>>

SearchOver == phase = "compound" /\ step = "search" /\ search.beam \cup search.next = {}

(* ApplyRelocationSequence: what the search found holds, as the network is  *)
(* again what it was.                                                       *)
Applies(n) == CutEdges(n) - CutEdges(net) = search.best.delta /\ search.best.delta < 0 /\ Audit(n)

Sequence == Relocated(net, search.best.steps)

ApplySequence ==
  /\ SearchOver /\ search.best # NoPlan /\ Applies(Sequence) /\ Searching("search", "round")
  /\ net' = Sequence /\ round' = round + 1 /\ search' = NoSearch /\ saved' = frame

EndSearch == SearchOver /\ (search.best = NoPlan \/ ~Applies(Sequence)) /\ LeaveWith(net)
EndCompound == phase = "compound" /\ step = "round" /\ round = cfg.rounds /\ LeaveWith(net)

----------------------------------------------------------------------------
(* RunPhase1Resub, ResubPlanAllowed: the first replacement ends it. *)
MayJoin(j) ==
  LET n == Joined(net, j) IN
  /\ CutEdges(n) < CutEdges(net)
  /\ CutNets(net) + JointNetDelta(net, j[1], net.fanin[j[1]], <<j[2]>>) <= limits.cutnets
  /\ Audit(n)

JoinNode(j) == phase = "joint" /\ j \in Joints(net) /\ MayJoin(j) /\ LeaveWith(Joined(net, j))
JoinNone == phase = "joint" /\ LeaveWith(net)

----------------------------------------------------------------------------
(* try_partition_resub *)
ResubNode(c) ==
  /\ Try("resub", c)
  /\ c.node \in net.node /\ c.slot <= Len(net.fanin[c.node])
  /\ \E D \in DivisorSets(net, c.node) :
       LET f == RemoveAt(net.fanin[c.node], c.slot) \o Listed(D, ById(D))
       IN /\ D = {} \/ Predicted(net, snap.arrival, c.node, f) <= snap.arrival[c.node]
          /\ \E t \in Interpolants(net, c.node, f) :
               LET n == Resubbed(net, c.node, f, t)
               IN Depth(n) <= snap.depth /\ Commit(n)
  /\ UNCHANGED sizes

SkipNode(c) == Try("resub", c) /\ Keep

(* The end of a round of run_phase1_resub, without the sweep of csr *)
Growth == Max({0, Cardinality(Cleaned(net).node) - Cardinality(saved.node)})
RoundFails == Remaining < Growth \/ ~Audit(Cleaned(net))

RollRoundBack ==
  /\ phase = "resub" /\ step = "try" /\ todo = {} /\ RoundFails
  /\ LeaveWith(saved)

KeepRound ==
  /\ phase = "resub" /\ step = "try" /\ todo = {} /\ ~RoundFails
  /\ net' = Cleaned(net) /\ used' = used + Growth /\ saved' = frame

----------------------------------------------------------------------------
(* FindBestReplicationCluster, EvaluateCluster *)
StartFind(c) ==
  /\ Try("replicate", c) /\ Remaining >= 1 /\ step' = "find" /\ saved' = net
  /\ find' = [NoFind EXCEPT !.driver = c.driver, !.part = c.part, !.frontier = <<{c.driver}>>]
  /\ UNCHANGED <<net, progress, sizes>>

Finding(from, to) ==
  /\ phase = "replicate" /\ step = from /\ step' = to
  /\ UNCHANGED <<entry, phase, round, stall, best, todo, sizes, limit, snap, search>>

Evaluated == Head(find.frontier)
TooLarge(C) == Cardinality(C) > MaxClusterNodes \/ Cardinality(C) > Remaining
Buildable(C) ==
  find.tried < MaxClusters /\ ~TooLarge(C) /\ ReadersIn(net, find.driver, find.part) # {}

(* The cluster is done with; those one node larger are for the next level. *)
Advanced(f, n) ==
  LET C == Head(f.frontier) IN
  [f EXCEPT !.frontier = Tail(@), !.tried = @ + 1, !.txn = NoTxn,
            !.next = IF f.depth = MaxClusterDepth \/ Cardinality(C) >= MaxClusterNodes THEN @
                     ELSE AppendNew(@, Expansions(n, C, f.part))]

BuildNext ==
  /\ Finding("find", "judge") /\ find.frontier # <<>> /\ Buildable(Evaluated)
  /\ net' = Built(net, Evaluated, find.driver, find.part)
  /\ find' = [find EXCEPT !.txn = Txn(net, Evaluated, find.driver, find.part)]
  /\ UNCHANGED <<used, saved, progress>>

SkipCluster ==
  /\ Finding("find", "find") /\ find.frontier # <<>> /\ ~Buildable(Evaluated)
  /\ find' = Advanced(find, net)
  /\ UNCHANGED <<net, used, saved, progress>>

Better(c, d) == d = NoCluster \/ Before(ClusterKey(c), ClusterKey(d))
JudgeCluster ==
  /\ Finding("judge", "find")
  /\ net' = ClusterUndone(net, find.txn)
  /\ LET c == [nodes |-> Evaluated, edges |-> CutEdges(net) - CutEdges(saved),
               nets |-> CutNets(net) - CutNets(saved)]
         good == c.edges < 0 /\ Within(net, limits)
     IN find' = [Advanced(find, net') EXCEPT !.best = IF good /\ Better(c, @) THEN c ELSE @]
  /\ UNCHANGED <<used, saved, progress>>

DeepenCluster ==
  /\ Finding("find", "find") /\ find.frontier = <<>> /\ find.next # <<>>
  /\ find' = [find EXCEPT !.frontier = find.next, !.next = <<>>, !.depth = @ + 1]
  /\ UNCHANGED <<net, used, saved, progress>>

FindOver == find.frontier = <<>> /\ find.next = <<>>

(* TryReplicationCluster, GrowthTracker.TryConsume *)
Accepts(n) ==
  /\ CutEdges(n) - CutEdges(net) = find.best.edges /\ CutNets(n) - CutNets(net) = find.best.nets
  /\ Audit(n) /\ ~TooLarge(find.best.nodes)

TryCluster ==
  /\ Finding("find", "try") /\ FindOver /\ find.best # NoCluster
  /\ LET n == Built(net, find.best.nodes, find.driver, find.part) IN
       IF Accepts(n)
       THEN net' = n /\ progress' = TRUE /\ used' = used + Cardinality(find.best.nodes)
       ELSE UNCHANGED <<net, progress, used>>
  /\ find' = NoFind /\ saved' = frame

DropFind ==
  /\ Finding("find", "try") /\ FindOver /\ find.best = NoCluster
  /\ find' = NoFind /\ saved' = frame
  /\ UNCHANGED <<net, used, progress>>

----------------------------------------------------------------------------
(* The end of a round *)
EndRound ==
  /\ step = "try" /\ InRounds
  /\ \/ phase = "resub" /\ KeepRound
     \/ phase # "resub" /\ (todo = {} \/ OutOfBudget) /\ UNCHANGED <<net, used, saved>>
  /\ LET better == IF phase = "replicate" THEN progress ELSE CutEdges(net') < best
         stuck  == (~better /\ stall + 1 >= cfg.stall) \/ (phase # "replicate" /\ ~progress)
     IN /\ best'  = (IF phase # "replicate" /\ better THEN CutEdges(net') ELSE best)
        /\ stall' = (IF better THEN 0 ELSE stall + 1)
        /\ step' = (IF stuck THEN "enter" ELSE "round")
        /\ phase' = (IF stuck THEN NextPhase ELSE phase)
  /\ round' = round + 1 /\ todo' = {} /\ snap' = NoSnap
  /\ UNCHANGED <<entry, progress, sizes, limit, search, find>>

----------------------------------------------------------------------------
(* run_balance_repair: enforce_balance on a copy *)
RepairNode(v) ==
  /\ phase = "repair" /\ step = "round" /\ v \in Movable(net, sizes, limit)
  /\ net' = Moved(net, v, Under(sizes)) /\ sizes' = SizesMoved(sizes, net.part[v], Under(sizes))
  /\ UNCHANGED <<entry, used, phase, step, loop, todo, limit, snap, saved, search, find>>

AnyRepair == Over(sizes, limit) = {}   \* slip: the cut is not compared
Repaired == Over(sizes, limit) = {} /\ CutEdges(net) <= CutEdges(saved) /\ Audit(net)

EndRepair ==
  /\ phase = "repair" /\ step = "round" /\ Movable(net, sizes, limit) = {}
  /\ LeaveWith(IF Repaired THEN net ELSE saved)

----------------------------------------------------------------------------
(* optimize_trajectory returns; ApplyCsr starts the next. *)
EndTrajectory ==
  /\ phase = "audit" /\ phase' = "begin"
  /\ tid' = tid + 1
  /\ results' = (IF Audit(net) THEN results \cup {[net |-> net, tid |-> tid]} ELSE results)
  /\ UNCHANGED <<frame, limits, cfg, net, used, step, loop, todo, sizes, limit, snap, saved, search, find>>

(* TakeBestTrajectory, Abc_FrameReplaceCurrentNetwork *)
Select ==
  /\ phase = "begin" /\ tid = cfg.trajectories /\ phase' = "done"
  /\ frame' = (IF results = {} THEN frame ELSE FirstBy([r \in results |-> ResultKey(r)]).net)
  /\ UNCHANGED <<limits, cfg, results, tid, net, used, step, loop, todo, sizes, limit, snap, saved,
                 search, find>>

Done == phase = "done" /\ UNCHANGED vars

Next ==
  \/ Begin \/ Enter \/ StartRound \/ LeavePhase \/ RollRoundBack \/ EndRound
  \/ \E c \in todo : \/ MoveNode(c) \/ KeepNode(c) \/ SwapPair(c) \/ KeepPair(c)
                     \/ ResubNode(c) \/ SkipNode(c) \/ StartFind(c)
  \/ StartSearch \/ OpenParent \/ CloseParent \/ DeepenBeam \/ ApplySequence \/ EndSearch
  \/ EndCompound
  \/ (\E j \in net.node \X net.node : JoinNode(j)) \/ JoinNone
  \/ BuildNext \/ SkipCluster \/ JudgeCluster \/ DeepenCluster \/ TryCluster \/ DropFind
  \/ (\E v \in net.node : RepairNode(v)) \/ EndRepair
  \/ EndTrajectory \/ Select \/ Done

(* The call runs on its thread until it returns: weak fairness of Next, with *)
(* its enabling condition written out.                                      *)
Runs == []<><<Next>>_vars \/ []<>(phase = "done")
Spec == Init /\ [][Next]_vars /\ Runs
----------------------------------------------------------------------------
(* Every variable has its type; the network is well formed and acyclic.     *)
TypeOK ==
  /\ IsNetwork(net) /\ \A v \in net.node : \A u \in Fanins(net, v) : v \notin Cone(net, u)
  /\ IsNetwork(frame) /\ IsNetwork(saved)
  /\ phase \in ToSet(Phases) /\ step \in {"enter", "round", "try", "search", "open", "find", "judge"}
  /\ tid \in 0 .. cfg.trajectories /\ used \in 0 .. limits.budget
  /\ round \in 0 .. cfg.rounds /\ stall \in 0 .. cfg.stall
  /\ best \in Nat /\ progress \in BOOLEAN /\ limit \in Nat
  /\ \A p \in DOMAIN sizes : sizes[p] \in Nat
  /\ search.depth \in 0 .. MaxDepth /\ Cardinality(search.beam) <= Max({1, BeamWidth})
  /\ find.depth \in 0 .. MaxClusterDepth

(* With the types: whenever a change is settled, and at every node of the   *)
(* beam search, the network is within the limits of the entry; it has no    *)
(* more cut-edges than the entry, but at a node of the search, and no more  *)
(* nodes than the growth that was charged allows.  During a round of        *)
(* resubstitutions, a repair or a cluster under trial none of it need hold. *)
Unsettled == phase \in {"begin", "done"} \/ (phase \in {"resub", "repair"} /\ step # "enter") \/ step = "judge"

LimitsHeld ==
  /\ TypeOK
  /\ ~Unsettled =>
       /\ Within(net, limits)
       /\ step # "open" => CutEdges(net) <= CutEdges(frame)
       /\ Cardinality(net.node) <= Cardinality(frame.node) + used /\ used <= limits.budget

(* Between the trials of a search the network is what it was when the       *)
(* search began: a relocation log and a cluster's transaction undo exactly  *)
(* what was done.                                                           *)
NoTrace == step \in {"search", "find"} => Circuit(net) = Circuit(saved)

(* What is predicted of a change from the neighbourhood of its nodes is     *)
(* what the whole network shows once it is made: the cut-edges and cut-nets *)
(* of a replication, and the cut-nets of a joint replacement.               *)
PredictionsExact ==
  /\ phase = "replicate" /\ step = "round" =>
       \A c \in Replications(net) :
         LET n == Built(net, {c.driver}, c.driver, c.part)
         IN SubSeq(c.key, 1, 2) = <<CutEdges(n) - CutEdges(net), CutNets(n) - CutNets(net)>>
  /\ phase = "joint" =>
       \A j \in Joints(net) :
         CutNets(Joined(net, j)) - CutNets(net)
           = JointNetDelta(net, j[1], net.fanin[j[1]], <<j[2]>>)

(* What a search returns is applied, and brings what the search said.       *)
AppliedAsFound ==
  [][/\ step = "search" /\ step' \notin {"search", "open"} =>
          CutEdges(net') - CutEdges(net) = search.best.delta
     /\ step = "find" /\ step' = "try" =>
          CutEdges(net') - CutEdges(net) = find.best.edges]_vars

(* A change that is accepted lowers the cut-edges strictly.                 *)
CutDrops ==
  [][Circuit(net') # Circuit(net)
       /\ (<<step, step'>> \in {<<"try", "try">>, <<"find", "try">>, <<"search", "round">>}
            \/ phase = "joint")
     => CutEdges(net') < CutEdges(net)]_vars

(* Seen from the frame, all of it is one step: the network stays what it    *)
(* was, or becomes one with the same outputs, within the limits and with no *)
(* more cut-edges.                                                          *)
Frame == INSTANCE Optimizer WITH busy <- phase # "done"
Promise == Frame!Promise

(* The call returns. *)
Finishes == <>(phase = "done")

----------------------------------------------------------------------------
(* docs/csr2.md:179 says that the fast path replaces a node by one of the   *)
(* same fanins and the same function, and line 222 that the results are     *)
(* equivalent: every output of the frame's network stays what it was.       *)
FunctionsKept == Outputs(net) = Outputs(frame)
=============================================================================
