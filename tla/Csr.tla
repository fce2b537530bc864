---------------------------------- MODULE Csr ----------------------------------
(****************************************************************************)
(* ApplyCsr (csr/csr.cpp): relocation and swap of nodes between parts,      *)
(* resubstitution of crossing fanins by divisors of the node's own part,    *)
(* replication of drivers into the parts of their readers, and the optional *)
(* balance repair of cpr.  Each phase runs rounds over a list of candidates *)
(* collected once per round.                                                *)
(*                                                                          *)
(* SAT answers are those any window could give: a resubstitution that keeps *)
(* every output may be found or missed.  The decomposition of -X is off, as *)
(* it is by default.                                                        *)
(****************************************************************************)
EXTENDS Sweep, PartMoves

CONSTANTS
  Networks,   (* partitioned networks without dangling nodes *)
  Configs     (* Config, with what the partition database holds at the start *)

ASSUME NetworksAssumption == \A n \in Networks : IsNetwork(n) /\ Acyclic(n)
ASSUME ConfigsAssumption ==
  Configs \subseteq [rounds : Nat, stall : Nat \ {0}, relocate : BOOLEAN, repair : BOOLEAN, growth : Nat,
                     balance : Int, parts : Nat \cup {-1}, pct : Nat \cup {-1}]

VARIABLES
  net, pdb,     (* the network; num_parts and balance_pct of its database *)
  cfg,
  phase, step,
  round, stall, best, progress,   (* round, stall_count, best_cutedges, round_moved # 0 *)
  todo,         (* candidates left in the round, by key *)
  hop,          (* baseline_hop *)
  snap,         (* hop_arrival, HopSlack: arrival, allowed, and the logic depth *)
  sizes, limit, (* sz, max_allowed *)
  extra, budget,(* extra_nodes, max_extra_nodes *)
  first         (* the network at the start *)

loop == <<round, stall, best, progress>>
vars == <<net, pdb, cfg, phase, step, loop, todo, hop, snap, sizes, limit, extra, budget, first>>

NoSnap == [arrival |-> <<>>, allowed |-> <<>>, depth |-> 0]

(* Any Abc_ObjSetPartId clears the statistics, the balance among them. *)
Invalid == [parts |-> -1, pct |-> -1]

FirstOf(c) == c \in todo /\ \A d \in todo : c.key <= d.key
Take(c) == todo' = todo \ {c}

----------------------------------------------------------------------------
(* resolve_num_parts, compute_balance_max_allowed *)
NumParts == Parts(net, pdb)
Pct == BalancePct([balance |-> cfg.balance, pct |-> pdb.pct])

----------------------------------------------------------------------------
(* compute_hop_slack: arrival + slack = required *)
Required(n) ==
  LET max == HopNum(n)
      required[v \in Vertices(n)] ==
        LET readers == {w \in Fanouts(n, v) : n.part[w] # NoPart}
        IN IF v \in n.pi \/ n.part[v] = NoPart \/ readers = {} THEN max
           ELSE Min({required[w] - (IF n.part[w] # n.part[v] THEN 1 ELSE 0) : w \in readers})
  IN required

(* The slack gate of try_replicate.  The snapshot has no entry for nodes    *)
(* made since: it is read out of its range, with any outcome.               *)
Gated(u) == {w \in Fanins(net, u) : net.part[w] # NoPart}
InRange(u) == {u} \cup Gated(u) \subseteq DOMAIN snap.arrival
KnownHops(u, p) ==
  HopsOver(net, snap.arrival, SelectSeq(net.fanin[u], LAMBDA w : w \in DOMAIN snap.arrival), p)
MayPass(u, p) == u \in DOMAIN snap.allowed => KnownHops(u, p) <= snap.allowed[u]
MayFail(u, p) == InRange(u) => KnownHops(u, p) > snap.allowed[u]

(* try_replicate: the readers of u in the part p read a duplicate there. *)
Replicated(n, u, p) ==
  Patched(Extended(n, n.fanin[u], n.truth[u], p), ReadersIn(n, u, p), u, n.max)

HopFarExceeded(n) == HopNum(n) > hop + 1   \* slip: off by one
HopExceeded(n) == HopNum(n) > hop
----------------------------------------------------------------------------
Phases == <<"relocate", "swap", "resub", "replicate", "repair", "done">>

Init ==
  /\ net \in Networks /\ first = net
  /\ \E c \in Configs : cfg = c /\ pdb = [parts |-> c.parts, pct |-> c.pct]
  /\ phase = (IF cfg.relocate THEN "relocate" ELSE "resub") /\ step = "enter"
  /\ round = 0 /\ stall = 0 /\ best = 0 /\ progress = FALSE
  /\ todo = {} /\ snap = NoSnap /\ hop = 0
  /\ sizes = <<>> /\ limit = 0 /\ extra = 0 /\ budget = 0

Enter(p) ==
  /\ phase = p /\ step = "enter" /\ step' = "round"
  /\ round' = 0 /\ stall' = 0 /\ progress' = FALSE /\ best' = CutEdges(net)
  /\ UNCHANGED <<net, pdb, cfg, phase, todo, first>>

EnterRelocate ==
  /\ Enter("relocate")
  /\ sizes' = Sizes(net, NumParts) /\ limit' = MaxAllowed(sizes', Pct) /\ hop' = HopNum(net)
  /\ UNCHANGED <<snap, extra, budget>>

EnterSwap ==
  /\ Enter("swap")
  /\ hop' = HopNum(net)
  /\ UNCHANGED <<snap, sizes, limit, extra, budget>>

EnterResub == Enter("resub") /\ UNCHANGED <<snap, hop, sizes, limit, extra, budget>>

EnterReplicate ==
  /\ Enter("replicate")
  /\ extra' = 0 /\ budget' = (Cardinality(net.node) * cfg.growth) \div 100
  /\ snap' = [NoSnap EXCEPT !.arrival = Arrival(net), !.allowed = Required(net)]
  /\ UNCHANGED <<hop, sizes, limit>>

EnterRepair ==
  /\ Enter("repair")
  /\ sizes' = Sizes(net, NumParts) /\ limit' = MaxAllowed(sizes', Pct)
  /\ UNCHANGED <<hop, snap, extra, budget>>

NextPhase ==
  CASE phase = "relocate" -> "swap"
    [] phase = "swap" -> "resub"
    [] phase = "resub" -> "replicate"
    [] phase = "replicate" -> IF cfg.repair THEN "repair" ELSE "done"
    [] phase = "repair" -> "done"

Leave ==
  /\ phase' = NextPhase /\ step' = "enter"
  /\ todo' = {} /\ snap' = NoSnap
  /\ UNCHANGED <<net, pdb, cfg, loop, hop, sizes, limit, extra, budget, first>>

----------------------------------------------------------------------------
(* The head of a round *)
Candidates ==
  CASE phase = "relocate" -> Moves(net)
    [] phase = "swap" -> Pairs(net)
    [] OTHER -> CutCandidates(net)

OutOfBudget == phase = "replicate" /\ extra >= budget
NoRound == phase # "repair" /\ (round = cfg.rounds \/ OutOfBudget \/ Candidates = {})

LeavePhase == step = "round" /\ NoRound /\ Leave

StartRound ==
  /\ step = "round" /\ phase # "repair" /\ ~NoRound
  /\ step' = "try" /\ todo' = Candidates /\ progress' = FALSE
  /\ snap' = IF phase # "resub" THEN snap
             ELSE [arrival |-> Arrival(net), allowed |-> Arrival(net), depth |-> Depth(net)]
  /\ UNCHANGED <<net, pdb, cfg, phase, round, stall, best, hop, sizes, limit, extra, budget, first>>

(* A candidate c of the phase p is taken. *)
Try(p, c) ==
  /\ phase = p /\ step = "try" /\ FirstOf(c) /\ ~OutOfBudget /\ Take(c)
  /\ UNCHANGED <<cfg, phase, step, round, stall, best, hop, snap, limit, budget, first>>

Keep == UNCHANGED <<net, pdb, progress, sizes, extra>>
Undo == pdb' = Invalid /\ UNCHANGED <<net, progress, sizes, extra>>
Commit(n) == net' = n /\ pdb' = Invalid /\ progress' = TRUE

----------------------------------------------------------------------------
(* run_phase0_relocate: the target is chosen again *)
MayMoveUncapped(v, p) == p \in BestTargets(net, v)   \* slip: no balance cap
MayMove(v, p) == p \in BestTargets(net, v) /\ sizes[p] + 1 <= limit

MoveNode(c) ==
  /\ Try("relocate", c)
  /\ \E p \in BestTargets(net, c.node) :
       /\ MayMove(c.node, p) /\ ~HopExceeded(Moved(net, c.node, p))
       /\ Commit(Moved(net, c.node, p))
       /\ sizes' = SizesMoved(sizes, net.part[c.node], p)
  /\ UNCHANGED extra

KeepNode(c) ==
  /\ Try("relocate", c)
  /\ \/ BestTargets(net, c.node) = {} /\ Keep
     \/ \E p \in BestTargets(net, c.node) :
          \/ ~MayMove(c.node, p) /\ Keep
          \/ MayMove(c.node, p) /\ HopExceeded(Moved(net, c.node, p)) /\ Undo

(* run_phase0_swap *)
Improves(n) == CutEdges(n) < CutEdges(net)

SwapPair(c) ==
  /\ Try("swap", c)
  /\ net.part[c.a] # net.part[c.b]
  /\ LET n == Swapped(net, c.a, c.b) IN Improves(n) /\ ~HopExceeded(n) /\ Commit(n)
  /\ UNCHANGED <<sizes, extra>>

KeepPair(c) ==
  /\ Try("swap", c)
  /\ \/ net.part[c.a] = net.part[c.b] /\ Keep
     \/ /\ net.part[c.a] # net.part[c.b]
        /\ LET n == Swapped(net, c.a, c.b) IN ~Improves(n) \/ HopExceeded(n)
        /\ Undo

----------------------------------------------------------------------------
(* try_partition_resub: the slot goes, with up to two divisors in its place *)
Alive(c) == c.node \in net.node /\ c.slot <= Len(net.fanin[c.node])

ResubNode(c) ==
  /\ Try("resub", c) /\ Alive(c)
  /\ \E D \in DivisorSets(net, c.node) :
       LET f == RemoveAt(net.fanin[c.node], c.slot) \o Listed(D, ById(D))
       IN /\ D = {} \/ Predicted(net, snap.arrival, c.node, f) <= snap.allowed[c.node]
          /\ \E t \in Interpolants(net, c.node, f) :
               LET n == Resubbed(net, c.node, f, t)
               IN Depth(n) <= snap.depth /\ Commit(n)
  /\ UNCHANGED <<sizes, extra>>

SkipNode(c) == Try("resub", c) /\ Keep

----------------------------------------------------------------------------
(* try_replicate *)
Replicable(c) ==
  /\ Alive(c)
  /\ net.fanin[c.node][c.slot] \in net.node
  /\ Crosses(net, net.fanin[c.node][c.slot], c.node)

Replicate(c) ==
  /\ Try("replicate", c)
  /\ Replicable(c)
  /\ LET u == net.fanin[c.node][c.slot]
         p == net.part[c.node]
         n == Replicated(net, u, p)
     IN /\ MayPass(u, p)
        /\ \/ Improves(n) /\ Commit(n) /\ extra' = extra + 1
           \/ /\ ~Improves(n)
              /\ net' = [net EXCEPT !.max = n.max] /\ pdb' = Invalid
              /\ UNCHANGED <<progress, extra>>
  /\ UNCHANGED sizes

SkipDriver(c) ==
  /\ Try("replicate", c)
  /\ Replicable(c) => MayFail(net.fanin[c.node][c.slot], net.part[c.node])
  /\ Keep

----------------------------------------------------------------------------
(* The end of a round *)
EndRound ==
  /\ \/ step = "try" /\ phase # "resub" /\ (todo = {} \/ OutOfBudget)
     \/ step = "swept"
  /\ LET better == IF phase = "replicate" THEN progress ELSE CutEdges(net) < best
         stuck  == (~better /\ stall + 1 >= cfg.stall) \/ (phase # "replicate" /\ ~progress)
     IN /\ best'  = (IF phase # "replicate" /\ better THEN CutEdges(net) ELSE best)
        /\ stall' = (IF better THEN 0 ELSE stall + 1)
        /\ step' = (IF stuck THEN "enter" ELSE "round")
        /\ phase' = (IF stuck THEN NextPhase ELSE phase)
        /\ snap' = (IF stuck THEN NoSnap ELSE snap)
  /\ round' = round + 1 /\ todo' = {}
  /\ UNCHANGED <<net, pdb, cfg, progress, hop, sizes, limit, extra, budget, first>>

(* Abc_NtkSweep after a round of resubstitutions *)
SweepStep(n) ==
  /\ net' = n /\ pdb' = (IF n.node = net.node THEN pdb ELSE Invalid)
  /\ UNCHANGED <<cfg, phase, loop, todo, hop, snap, sizes, limit, extra, budget, first>>

StartSweep ==
  /\ phase = "resub" /\ step = "try" /\ todo = {} /\ step' = "sweep"
  /\ SweepStep(AllMinimumBase(Cleaned(net)))

SweepNode(v) ==
  /\ step = "sweep" /\ v \in Sweepable(net) /\ UNCHANGED step
  /\ \E w \in Fanouts(net, v) : SweepStep(SweptInto(net, v, w))

SweepOutputs ==
  /\ step = "sweep" /\ Sweepable(net) = {} /\ step' = "swept"
  /\ SweepStep(Cleaned(OutputsSwept(net)))

----------------------------------------------------------------------------
Repair(v) ==
  /\ phase = "repair" /\ step = "round" /\ v \in Movable(net, sizes, limit)
  /\ net' = Moved(net, v, Under(sizes)) /\ pdb' = Invalid
  /\ sizes' = SizesMoved(sizes, net.part[v], Under(sizes))
  /\ UNCHANGED <<cfg, phase, step, loop, todo, hop, snap, limit, extra, budget, first>>

Repaired == phase = "repair" /\ step = "round" /\ Movable(net, sizes, limit) = {} /\ Leave

Done == phase = "done" /\ UNCHANGED vars

Next ==
  \/ EnterRelocate \/ EnterSwap \/ EnterResub \/ EnterReplicate \/ EnterRepair
  \/ StartRound \/ LeavePhase \/ EndRound
  \/ \E c \in todo : \/ MoveNode(c) \/ KeepNode(c) \/ SwapPair(c) \/ KeepPair(c)
                     \/ ResubNode(c) \/ SkipNode(c) \/ Replicate(c) \/ SkipDriver(c)
  \/ StartSweep \/ (\E v \in net.node : SweepNode(v)) \/ SweepOutputs
  \/ (\E v \in net.node : Repair(v)) \/ Repaired \/ Done

(* The call runs on its thread until it returns: weak fairness of Next, with *)
(* its enabling condition written out.                                      *)
Runs == []<><<Next>>_vars \/ []<>(phase = "done")
Spec == Init /\ [][Next]_vars /\ Runs

----------------------------------------------------------------------------
(* Every variable has its type; the network is well formed and acyclic.     *)
TypeOK ==
  /\ IsNetwork(net) /\ \A v \in net.node : \A u \in Fanins(net, v) : v \notin Cone(net, u)
  /\ pdb.parts \in Nat \cup {-1} /\ pdb.pct \in Nat \cup {-1}
  /\ phase \in ToSet(Phases) /\ step \in {"enter", "round", "try", "sweep", "swept"}
  /\ round \in 0 .. cfg.rounds /\ stall \in 0 .. cfg.stall
  /\ best \in Nat /\ progress \in BOOLEAN /\ hop \in Nat
  /\ \A p \in DOMAIN sizes : sizes[p] \in Nat
  /\ limit \in Nat /\ extra \in 0 .. budget

(* Every output computes at every point of the run what it computed at the  *)
(* start, of the inputs there were: relocation, swap and repair relabel,    *)
(* resubstitution uses only don't-cares, replication copies, and the sweep  *)
(* between rounds simplifies.                                               *)
FunctionsKept == net.pi = first.pi /\ Outputs(net) = Outputs(first)

(* A candidate that is accepted lowers the cut-edges strictly, as they are  *)
(* counted over the whole network, although relocation looks at one node's  *)
(* edges only, the lists are a round old, and resubstitution counts nothing.*)
CutDrops == [][step = "try" /\ step' = "try" /\ Circuit(net') # Circuit(net)
                 => CutEdges(net') < CutEdges(net)]_vars

(* Relocation and swap never leave the network with more hops than it had,  *)
(* and replication never more than when that phase began, although its gate *)
(* looks at the fanins of the driver and at a snapshot it does not refresh. *)
HopsKept ==
  /\ phase \in {"relocate", "swap"} => HopNum(net) <= HopNum(first)
  /\ phase = "replicate" /\ step # "enter" =>
       HopNum(net) <= Max({0} \cup {snap.arrival[v] : v \in DOMAIN snap.arrival})

(* With the types: the sizes kept during relocation are those of the        *)
(* network; no part grows past the balance limit, unless it was larger from *)
(* the start; a run adds no more nodes than the growth limit; and after a   *)
(* repair no part is over the limit, or the first that is has only inputs,  *)
(* which stay.                                                              *)
LimitsKept ==
  /\ TypeOK
  /\ phase \in {"relocate", "swap"} /\ sizes # <<>> =>
       /\ sizes = Sizes(net, Cardinality(DOMAIN sizes))
       /\ \A p \in DOMAIN sizes :
            sizes[p] <= Max({limit, Sizes(first, Cardinality(DOMAIN sizes))[p]})
  /\ Cardinality(net.node) <= Cardinality(first.node) + (Cardinality(first.node) * cfg.growth) \div 100
  /\ phase = "done" /\ cfg.repair /\ Over(sizes, limit) # {} => NodesOf(net, Min(Over(sizes, limit))) = {}

(* The call returns. *)
Finishes == <>(phase = "done")

----------------------------------------------------------------------------
(* What csr.cpp:253 and docs/csr.md:59 say of the hop gate: a round of      *)
(* resubstitutions does not raise the hops of the network.                  *)
ResubHops ==
  phase = "resub" /\ step = "try" =>
    HopNum(net) <= Max({0} \cup {snap.arrival[v] : v \in DOMAIN snap.arrival})
=============================================================================
