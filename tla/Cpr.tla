----------------------------------- MODULE Cpr -----------------------------------
(****************************************************************************)
(* ApplyCpr (cpr/cpr.cpp) and the timer it asks: nodes are moved and        *)
(* duplicated along a critical path, so that it crosses fewer parts, and    *)
(* the balance of the parts is repaired at the end.                         *)
(*                                                                          *)
(* A path is a sequence of vertices; the output it ends in, which has no    *)
(* part, is left out.  A critical path is any that ends at a latest output, *)
(* as the sort of the outputs by arrival is not stable.                     *)
(****************************************************************************)
EXTENDS PartMoves

CONSTANT Inputs   (* [net, cfg]; cfg has the options of cpr, and parts and pct *)

ASSUME InputsAssumption ==
  \A i \in Inputs :
    /\ IsNetwork(i.net) /\ Acyclic(i.net)
    /\ i.cfg \in [moves : Nat, moveStall : Nat, copies : Nat, copyStall : Nat, growth : Nat,
                  cutsize : Int, balance : Int, parts : Int, pct : Int]

VARIABLES
  net, cfg,
  step,       (* "relocate", "replicate", "walk", "repair" or "done" *)
  round, stall,
  path, idx,  (* path_ids of a replication round; the place on it *)
  hops,       (* path_hops *)
  cuts,       (* LocalCutNetState, as it was last computed *)
  ledger,     (* the ReplicateEntry list of the round *)
  extra,      (* extra_nodes *)
  arrival,    (* the arrivals when the repair starts *)
  first,      (* the network at the start *)
  before      (* the network at the start of the round *)

vars == <<net, cfg, step, round, stall, path, idx, hops, cuts, ledger, extra, arrival, first, before>>

MaxExtra == (Cardinality(first.node) * cfg.growth) \div 100
MaxCut   == Max({CutNets(first), (CutNets(first) * (100 + cfg.cutsize)) \div 100})
NumParts == Parts(first, cfg)

----------------------------------------------------------------------------
(* The timer: compute_arrival and extract_top_paths(1) *)
EdgeDelay(n, u, v) == IF Crosses(n, u, v) THEN 200 ELSE 0

Timing(n) ==
  LET at[v \in Vertices(n)] ==
        IF v \in n.pi THEN 0 ELSE 1 + Max({0} \cup {at[u] + EdgeDelay(n, u, v) : u \in Fanins(n, v)})
  IN at

(* the first of the fanins that v waits for longest *)
Latest(n, at, v) ==
  LET wait(i) == at[n.fanin[v][i]] + EdgeDelay(n, n.fanin[v][i], v)
      f == DOMAIN n.fanin[v]
  IN n.fanin[v][Min({i \in f : \A j \in f : wait(j) <= wait(i)})]

(* A start that is not an input, a constant, is on the path twice. *)
CriticalPaths(n) ==
  LET at == Timing(n)
      trace[v \in Vertices(n)] ==
        IF v \in n.pi THEN <<v>>
        ELSE IF n.fanin[v] = <<>> THEN <<v, v>> ELSE Append(trace[Latest(n, at, v)], v)
      ends == ToSet(n.po)
  IN {trace[v] : v \in {v \in ends : \A w \in ends : at[w] <= at[v]}}

PathHops(n, p) == Cardinality({i \in 2 .. Len(p) : Crosses(n, p[i - 1], p[i])})

----------------------------------------------------------------------------
(* ordered_path_nodes: only the first of a path may be an input.            *)
(* extract_segments: the places of q where another part begins, but for the *)
(* first; a segment that is not the last ends before the next.              *)
PathNodes(n, p) == IF Head(p) \in n.node THEN p ELSE Tail(p)
Borders(n, q) == {i \in 2 .. Len(q) : n.part[q[i]] # n.part[q[i - 1]]}

InnerSegments(n, q) ==
  {s \in Borders(n, q) \X Borders(n, q) : s[1] < s[2] /\ \A i \in Borders(n, q) : i <= s[1] \/ i >= s[2]}

(* The parts that the nodes of the segment s may get: that of the segment   *)
(* before, that of the one after, or the first half the one and the others  *)
(* the other.                                                               *)
Shapes(n, q, s) ==
  LET from == n.part[q[s[1] - 1]]
      to   == n.part[q[s[2]]]
      half == s[1] + (s[2] - s[1]) \div 2
  IN {[kind |-> 0, part |-> [i \in s[1] .. s[2] - 1 |-> from]]}
     \cup (IF to = from THEN {} ELSE
             {[kind |-> 1, part |-> [i \in s[1] .. s[2] - 1 |-> to]],
              [kind |-> 2, part |-> [i \in s[1] .. s[2] - 1 |-> IF i < half THEN from ELSE to]]})

IsShape(s, m) ==
  /\ \A i \in DOMAIN m.part : m.part[i] # NoPart
  /\ m.kind = 2 => s[2] - s[1] >= 2

Relabelled(n, q, m) ==
  [n EXCEPT !.part = [v \in DOMAIN @ |->
     IF \E i \in DOMAIN m : q[i] = v THEN m[CHOOSE i \in DOMAIN m : q[i] = v] ELSE @[v]]]

(* evaluate_segment_move *)
Evaluated(n, p, q, s, m) ==
  LET k     == Relabelled(n, q, m.part)
      delta == CutNets(k) - CutNets(n)
      most  == MaxAllowed(Sizes(n, NumParts), BalancePct(cfg))
  IN [ net |-> k, gain |-> PathHops(n, p) - PathHops(k, p), delta |-> delta, size |-> s[2] - s[1],
       cost |-> 1 + Max({0, delta}) + Excess(Sizes(k, NumParts), most), order |-> <<s[1], m.kind>> ]

SegmentMoves(n, p) ==
  LET q == PathNodes(n, p)
      moves == UNION {{Evaluated(n, p, q, s, m) : m \in {m \in Shapes(n, q, s) : IsShape(s, m)}} :
                        s \in InnerSegments(n, q)}
  IN {m \in moves : CutNets(m.net) <= MaxCut /\ m.gain > 0}

(* is_better_segment_move: the score is gain / cost, up to a thousandth; of *)
(* two that are as good the one found first is kept.                        *)
Ahead(m, k) == 1000 * (m.gain * k.cost - k.gain * m.cost) > m.cost * k.cost
Before(s, t) == \E i \in DOMAIN s : s[i] < t[i] /\ \A j \in 1 .. i - 1 : s[j] = t[j]
IsBetter(m, k) ==
  \/ Ahead(m, k)
  \/ /\ ~Ahead(k, m)
     /\ Before(<<- m.gain, m.delta, m.size>> \o m.order, <<- k.gain, k.delta, k.size>> \o k.order)

----------------------------------------------------------------------------
(* try_replicate_on_path: the readers of u in the part p read a duplicate.  *)
AllReaders(n, u, p) == Fanouts(n, u)   \* slip: those in other parts as well
CopyReaders(n, u, p) == ReadersIn(n, u, p)

Copied(n, u, p) ==
  Patched(Extended(n, n.fanin[u], n.truth[u], p), CopyReaders(n, u, p), u, n.max)

(* revert_replicate_round; an entry has the node, the duplicate and its readers *)
Unpatched(n, entries) ==   \* slip: the duplicates stay
  FoldRight(LAMBDA e, k : Patched(k, e.readers, e.dup, e.obj), entries, n)
RoundReverted(n, entries) ==
  FoldRight(LAMBDA e, k : Without(Patched(k, e.readers, e.dup, e.obj), {e.dup}), entries, n)

----------------------------------------------------------------------------
Init ==
  /\ \E i \in Inputs : net = i.net /\ cfg = i.cfg
  /\ first = net /\ before = net
  /\ NumParts >= 2
  /\ step = "relocate" /\ round = 0 /\ stall = 0
  /\ path = <<>> /\ idx = 0 /\ hops = 0 /\ cuts = {} /\ ledger = <<>> /\ extra = 0 /\ arrival = <<>>

Walkless == UNCHANGED <<path, idx, hops, cuts, ledger>>

(* run_relocate_phase *)
HasSegments(p) == Borders(net, PathNodes(net, p)) # {}

Relocate ==
  /\ step = "relocate" /\ round < cfg.moves
  /\ \E p \in CriticalPaths(net) :
       /\ HasSegments(p)
       /\ LET moves == SegmentMoves(net, p)
          IN \E m \in moves : /\ \A k \in moves \ {m} : IsBetter(m, k)
                              /\ net' = m.net
  /\ round' = round + 1 /\ stall' = 0
  /\ Walkless /\ UNCHANGED <<cfg, step, extra, arrival, first, before>>

NoMove ==
  /\ step = "relocate" /\ round < cfg.moves /\ stall + 1 < cfg.moveStall
  /\ \E p \in CriticalPaths(net) : HasSegments(p) /\ SegmentMoves(net, p) = {}
  /\ round' = round + 1 /\ stall' = stall + 1
  /\ Walkless /\ UNCHANGED <<net, cfg, step, extra, arrival, first, before>>

EndRelocate ==
  /\ step = "relocate"
  /\ \/ round = cfg.moves \/ CriticalPaths(net) = {}
     \/ \E p \in CriticalPaths(net) :
          \/ ~HasSegments(p)
          \/ SegmentMoves(net, p) = {} /\ stall + 1 >= cfg.moveStall
  /\ step' = "replicate" /\ round' = 0 /\ stall' = 0
  /\ Walkless /\ UNCHANGED <<net, cfg, extra, arrival, first, before>>

----------------------------------------------------------------------------
(* run_replicate_phase *)
StartRound ==
  /\ step = "replicate" /\ round < cfg.copies /\ extra < MaxExtra
  /\ \E p \in CriticalPaths(net) :
       PathHops(net, p) > 0 /\ path' = p /\ hops' = PathHops(net, p)
  /\ step' = "walk" /\ idx' = 2 /\ cuts' = CutDrivers(net) /\ ledger' = <<>> /\ before' = net
  /\ UNCHANGED <<net, cfg, round, stall, extra, arrival, first>>

StartRepair(n) ==
  /\ net' = n /\ step' = "repair" /\ arrival' = Timing(n) /\ path' = <<>> /\ idx' = 0 /\ hops' = 0
  /\ cuts' = {} /\ ledger' = <<>> /\ UNCHANGED <<cfg, round, stall, first, before>>

EndReplicate ==
  /\ step = "replicate"
  /\ \/ round = cfg.copies \/ extra >= MaxExtra \/ CriticalPaths(net) = {}
     \/ \E p \in CriticalPaths(net) : PathHops(net, p) = 0
  /\ StartRepair(net) /\ UNCHANGED extra

Walking == step = "walk" /\ idx < Len(path) /\ extra < MaxExtra

StaleCuts(n) == cuts   \* slip: the cut nets of the start of the round
CutsOf(n) == CutDrivers(n)

MayCopy(u, w) == u \in cuts /\ net.part[u] # NoPart /\ Foreign(net.part[w], net.part[u])

Replicate ==
  LET u == path[idx]
      w == path[idx + 1]
      n == Copied(net, u, net.part[w])
      p == [path EXCEPT ![idx] = net.max]
  IN /\ Walking /\ MayCopy(u, w) /\ PathHops(n, p) < hops
     /\ net' = n /\ path' = p /\ hops' = PathHops(n, p) /\ cuts' = CutsOf(n)
     /\ ledger' = Append(ledger, [obj |-> u, dup |-> net.max, readers |-> CopyReaders(net, u, net.part[w])])
     /\ extra' = extra + 1 /\ idx' = idx + 1
     /\ UNCHANGED <<cfg, step, round, stall, arrival, first, before>>

(* The duplicate that does not shorten the path is taken back. *)
PassOver ==
  LET u == path[idx]
      w == path[idx + 1]
  IN /\ Walking
     /\ \/ ~MayCopy(u, w) /\ UNCHANGED net
        \/ /\ MayCopy(u, w)
           /\ PathHops(Copied(net, u, net.part[w]), [path EXCEPT ![idx] = net.max]) >= hops
           /\ net' = [net EXCEPT !.max = @ + 1]
     /\ idx' = idx + 1
     /\ UNCHANGED <<cfg, step, round, stall, path, hops, cuts, ledger, extra, arrival, first, before>>

RoundOver == step = "walk" /\ (idx >= Len(path) \/ extra >= MaxExtra)

RevertRound ==
  /\ RoundOver /\ Cardinality(cuts) > MaxCut
  /\ StartRepair(RoundReverted(net, ledger)) /\ extra' = extra - Len(ledger)

(* Every entry of the ledger made the path shorter. *)
Stuck == ledger = <<>> /\ stall + 1 >= cfg.copyStall

KeepRound ==
  /\ RoundOver /\ Cardinality(cuts) <= MaxCut /\ ~Stuck
  /\ step' = "replicate" /\ round' = round + 1
  /\ stall' = (IF ledger = <<>> THEN stall + 1 ELSE 0)
  /\ path' = <<>> /\ idx' = 0 /\ hops' = 0 /\ cuts' = {} /\ ledger' = <<>>
  /\ UNCHANGED <<net, cfg, extra, arrival, first, before>>

EndStuck ==
  /\ RoundOver /\ Cardinality(cuts) <= MaxCut /\ Stuck
  /\ StartRepair(net) /\ UNCHANGED extra

----------------------------------------------------------------------------
(* enforce_balance: of the nodes it may move, one that arrives first *)
Repairable ==
  LET sz == Sizes(net, NumParts) IN Movable(net, sz, MaxAllowed(sz, BalancePct(cfg)))

Repair ==
  /\ step = "repair"
  /\ \E v \in Repairable :
       /\ \A w \in Repairable : arrival[v] <= arrival[w]
       /\ net' = Moved(net, v, Under(Sizes(net, NumParts)))
  /\ Walkless /\ UNCHANGED <<cfg, step, round, stall, extra, arrival, first, before>>

Repaired ==
  /\ step = "repair" /\ Repairable = {} /\ step' = "done"
  /\ Walkless /\ UNCHANGED <<net, cfg, round, stall, extra, arrival, first, before>>

Done == step = "done" /\ UNCHANGED vars

Next ==
  \/ Relocate \/ NoMove \/ EndRelocate
  \/ StartRound \/ Replicate \/ PassOver \/ RevertRound \/ KeepRound \/ EndStuck \/ EndReplicate
  \/ Repair \/ Repaired \/ Done

Spec == Init /\ [][Next]_vars
----------------------------------------------------------------------------
(* Every variable has its type. *)
TypeOK ==
  /\ IsNetwork(net) /\ path \in Seq(Vertices(net)) /\ idx \in 0 .. Len(path) + 1
  /\ step \in {"relocate", "replicate", "walk", "repair", "done"}
  /\ round \in 0 .. Max({cfg.moves, cfg.copies}) /\ stall \in Nat /\ hops \in Nat
  /\ cuts \subseteq Vertices(net) /\ extra \in 0 .. MaxExtra /\ Len(ledger) <= extra

(* With the types: relocations and whole rounds of replication stay within  *)
(* the cut cap; the duplicates that are counted are the nodes that were     *)
(* added, through every acceptance and revert, and no more than the growth  *)
(* limit allows; and the repair ends with no part over the limit, or with   *)
(* nothing but inputs in the first that is.                                 *)
LimitsHeld ==
  /\ TypeOK
  /\ step \in {"relocate", "replicate"} => CutNets(net) <= MaxCut
  /\ extra = Cardinality(net.node) - Cardinality(first.node) /\ extra <= MaxExtra
  /\ step = "done" =>
       LET sz == Sizes(net, NumParts)
           over == Over(sz, MaxAllowed(sz, BalancePct(cfg)))
       IN over # {} => NodesOf(net, Min(over)) = {}

(* While a round goes along the path and puts duplicates into it, what it   *)
(* remembers is true of the network as it is now: each vertex of the path   *)
(* reads the one before it, the hops are those of the path and the cut nets *)
(* those of the network, although the path was traced before the first      *)
(* duplicate was made.                                                      *)
WalkExact ==
  step = "walk" =>
    /\ \A i \in 2 .. Len(path) : \/ path[i - 1] \in Fanins(net, path[i])
                                 \/ i = 2 /\ path[1] = path[2] /\ Fanins(net, path[2]) = {}
    /\ hops = PathHops(net, path) /\ cuts = CutDrivers(net)

(* A round of replication leaves the network as it found it, down to the    *)
(* order of the fanins, or it ends within the cut cap, every output         *)
(* computes what it did and no vertex arrives later than before: a          *)
(* duplicate may read across the boundary what its node read within its     *)
(* part, and readers off the path get it too, and yet nobody waits longer.  *)
RoundsHelp ==
  [][step = "walk" /\ step' # "walk" =>
       \/ Circuit(net') = Circuit(before)
       \/ /\ CutNets(net') <= MaxCut /\ Outputs(net') = Outputs(before)
          /\ \A v \in Vertices(before) : Timing(net')[v] <= Timing(before)[v]]_vars
=============================================================================
