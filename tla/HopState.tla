------------------------------- MODULE HopState -------------------------------
(****************************************************************************)
(* csr2::detail::HopState (csr2/csr2_hop.cpp): the hop arrival of every     *)
(* vertex of a partitioned network, kept up to date after a fanin is        *)
(* replaced by propagating from the changed node in topological order, and  *)
(* rolled back from a log when a node exceeds the hop limit.                *)
(*                                                                          *)
(* The caller's part is as in the tests of HopState: it patches fanins,     *)
(* calls PropagateFrom on the nodes patched, and then either keeps the      *)
(* result or calls Rollback and takes its patches back.  The topological    *)
(* ranks are those of Initialize: a patch may make them stale.              *)
(****************************************************************************)
EXTENDS PartIds, Integers, Sequences, FiniteSets, FiniteSetsExt

CONSTANTS
  Node, Pi,       (* logic nodes and primary inputs *)
  Networks,       (* initial networks: fanins and part of each vertex *)
  MaxTxn,         (* bound on the transactions *)
  MaxPatch        (* bound on the patches of a transaction *)

Vertex == Node \cup Pi

NetworkType == [ fanin : [Vertex -> SUBSET Vertex], part : [Vertex -> Int \cup {NoPart}] ]

ASSUME VertexAssumption == IsFiniteSet(Node) /\ IsFiniteSet(Pi) /\ Node \cap Pi = {}
ASSUME BoundAssumption == MaxTxn \in Nat /\ MaxPatch \in Nat
ASSUME NetworksAssumption ==
  /\ Networks \subseteq NetworkType
  /\ \A g \in Networks, v \in Vertex : v \notin g.fanin[v]

VARIABLES
  net,      (* the network *)
  arrival,  (* arrival_ *)
  rank,     (* topo_rank_ *)
  dirty,    (* nodes patched and not yet propagated: the caller's start_ids *)
  queue,    (* the priority queue of PropagateFrom: the nodes queued *)
  log,      (* Transaction::changes *)
  logged,   (* the nodes whose Transaction::logged is set *)
  limit,    (* hop_limit *)
  patches,  (* the caller's patches since BeginTransaction *)
  pc,       (* where the caller, or the running call, is *)
  txns,     (* transactions begun *)
  past      (* history: the network before each patch, arrival before the first, *)
            (* the number of nodes the last call started from                    *)

vars == <<net, arrival, rank, dirty, queue, log, logged, limit, patches, pc, txns, past>>

txnVars  == <<log, logged, limit, patches, txns, past>>
callVars == <<dirty, queue>>

----------------------------------------------------------------------------
Counted(v)  == net.part[v] # NoPart
Cross(u, v) == IF net.part[u] # net.part[v] THEN 1 ELSE 0
FaninsOf(v) == {u \in net.fanin[v] : Counted(u)}

RecomputeArrival(v, a) ==
  IF Counted(v) THEN Max({0} \cup {a[u] + Cross(u, v) : u \in FaninsOf(v)}) ELSE 0

FanoutsOf(v) == {w \in Node : v \in net.fanin[w]}

Fresh(a) == [nets |-> <<net>>, arrival |-> a, starts |-> 0]

Init ==
  /\ net \in Networks
  /\ arrival = [v \in Vertex |-> 0]
  /\ rank = [v \in Vertex |-> -1]
  /\ dirty = {} /\ queue = {} /\ log = <<>> /\ logged = {} /\ limit = 0
  /\ patches = <<>>
  /\ pc = "dfs"
  /\ txns = 0
  /\ past = Fresh(arrival)

(* Initialize: the nodes in the order of a depth-first search, each after   *)
(* its fanins; the rank is the index in that order.                         *)
Visited == {v \in Node : rank[v] >= 0}

DfsIndex == Cardinality(Visited)

Visit(v) ==
  /\ pc = "dfs"
  /\ v \in Node \ Visited
  /\ net.fanin[v] \subseteq Visited \cup Pi
  /\ rank' = [rank EXCEPT ![v] = DfsIndex]
  /\ arrival' = [arrival EXCEPT ![v] = RecomputeArrival(v, arrival)]
  /\ UNCHANGED <<net, pc, callVars, txnVars>>

Initialized ==
  /\ pc = "dfs" /\ Visited = Node
  /\ pc' = "idle"
  /\ past' = Fresh(arrival)
  /\ UNCHANGED <<net, arrival, rank, callVars, log, logged, limit, patches, txns>>

(* BeginTransaction; the limit is the hop count of the network, or above.   *)
EntryHop == Max({0} \cup {arrival[v] : v \in Vertex})

Begin ==
  /\ pc = "idle" /\ txns < MaxTxn
  /\ txns' = txns + 1
  /\ log' = <<>> /\ logged' = {}
  /\ limit' \in {EntryHop, EntryHop + 1}
  /\ patches' = <<>>
  /\ past' = Fresh(arrival)
  /\ pc' = "open"
  /\ UNCHANGED <<net, arrival, rank, callVars>>

(* u is v or feeds it, directly or not. *)
Upstream(u, v) ==
  \A S \in SUBSET Vertex :
    v \in S /\ (\A x \in S : net.fanin[x] \subseteq S) => u \in S

(* Abc_ObjPatchFanin: the caller replaces fanin u of v by w, without making *)
(* a cycle.                                                                 *)
Swap(g, v, u, w) ==
  [fanin |-> [g.fanin EXCEPT ![v] = (@ \ {u}) \cup {w}], part |-> g.part]

Patch(v, u, w) ==
  /\ pc = "open" /\ Len(patches) < MaxPatch
  /\ u \in net.fanin[v]
  /\ w \notin net.fanin[v]
  /\ ~Upstream(v, w)
  /\ net' = Swap(net, v, u, w)
  /\ patches' = Append(patches, [v |-> v, u |-> u, w |-> w])
  /\ past' = [past EXCEPT !.nets = Append(@, net')]
  /\ dirty' = dirty \cup {v}
  /\ UNCHANGED <<arrival, rank, queue, log, logged, limit, pc, txns>>

----------------------------------------------------------------------------
(* PropagateFrom.  Every node has a rank after Initialize, so the early     *)
(* return for a start without one is never taken.                           *)
Call ==
  /\ pc = "open" /\ dirty # {}
  /\ queue' = dirty
  /\ dirty' = {}
  /\ past' = [past EXCEPT !.starts = Cardinality(dirty)]
  /\ pc' = "propagate"
  /\ UNCHANGED <<net, arrival, rank, log, logged, limit, patches, txns>>

(* v is on top of the queue. *)
Top(v) == v \in queue /\ \A u \in queue : rank[v] <= rank[u]

Settled(v) == RecomputeArrival(v, arrival) = arrival[v]

Keep(v)   == queue   \* slip: it stays in the queue
Popped(v) == queue \ {v}

Unchanged(v) ==
  /\ pc = "propagate"
  /\ Top(v)
  /\ Settled(v)
  /\ queue' = Popped(v)
  /\ UNCHANGED <<net, arrival, rank, dirty, pc, txnVars>>

(* slip: the log keeps the last old arrival *)
RecordLatest(v) ==
  /\ log' = Append(SelectSeq(log, LAMBDA c : c.v # v), [v |-> v, old |-> arrival[v]])
  /\ logged' = logged \cup {v}

Record(v) ==     \* the old arrival, the first time only
  IF v \in logged THEN UNCHANGED <<log, logged>>
  ELSE /\ log' = Append(log, [v |-> v, old |-> arrival[v]])
       /\ logged' = logged \cup {v}

(* slip: the nodes behind one that got smaller are not visited *)
RaisedOnly(v, a) == IF a > arrival[v] THEN FanoutsOf(v) ELSE {}
NextNodes(v, a)  == {w \in FanoutsOf(v) : rank[w] >= 0}

(* slip: the limit itself is refused *)
Reaches(a) == a >= limit
Exceeds(a) == a > limit

Update(v) ==
  /\ pc = "propagate"
  /\ Top(v)
  /\ LET a == RecomputeArrival(v, arrival) IN
     /\ ~Settled(v) /\ ~Exceeds(a)
     /\ Record(v)
     /\ arrival' = [arrival EXCEPT ![v] = a]
     /\ queue' = Popped(v) \cup NextNodes(v, a)
  /\ UNCHANGED <<net, rank, dirty, limit, patches, pc, txns, past>>

OverLimit(v) ==  \* PropagateFrom returns false
  /\ pc = "propagate"
  /\ Top(v)
  /\ LET a == RecomputeArrival(v, arrival) IN
     /\ ~Settled(v) /\ Exceeds(a)
     /\ Record(v)
     /\ arrival' = [arrival EXCEPT ![v] = a]
  /\ queue' = {}
  /\ pc' = "over"
  /\ UNCHANGED <<net, rank, dirty, limit, patches, txns, past>>

Propagated ==    \* ... or true
  /\ pc = "propagate" /\ queue = {}
  /\ pc' = "open"
  /\ UNCHANGED <<net, arrival, rank, callVars, txnVars>>

----------------------------------------------------------------------------
(* The transaction goes with the caller's scope. *)
Forget ==
  /\ log' = <<>> /\ logged' = {} /\ limit' = 0 /\ patches' = <<>> /\ dirty' = {}
  /\ past' = Fresh(arrival)

Commit ==
  /\ pc = "open" /\ dirty = {}
  /\ Forget
  /\ pc' = "idle"
  /\ UNCHANGED <<net, arrival, rank, queue, txns>>

Abort ==
  /\ pc \in {"open", "over"}
  /\ pc' = "rollback"
  /\ UNCHANGED <<net, arrival, rank, callVars, txnVars>>

(* Rollback takes the log from its end; then the caller takes its patches   *)
(* back, the last one first.                                                *)
UndoArrival ==
  /\ pc = "rollback" /\ log # <<>>
  /\ LET c == log[Len(log)] IN arrival' = [arrival EXCEPT ![c.v] = c.old]
  /\ log' = SubSeq(log, 1, Len(log) - 1)
  /\ UNCHANGED <<net, rank, callVars, logged, limit, patches, pc, txns, past>>

UndoPatch ==
  /\ pc = "rollback" /\ log = <<>> /\ patches # <<>>
  /\ LET p == patches[Len(patches)] IN net' = Swap(net, p.v, p.w, p.u)
  /\ patches' = SubSeq(patches, 1, Len(patches) - 1)
  /\ UNCHANGED <<arrival, rank, callVars, log, logged, limit, pc, txns, past>>

RolledBack ==
  /\ pc = "rollback" /\ log = <<>> /\ patches = <<>>
  /\ Forget
  /\ pc' = "idle"
  /\ UNCHANGED <<net, arrival, rank, queue, txns>>

(* The caller makes no more than MaxTxn transactions. *)
Closed == pc = "idle" /\ txns = MaxTxn /\ UNCHANGED vars

Propagate ==
  \/ \E v \in Node : Unchanged(v) \/ Update(v) \/ OverLimit(v)
  \/ Propagated

Next ==
  \/ \E v \in Node : Visit(v)
  \/ Initialized
  \/ Begin
  \/ \E v \in Node, u, w \in Vertex : Patch(v, u, w)
  \/ Call
  \/ Propagate
  \/ Commit
  \/ Abort
  \/ UndoArrival \/ UndoPatch \/ RolledBack
  \/ Closed

Spec == Init /\ [][Next]_vars

(* PropagateFrom is a loop on the caller's thread. *)
FairSpec == Spec /\ WF_vars(Propagate)

----------------------------------------------------------------------------
(* The arrivals from scratch, along the fanins (ComputeFullArrival). *)
FullArrival ==
  LET full[v \in Vertex] ==
        IF v \in Pi THEN 0
        ELSE RecomputeArrival(v, [u \in net.fanin[v] |-> full[u]])
  IN full

FullHop == Max({0} \cup {FullArrival[v] : v \in Vertex})

ChangeType == [v : Node, old : Int]
PatchType  == [v : Node, u : Vertex, w : Vertex]

TypeOK ==
  /\ net \in NetworkType /\ \A v \in Vertex : v \notin net.fanin[v]
  /\ arrival \in [Vertex -> Int]
  /\ rank \in [Vertex -> -1 .. Cardinality(Node) - 1]
  /\ dirty \subseteq Node /\ queue \subseteq Node /\ logged \subseteq Node
  /\ log \in Seq(ChangeType)
  /\ limit \in Int
  /\ patches \in Seq(PatchType)
  /\ pc \in {"dfs", "idle", "open", "propagate", "over", "rollback"}
  /\ txns \in 0 .. MaxTxn
  /\ \A v, w \in Node : rank[v] = rank[w] => rank[v] = -1 \/ v = w

(* Between calls every arrival is the one its fanins give it, except at the *)
(* nodes patched since the last call, however often and in whatever order   *)
(* the network was patched (csr2_hop.cpp:86-148).                           *)
ArrivalsAgree ==
  pc \in {"idle", "open"} =>
    \A v \in Node \ dirty : arrival[v] = RecomputeArrival(v, arrival)

(* With the types: incremental arrivals are those of a recomputation of the *)
(* whole network, at rest, after every propagation and after every rollback *)
(* (VerifyAgainstFull, csr2_hop.cpp:158-162); and PropagateFrom's answer is *)
(* right although it is given before the whole network is settled: true     *)
(* only if the patched network keeps the limit, and, started from one node, *)
(* false only if it does not (csr2_hop.cpp:130-131, 147).                   *)
VerdictRight ==
  /\ TypeOK
  /\ pc = "idle" \/ (pc = "open" /\ dirty = {}) => arrival = FullArrival
  /\ pc = "open" /\ dirty = {} => FullHop <= limit
  /\ pc = "over" /\ past.starts = 1 => FullHop > limit

(* A rollback restores the arrivals that BeginTransaction saw, although the *)
(* propagation stopped half-way and changed some nodes more than once       *)
(* (csr2_hop.cpp:118-124, 150-156).                                         *)
RollbackExact ==
  pc = "rollback" /\ log = <<>> =>
    /\ arrival = past.arrival
    /\ patches = <<>> => net = past.nets[1]

(* A propagation ends, although a stale rank may have it visit a node more  *)
(* than once.                                                               *)
PropagationEnds == pc = "propagate" ~> pc # "propagate"
=============================================================================
