---------------------------- MODULE HopState_proofs ----------------------------
(****************************************************************************)
(* The incremental arrivals of HopState agree with the network between      *)
(* calls, a rollback restores arrivals and network exactly, and a           *)
(* propagation's answer is right, for every finite set of vertices, every   *)
(* initial network and every bound.                                         *)
(****************************************************************************)
EXTENDS HopState, NetTheorems

(* The networks the transactions go through: no node feeds itself. *)
GoodNetwork == {g \in NetworkType : \A v \in Vertex : v \notin g.fanin[v]}

(* The arrival that network g gives v. *)
RecomputeIn(g, v, a) ==
  IF g.part[v] # NoPart
  THEN Max({0} \cup {a[u] + (IF g.part[u] # g.part[v] THEN 1 ELSE 0) :
                       u \in {x \in g.fanin[v] : g.part[x] # NoPart}})
  ELSE 0

LogType  == [v : Node, old : {past.arrival[x] : x \in Vertex}]
LogNodes == {log[i].v : i \in 1 .. Len(log)}

NetInv ==
  /\ net \in GoodNetwork
  /\ arrival = [v \in Vertex |-> arrival[v]]
  /\ rank \in [Vertex -> Int]
  /\ queue \subseteq Node /\ dirty \subseteq Node
  /\ pc \in {"dfs", "idle", "open", "propagate", "over", "rollback"}

(* Every node that is neither queued nor patched agrees with its fanins. *)
LocalInv ==
  /\ pc = "dfs" =>
       /\ dirty = {}
       /\ \A v \in Visited : /\ net.fanin[v] \subseteq Visited \cup Pi
                             /\ arrival[v] = RecomputeIn(net, v, arrival)
  /\ pc # "dfs" => Visited = Node
  /\ pc # "propagate" => queue = {}
  /\ pc = "idle" => dirty = {}
  /\ pc \in {"idle", "open", "propagate"} =>
       \A v \in Node \ (queue \cup dirty) : arrival[v] = RecomputeIn(net, v, arrival)

(* The log holds, for each node changed, its arrival at BeginTransaction. *)
LogInv ==
  /\ past = [nets |-> past.nets, arrival |-> past.arrival, starts |-> past.starts]
  /\ past.arrival = [v \in Vertex |-> past.arrival[v]]
  /\ log \in Seq(LogType)
  /\ \A i \in 1 .. Len(log) : log[i].old = past.arrival[log[i].v]
  /\ pc \in {"dfs", "idle"} => log = <<>>
  /\ pc \in {"dfs", "idle"} => logged = {}
  /\ pc # "rollback" => logged = LogNodes
  /\ pc # "dfs" => \A v \in Vertex \ LogNodes : arrival[v] = past.arrival[v]
  /\ pc # "dfs" => \A v \in Node : past.arrival[v] = RecomputeIn(past.nets[1], v, past.arrival)

(* The patches lead from the network of BeginTransaction to this one. *)
PatchInv ==
  /\ patches \in Seq(PatchType)
  /\ past.nets \in Seq(GoodNetwork)
  /\ Len(past.nets) >= Len(patches) + 1
  /\ pc # "rollback" => Len(past.nets) = Len(patches) + 1
  /\ pc \in {"dfs", "idle"} => patches = <<>>
  /\ net = past.nets[Len(patches) + 1]
  /\ \A i \in 1 .. Len(patches) :
       past.nets[i] = Swap(past.nets[i + 1], patches[i].v, patches[i].w, patches[i].u)

IInv == NetInv /\ LocalInv /\ LogInv /\ PatchInv

----------------------------------------------------------------------------
(* RecomputeArrival reads the network and the arrivals of the fanins only. *)
LEMMA RecomputeReadsNet ==
  ASSUME NEW v, NEW a
  PROVE  RecomputeArrival(v, a) = RecomputeIn(net, v, a)
BY DEF RecomputeArrival, RecomputeIn, Counted, Cross, FaninsOf

LEMMA RecomputeLocal ==
  ASSUME NEW g, NEW h, NEW v, NEW a, NEW b,
         g.part = h.part, g.fanin[v] = h.fanin[v],
         \A u \in g.fanin[v] : a[u] = b[u]
  PROVE  RecomputeIn(g, v, a) = RecomputeIn(h, v, b)
<1> DEFINE Counting == {x \in g.fanin[v] : g.part[x] # NoPart}
           A == {a[u] + (IF g.part[u] # g.part[v] THEN 1 ELSE 0) : u \in Counting}
           B == {b[u] + (IF g.part[u] # g.part[v] THEN 1 ELSE 0) : u \in Counting}
<1>1. A = B
  OBVIOUS
<1>2. {0} \cup A = {0} \cup B
  BY <1>1
<1>3. Max({0} \cup A) = Max({0} \cup B)
  BY <1>2
<1>4. QED
  BY <1>3 DEF RecomputeIn

(* Taking a patch back gives the network before it. *)
LEMMA SwapBack ==
  ASSUME NEW g \in GoodNetwork, NEW v \in Node, NEW u \in Vertex, NEW w \in Vertex,
         u \in g.fanin[v], w \notin g.fanin[v], w # v
  PROVE  /\ Swap(g, v, u, w) \in GoodNetwork
         /\ Swap(g, v, u, w).part = g.part
         /\ \A x \in Vertex : x # v => Swap(g, v, u, w).fanin[x] = g.fanin[x]
         /\ g = Swap(Swap(g, v, u, w), v, w, u)
<1> DEFINE h == Swap(g, v, u, w)
<1>0. v \in Vertex
  BY DEF Vertex
<1>1. g = [fanin |-> g.fanin, part |-> g.part] /\ g.fanin \in [Vertex -> SUBSET Vertex]
      /\ g.part \in [Vertex -> Int \cup {NoPart}]
  BY DEF GoodNetwork, NetworkType
<1>2. h.fanin = [g.fanin EXCEPT ![v] = (@ \ {u}) \cup {w}] /\ h.part = g.part
  BY DEF Swap
<1>3. h = [fanin |-> h.fanin, part |-> h.part]
  BY DEF Swap
<1>4. h.fanin \in [Vertex -> SUBSET Vertex]
  BY <1>0, <1>1, <1>2
<1>5. \A x \in Vertex : x \notin h.fanin[x]
  BY <1>0, <1>1, <1>2 DEF GoodNetwork
<1>6. h \in GoodNetwork
  BY <1>1, <1>2, <1>3, <1>4, <1>5 DEF GoodNetwork, NetworkType
<1>7. [h.fanin EXCEPT ![v] = (@ \ {w}) \cup {u}] = g.fanin
  <2>1. (h.fanin[v] \ {w}) \cup {u} = g.fanin[v]
    BY <1>0, <1>1, <1>2
  <2>2. QED
    BY <1>0, <1>1, <1>2, <2>1
<1>8. Swap(h, v, w, u) = g
  BY <1>1, <1>2, <1>7 DEF Swap
<1>9. QED
  BY <1>0, <1>1, <1>2, <1>6, <1>8

----------------------------------------------------------------------------
LEMMA InitIInv == Init => IInv
<1> SUFFICES ASSUME Init PROVE IInv
  OBVIOUS
<1> USE DEF Init, Fresh
<1>1. net \in GoodNetwork
  BY NetworksAssumption DEF GoodNetwork
<1>2. NetInv
  BY <1>1 DEF NetInv
<1>3. LocalInv
  BY DEF LocalInv, Visited, Vertex
<1>4. LogInv
  BY DEF LogInv, LogNodes
<1>5. PatchInv
  BY <1>1 DEF PatchInv
<1>6. QED
  BY <1>2, <1>3, <1>4, <1>5 DEF IInv

LEMMA VisitStep == ASSUME IInv, NEW v \in Node, Visit(v) PROVE IInv'
<1> DEFINE a == RecomputeArrival(v, arrival)
<1>1. /\ v \in Vertex /\ v \notin Visited /\ net \in GoodNetwork
      /\ arrival = [x \in Vertex |-> arrival[x]] /\ rank \in [Vertex -> Int]
  BY DEF IInv, Visit, Vertex, NetInv
<1>2. DfsIndex \in Nat
  BY VertexAssumption, FS_Subset, FS_CardinalityType DEF DfsIndex, Visited
<1>3. Visited' = Visited \cup {v}
  BY <1>1, <1>2 DEF Visit, Visited
<1>4. NetInv'
  BY <1>1, <1>2 DEF IInv, NetInv, Visit, callVars
<1>5. \A x \in Visited' : /\ net.fanin[x] \subseteq Visited' \cup Pi
                          /\ arrival'[x] = RecomputeIn(net, x, arrival')
  <2> TAKE x \in Visited'
  <2>1. net.fanin[x] \subseteq Visited \cup Pi
    BY <1>3 DEF IInv, LocalInv, Visit
  <2>2. v \notin net.fanin[x]
    BY <1>1, <2>1, VertexAssumption
  <2>3. \A u \in net.fanin[x] : arrival[u] = arrival'[u]
    BY <1>1, <2>2 DEF Visit
  <2>4. RecomputeIn(net, x, arrival) = RecomputeIn(net, x, arrival')
    BY <2>3, RecomputeLocal
  <2>5. arrival'[x] = RecomputeIn(net, x, arrival)
    <3>1. CASE x = v
      BY <1>1, <3>1, RecomputeReadsNet DEF Visit
    <3>2. CASE x # v
      BY <1>1, <1>3, <3>2 DEF Visit, IInv, LocalInv, Visited
    <3>3. QED
      BY <3>1, <3>2
  <2>6. QED
    BY <1>3, <2>1, <2>4, <2>5
<1>6. LocalInv'
  BY <1>5 DEF IInv, LocalInv, Visit, callVars
<1>7. LogInv' /\ PatchInv'
  BY DEF IInv, LogInv, PatchInv, Visit, LogType, LogNodes, txnVars
<1>8. QED
  BY <1>4, <1>6, <1>7 DEF IInv

LEMMA InitializedStep == ASSUME IInv, Initialized PROVE IInv'
<1> USE DEF IInv, Initialized, callVars
<1>1. NetInv'
  BY DEF NetInv
<1>2. LocalInv'
  BY DEF NetInv, LocalInv, Visited
<1>3. LogInv'
  <2>1. past'.nets = <<net>> /\ past'.arrival = arrival
    BY DEF Fresh
  <2>2. \A v \in Node : arrival[v] = RecomputeIn(net, v, arrival)
    BY DEF LocalInv
  <2>3. QED
    BY <2>1, <2>2 DEF LogInv, LogNodes, Fresh, NetInv
<1>4. PatchInv'
  BY DEF PatchInv, Fresh, NetInv
<1>5. QED
  BY <1>1, <1>2, <1>3, <1>4

LEMMA BeginStep == ASSUME IInv, Begin PROVE IInv'
<1> USE DEF IInv, Begin, callVars
<1>1. NetInv'
  BY DEF NetInv
<1>2. LocalInv'
  BY DEF NetInv, LocalInv, Visited
<1>3. LogInv'
  <2>1. past'.nets = <<net>> /\ past'.arrival = arrival
    BY DEF Fresh
  <2>2. \A v \in Node : arrival[v] = RecomputeIn(net, v, arrival)
    BY DEF LocalInv
  <2>3. QED
    BY <2>1, <2>2 DEF LogInv, LogNodes, Fresh, NetInv
<1>4. PatchInv'
  BY DEF PatchInv, Fresh, NetInv
<1>5. QED
  BY <1>1, <1>2, <1>3, <1>4

LEMMA PatchStep ==
  ASSUME IInv, NEW v \in Node, NEW u \in Vertex, NEW w \in Vertex, Patch(v, u, w)
  PROVE  IInv'
<1> DEFINE g == Swap(net, v, u, w)
           c == [v |-> v, u |-> u, w |-> w]
<1>1. w # v
  BY DEF Patch, Upstream
<1>2. /\ g \in GoodNetwork
      /\ g.part = net.part
      /\ \A x \in Vertex : x # v => g.fanin[x] = net.fanin[x]
      /\ net = Swap(g, v, w, u)
  BY <1>1, SwapBack DEF IInv, NetInv, Patch
<1>3. /\ net' = g /\ patches' = Append(patches, c) /\ dirty' = dirty \cup {v}
      /\ pc = "open" /\ UNCHANGED <<arrival, rank, queue, log, logged, pc>>
  BY DEF Patch
<1>4. past' = [nets |-> Append(past.nets, g), arrival |-> past.arrival, starts |-> past.starts]
  BY DEF IInv, LogInv, Patch
<1> HIDE DEF g, c
<1>5. NetInv'
  BY <1>2, <1>3 DEF IInv, NetInv
<1>6. LocalInv'
  <2>1. \A x \in Node \ (queue' \cup dirty') : arrival'[x] = RecomputeIn(net', x, arrival')
    <3> TAKE x \in Node \ (queue' \cup dirty')
    <3>1. x # v /\ x \in Vertex /\ arrival[x] = RecomputeIn(net, x, arrival)
      BY <1>3 DEF IInv, LocalInv, Vertex
    <3>2. net'.fanin[x] = net.fanin[x] /\ net'.part = net.part
      BY <1>2, <1>3, <3>1
    <3>3. RecomputeIn(net, x, arrival) = RecomputeIn(net', x, arrival)
      BY <3>2, RecomputeLocal
    <3>4. QED
      BY <1>3, <3>1, <3>3
  <2>2. Visited' = Visited
    BY <1>3 DEF Visited
  <2>3. QED
    BY <1>3, <2>1, <2>2 DEF IInv, LocalInv
<1>7. past.nets \in Seq(GoodNetwork) /\ Len(past.nets) = Len(patches) + 1
      /\ patches \in Seq(PatchType) /\ net = past.nets[Len(patches) + 1]
  BY <1>3 DEF IInv, PatchInv
<1>8. past'.nets = Append(past.nets, g) /\ past'.arrival = past.arrival
      /\ past'.starts = past.starts
  BY <1>4
<1>9. c \in PatchType /\ c.v = v /\ c.u = u /\ c.w = w
  BY DEF PatchType, c
<1>10. LogInv'
  <2>1. past'.nets[1] = past.nets[1]
    BY <1>2, <1>7, <1>8
  <2>2. QED
    BY <1>3, <1>4, <1>8, <2>1 DEF IInv, LogInv, LogType, LogNodes
<1>11. PatchInv'
  <2>1. /\ past'.nets \in Seq(GoodNetwork) /\ Len(past'.nets) = Len(past.nets) + 1
        /\ \A i \in 1 .. Len(past.nets) : past'.nets[i] = past.nets[i]
        /\ past'.nets[Len(past.nets) + 1] = g
    BY <1>2, <1>7, <1>8
  <2>2. /\ patches' \in Seq(PatchType) /\ Len(patches') = Len(patches) + 1
        /\ \A i \in 1 .. Len(patches) : patches'[i] = patches[i]
        /\ patches'[Len(patches) + 1] = c
    BY <1>3, <1>7, <1>9
  <2>3. ASSUME NEW i \in 1 .. Len(patches')
        PROVE  past'.nets[i] =
                 Swap(past'.nets[i + 1], patches'[i].v, patches'[i].w, patches'[i].u)
    <3>1. CASE i = Len(patches) + 1
      <4>1. i = Len(past.nets) /\ i \in 1 .. Len(past.nets)
        BY <1>7, <3>1
      <4>2. past'.nets[i] = net
        BY <1>7, <2>1, <4>1
      <4>3. past'.nets[i + 1] = g
        BY <2>1, <4>1
      <4>4. patches'[i] = c
        BY <2>2, <3>1
      <4>5. QED
        BY <1>2, <1>9, <4>2, <4>3, <4>4
    <3>2. CASE i # Len(patches) + 1
      <4>1. i \in 1 .. Len(patches) /\ i + 1 \in 1 .. Len(past.nets)
        BY <1>7, <2>2, <3>2
      <4>2. QED
        BY <1>7, <2>1, <2>2, <4>1 DEF IInv, PatchInv
    <3>3. QED
      BY <3>1, <3>2
  <2>4. QED
    BY <1>3, <1>7, <2>1, <2>2, <2>3 DEF PatchInv
<1>12. QED
  BY <1>5, <1>6, <1>10, <1>11 DEF IInv

LEMMA CallStep == ASSUME IInv, Call PROVE IInv'
<1> USE DEF IInv, Call
<1>1. past' = [nets |-> past.nets, arrival |-> past.arrival, starts |-> Cardinality(dirty)]
  BY DEF LogInv
<1>2. past'.nets = past.nets /\ past'.arrival = past.arrival
  BY <1>1
<1>3. NetInv' /\ LocalInv'
  BY DEF NetInv, LocalInv, Visited
<1>4. LogInv'
  <2>1. LogType' = LogType /\ LogNodes' = LogNodes
    BY <1>2 DEF LogType, LogNodes
  <2>2. past'.starts = Cardinality(dirty)
    BY <1>1
  <2>3. QED
    BY <1>1, <1>2, <2>1, <2>2 DEF LogInv
<1>5. PatchInv'
  BY <1>2 DEF PatchInv
<1>6. QED
  BY <1>3, <1>4, <1>5

LEMMA UnchangedStep == ASSUME IInv, NEW v \in Node, Unchanged(v) PROVE IInv'
<1> USE DEF IInv, Unchanged, txnVars
<1>1. NetInv'
  BY DEF NetInv, Popped
<1>2. arrival[v] = RecomputeIn(net, v, arrival)
  BY RecomputeReadsNet DEF Settled
<1>3. LocalInv'
  BY <1>2 DEF LocalInv, Visited, Popped
<1>4. LogInv' /\ PatchInv'
  <2>1. LogType' = LogType /\ LogNodes' = LogNodes
    BY DEF LogType, LogNodes
  <2>2. QED
    BY <2>1 DEF LogInv, PatchInv
<1>5. QED
  BY <1>1, <1>3, <1>4

(* Writing an arrival, logged, keeps the log's account of the old ones. *)
LEMMA LoggedWrite ==
  ASSUME IInv, NEW v \in Node, NEW a, pc = "propagate", Record(v),
         arrival' = [arrival EXCEPT ![v] = a],
         pc' \in {"propagate", "over"}, UNCHANGED past
  PROVE  LogInv'
<1> USE DEF IInv
<1>1. v \in Vertex /\ arrival = [x \in Vertex |-> arrival[x]] /\ logged = LogNodes
  BY DEF Vertex, NetInv, LogInv
<1>2. \A x \in Vertex : x # v => arrival'[x] = arrival[x]
  BY <1>1
<1>3. LogType' = LogType
  BY DEF LogType
<1>4. CASE v \in logged
  <2>1. UNCHANGED <<log, logged>>
    BY <1>4 DEF Record
  <2>2. LogNodes' = LogNodes
    BY <2>1 DEF LogNodes
  <2>3. QED
    BY <1>1, <1>2, <1>3, <1>4, <2>1, <2>2 DEF LogInv
<1>5. CASE v \notin logged
  <2> DEFINE e == [v |-> v, old |-> arrival[v]]
  <2>1. log' = Append(log, e) /\ logged' = logged \cup {v}
    BY <1>5 DEF Record
  <2>2. arrival[v] = past.arrival[v]
    BY <1>1, <1>5 DEF LogInv
  <2>3. e \in LogType /\ e.v = v /\ e.old = past.arrival[v]
    BY <1>1, <2>2 DEF LogType
  <2> HIDE DEF e
  <2>4. log \in Seq(LogType)
    BY DEF LogInv
  <2>5. /\ log' \in Seq(LogType) /\ Len(log') = Len(log) + 1 /\ Len(log) \in Nat
        /\ \A i \in 1 .. Len(log) : log'[i] = log[i]
        /\ log'[Len(log) + 1] = e
    BY <2>1, <2>3, <2>4
  <2>6. LogNodes' = LogNodes \cup {v}
    BY <2>3, <2>5 DEF LogNodes
  <2>7. \A i \in 1 .. Len(log') : log'[i].old = past.arrival[log'[i].v]
    BY <2>3, <2>5 DEF LogInv
  <2>8. QED
    BY <1>1, <1>2, <1>3, <2>1, <2>5, <2>6, <2>7 DEF LogInv
<1>6. QED
  BY <1>4, <1>5

LEMMA UpdateStep == ASSUME IInv, NEW v \in Node, Update(v) PROVE IInv'
<1> USE DEF IInv
<1> DEFINE a == RecomputeArrival(v, arrival)
<1>1. /\ Record(v) /\ arrival' = [arrival EXCEPT ![v] = a]
      /\ queue' = (queue \ {v}) \cup NextNodes(v, a)
      /\ pc = "propagate"
      /\ UNCHANGED <<net, rank, dirty, limit, patches, pc, txns, past>>
  BY DEF Update, Popped
<1>2. /\ v \in Vertex /\ net \in GoodNetwork
      /\ arrival = [x \in Vertex |-> arrival[x]] /\ a = RecomputeIn(net, v, arrival)
  BY RecomputeReadsNet DEF Vertex, NetInv
<1> HIDE DEF a
<1>3. NextNodes(v, a) = FanoutsOf(v)
  BY <1>1 DEF LocalInv, NextNodes, FanoutsOf, Visited
<1>4. NetInv'
  BY <1>1, <1>2, <1>3 DEF NetInv, FanoutsOf
<1>5. \A x \in Node \ (queue' \cup dirty') : arrival'[x] = RecomputeIn(net', x, arrival')
  <2> TAKE x \in Node \ (queue' \cup dirty')
  <2>1. v \notin net.fanin[x]
    BY <1>1, <1>3 DEF FanoutsOf
  <2>2. net \in NetworkType /\ x \in Vertex
    BY <1>2 DEF GoodNetwork, Vertex
  <2>3. \A u \in net.fanin[x] : arrival[u] = arrival'[u]
    BY <1>1, <1>2, <2>1, <2>2 DEF NetworkType
  <2>4. RecomputeIn(net, x, arrival) = RecomputeIn(net, x, arrival')
    BY <2>3, RecomputeLocal
  <2>5. arrival'[x] = RecomputeIn(net, x, arrival)
    <3>1. CASE x = v
      BY <1>1, <1>2, <3>1
    <3>2. CASE x # v
      BY <1>1, <1>2, <2>2, <3>2 DEF LocalInv
    <3>3. QED
      BY <3>1, <3>2
  <2>6. QED
    BY <1>1, <2>4, <2>5
<1>6. LocalInv'
  BY <1>1, <1>5 DEF LocalInv, Visited
<1>7. LogInv'
  BY <1>1, LoggedWrite
<1>8. PatchInv'
  BY <1>1 DEF PatchInv
<1>9. QED
  BY <1>4, <1>6, <1>7, <1>8

LEMMA OverLimitStep == ASSUME IInv, NEW v \in Node, OverLimit(v) PROVE IInv'
<1> USE DEF IInv
<1> DEFINE a == RecomputeArrival(v, arrival)
<1>1. /\ Record(v) /\ arrival' = [arrival EXCEPT ![v] = a] /\ queue' = {}
      /\ pc = "propagate" /\ pc' = "over"
      /\ UNCHANGED <<net, rank, dirty, limit, patches, txns, past>>
  BY DEF OverLimit
<1> HIDE DEF a
<1>2. NetInv'
  BY <1>1 DEF NetInv
<1>3. LocalInv'
  BY <1>1 DEF LocalInv, Visited
<1>4. LogInv'
  BY <1>1, LoggedWrite
<1>5. PatchInv'
  BY <1>1 DEF PatchInv
<1>6. QED
  BY <1>2, <1>3, <1>4, <1>5

LEMMA PropagatedStep == ASSUME IInv, Propagated PROVE IInv'
<1> USE DEF IInv, Propagated, callVars, txnVars
<1>1. NetInv' /\ LocalInv' /\ PatchInv'
  BY DEF NetInv, LocalInv, Visited, PatchInv
<1>2. LogType' = LogType /\ LogNodes' = LogNodes
  BY DEF LogType, LogNodes
<1>3. LogInv'
  BY <1>2 DEF LogInv
<1>4. QED
  BY <1>1, <1>3

LEMMA AbortStep == ASSUME IInv, Abort PROVE IInv'
<1> USE DEF IInv, Abort, callVars, txnVars
<1>1. NetInv' /\ LocalInv' /\ PatchInv'
  BY DEF NetInv, LocalInv, Visited, PatchInv
<1>2. LogType' = LogType /\ LogNodes' = LogNodes
  BY DEF LogType, LogNodes
<1>3. LogInv'
  BY <1>2 DEF LogInv
<1>4. QED
  BY <1>1, <1>3

(* Dropping the transaction is sound when the arrivals agree. *)
LEMMA ForgetStep ==
  ASSUME IInv, Forget, pc # "dfs", pc' = "idle",
         \A v \in Node : arrival[v] = RecomputeIn(net, v, arrival),
         queue = {}, UNCHANGED <<net, arrival, rank, queue>>
  PROVE  IInv'
<1> USE DEF IInv, Forget
<1>1. NetInv'
  BY DEF NetInv
<1>2. LocalInv'
  BY DEF NetInv, LocalInv, Visited
<1>3. LogInv'
  <2>1. past'.nets = <<net>> /\ past'.arrival = arrival
    BY DEF Fresh
  <2>2. QED
    BY <2>1 DEF LogInv, LogNodes, Fresh, NetInv
<1>4. PatchInv'
  BY DEF PatchInv, Fresh, NetInv
<1>5. QED
  BY <1>1, <1>2, <1>3, <1>4

LEMMA CommitStep == ASSUME IInv, Commit PROVE IInv'
<1>1. \A v \in Node : arrival[v] = RecomputeIn(net, v, arrival)
  BY DEF IInv, LocalInv, Commit
<1>2. QED
  BY <1>1, ForgetStep DEF Commit, IInv, LocalInv

(* With the log and the patches taken back, all is as at BeginTransaction.  *)
LEMMA TakenBack ==
  ASSUME IInv, pc # "dfs", log = <<>>
  PROVE  arrival = past.arrival /\ (patches = <<>> => net = past.nets[1])
<1>1. LogNodes = {}
  BY DEF LogNodes
<1>2. \A v \in Vertex : arrival[v] = past.arrival[v]
  BY <1>1 DEF IInv, LogInv
<1>3. arrival = [v \in Vertex |-> arrival[v]] /\ past.arrival = [v \in Vertex |-> past.arrival[v]]
  BY DEF IInv, NetInv, LogInv
<1>4. [v \in Vertex |-> arrival[v]] = [v \in Vertex |-> past.arrival[v]]
  BY <1>2
<1>5. QED
  BY <1>3, <1>4 DEF IInv, PatchInv

LEMMA RolledBackStep == ASSUME IInv, RolledBack PROVE IInv'
<1>1. arrival = past.arrival /\ net = past.nets[1]
  BY TakenBack DEF RolledBack
<1>2. \A v \in Node : arrival[v] = RecomputeIn(net, v, arrival)
  BY <1>1 DEF IInv, LogInv, RolledBack
<1>3. QED
  BY <1>2, ForgetStep DEF RolledBack, IInv, LocalInv

(* A sequence without its last element. *)
LEMMA DropLast ==
  ASSUME NEW S, NEW s \in Seq(S), s # <<>>
  PROVE  /\ Len(s) \in Nat \ {0} /\ Len(s) \in 1 .. Len(s)
         /\ s[Len(s)] \in S
         /\ SubSeq(s, 1, Len(s) - 1) \in Seq(S)
         /\ Len(SubSeq(s, 1, Len(s) - 1)) = Len(s) - 1
         /\ \A i \in 1 .. Len(s) - 1 : SubSeq(s, 1, Len(s) - 1)[i] = s[i]
<1>1. Len(s) \in Nat \ {0}
  OBVIOUS
<1>2. Len(s) \in 1 .. Len(s)
  BY <1>1
<1>3. s[Len(s)] \in S
  BY <1>2
<1>4. \A i \in 1 .. Len(s) - 1 : s[i] \in S
  BY <1>1
<1> DEFINE r == SubSeq(s, 1, Len(s) - 1)
<1>5. /\ r \in Seq(S)
      /\ Len(r) = IF 1 <= Len(s) - 1 THEN (Len(s) - 1) - 1 + 1 ELSE 0
      /\ \A i \in 1 .. (Len(s) - 1) - 1 + 1 : r[i] = s[1 + i - 1]
  BY <1>1, <1>4, SubSeqProperties
<1> HIDE DEF r
<1>6. Len(r) = Len(s) - 1
  <2>1. ASSUME NEW n \in Nat \ {0}
        PROVE  (IF 1 <= n - 1 THEN (n - 1) - 1 + 1 ELSE 0) = n - 1
    OBVIOUS
  <2>2. QED
    BY <1>1, <1>5, <2>1
<1>7. ASSUME NEW i \in 1 .. Len(s) - 1 PROVE r[i] = s[i]
  <2>1. i \in 1 .. (Len(s) - 1) - 1 + 1 /\ 1 + i - 1 = i
    BY <1>1
  <2>2. QED
    BY <1>5, <2>1
<1>8. QED
  BY <1>1, <1>2, <1>3, <1>5, <1>6, <1>7 DEF r

LEMMA UndoArrivalStep == ASSUME IInv, UndoArrival PROVE IInv'
<1> USE DEF IInv
<1> DEFINE n == Len(log)
           c == log[n]
           rest == SubSeq(log, 1, n - 1)
<1>1. /\ pc = "rollback" /\ log # <<>> /\ log' = rest
      /\ arrival' = [arrival EXCEPT ![c.v] = c.old]
      /\ UNCHANGED <<net, rank, dirty, queue, logged, limit, patches, pc, txns, past>>
  BY DEF UndoArrival, callVars
<1>2. log \in Seq(LogType)
  BY DEF LogInv
<1>3. /\ n \in Nat \ {0} /\ n \in 1 .. n /\ c \in LogType
      /\ rest \in Seq(LogType) /\ Len(rest) = n - 1
      /\ \A i \in 1 .. n - 1 : rest[i] = log[i]
  BY <1>1, <1>2, DropLast
<1>4. c.old = past.arrival[c.v]
  BY <1>3 DEF LogInv
<1>5. c.v \in Vertex
  BY <1>3 DEF LogType, Vertex
<1>6. arrival = [x \in Vertex |-> arrival[x]]
  BY DEF NetInv
<1>7. LogNodes \subseteq LogNodes' \cup {c.v}
  <2>1. LogNodes' = {rest[i].v : i \in 1 .. Len(rest)}
    BY <1>1 DEF LogNodes
  <2> HIDE DEF rest
  <2>2. ASSUME NEW i \in 1 .. n PROVE log[i].v \in LogNodes' \cup {c.v}
    <3>1. CASE i = n
      BY <3>1
    <3>2. CASE i # n
      <4>1. i \in 1 .. n - 1 /\ rest[i] = log[i] /\ i \in 1 .. Len(rest)
        BY <1>3, <3>2
      <4>2. QED
        BY <2>1, <4>1
    <3>3. QED
      BY <3>1, <3>2
  <2>3. QED
    BY <2>2 DEF LogNodes
<1> HIDE DEF c, rest, n
<1>8. NetInv'
  BY <1>1, <1>6 DEF NetInv
<1>9. LocalInv' /\ PatchInv'
  BY <1>1 DEF LocalInv, Visited, PatchInv
<1>10. LogInv'
  <2>1. LogType' = LogType
    BY <1>1 DEF LogType
  <2>2. \A x \in Vertex \ LogNodes' : arrival'[x] = past.arrival[x]
    <3> TAKE x \in Vertex \ LogNodes'
    <3>1. CASE x = c.v
      BY <1>1, <1>4, <1>6, <3>1
    <3>2. CASE x # c.v
      BY <1>1, <1>6, <1>7, <3>2 DEF LogInv
    <3>3. QED
      BY <3>1, <3>2
  <2>3. \A i \in 1 .. Len(rest) : rest[i].old = past.arrival[rest[i].v]
    <3> TAKE i \in 1 .. Len(rest)
    <3>1. i \in 1 .. Len(log) /\ rest[i] = log[i]
      BY <1>3 DEF n
    <3>2. QED
      BY <3>1 DEF LogInv
  <2>4. QED
    BY <1>1, <1>3, <2>1, <2>2, <2>3 DEF LogInv
<1>11. QED
  BY <1>8, <1>9, <1>10

LEMMA UndoPatchStep == ASSUME IInv, UndoPatch PROVE IInv'
<1> USE DEF IInv
<1> DEFINE n == Len(patches)
           p == patches[n]
           rest == SubSeq(patches, 1, n - 1)
<1>1. /\ pc = "rollback" /\ patches # <<>> /\ patches' = rest
      /\ net' = Swap(net, p.v, p.w, p.u)
      /\ UNCHANGED <<arrival, rank, dirty, queue, log, logged, limit, pc, txns, past>>
  BY DEF UndoPatch, callVars
<1>2. patches \in Seq(PatchType) /\ past.nets \in Seq(GoodNetwork)
      /\ Len(past.nets) >= n + 1 /\ net = past.nets[n + 1]
  BY DEF PatchInv
<1>3. /\ n \in Nat \ {0} /\ n \in 1 .. n
      /\ rest \in Seq(PatchType) /\ Len(rest) = n - 1
      /\ \A i \in 1 .. n - 1 : rest[i] = patches[i]
  BY <1>1, <1>2, DropLast
<1>4. past.nets[n] = Swap(past.nets[n + 1], p.v, p.w, p.u)
  BY <1>3 DEF PatchInv
<1>5. net' = past.nets[n]
  BY <1>1, <1>2, <1>4
<1> HIDE DEF p, rest
<1>6. net' \in GoodNetwork
  BY <1>2, <1>3, <1>5
<1>7. NetInv'
  BY <1>1, <1>6 DEF NetInv
<1>8. LocalInv'
  BY <1>1 DEF LocalInv, Visited
<1>9. LogInv'
  <2>1. LogType' = LogType /\ LogNodes' = LogNodes
    BY <1>1 DEF LogType, LogNodes
  <2>2. QED
    BY <1>1, <2>1 DEF LogInv
<1>10. PatchInv'
  <2>1. \A i \in 1 .. Len(rest) :
          past.nets[i] = Swap(past.nets[i + 1], rest[i].v, rest[i].w, rest[i].u)
    <3> TAKE i \in 1 .. Len(rest)
    <3>1. i \in 1 .. Len(patches) /\ rest[i] = patches[i]
      BY <1>3
    <3>2. QED
      BY <3>1 DEF PatchInv
  <2>2. Len(rest) + 1 = n
    BY <1>3
  <2>3. QED
    BY <1>1, <1>2, <1>3, <1>5, <2>1, <2>2 DEF PatchInv
<1>11. QED
  BY <1>7, <1>8, <1>9, <1>10

LEMMA ClosedStep == ASSUME IInv, UNCHANGED vars PROVE IInv'
<1> USE DEF IInv, vars
<1>1. NetInv' /\ LocalInv' /\ PatchInv'
  BY DEF NetInv, LocalInv, Visited, PatchInv
<1>2. LogType' = LogType /\ LogNodes' = LogNodes
  BY DEF LogType, LogNodes
<1>3. LogInv'
  BY <1>2 DEF LogInv
<1>4. QED
  BY <1>1, <1>3

----------------------------------------------------------------------------
LEMMA NextIInv == IInv /\ [Next]_vars => IInv'
<1> SUFFICES ASSUME IInv, [Next]_vars PROVE IInv'
  OBVIOUS
<1>1. ASSUME NEW v \in Node, Visit(v) PROVE IInv'
  BY <1>1, VisitStep
<1>2. CASE Initialized
  BY <1>2, InitializedStep
<1>3. CASE Begin
  BY <1>3, BeginStep
<1>4. ASSUME NEW v \in Node, NEW u \in Vertex, NEW w \in Vertex, Patch(v, u, w) PROVE IInv'
  BY <1>4, PatchStep
<1>5. CASE Call
  BY <1>5, CallStep
<1>6. CASE Propagate
  <2>1. ASSUME NEW v \in Node, Unchanged(v) PROVE IInv'
    BY <2>1, UnchangedStep
  <2>2. ASSUME NEW v \in Node, Update(v) PROVE IInv'
    BY <2>2, UpdateStep
  <2>3. ASSUME NEW v \in Node, OverLimit(v) PROVE IInv'
    BY <2>3, OverLimitStep
  <2>4. CASE Propagated
    BY <2>4, PropagatedStep
  <2>5. QED
    BY <1>6, <2>1, <2>2, <2>3, <2>4 DEF Propagate
<1>7. CASE Commit
  BY <1>7, CommitStep
<1>8. CASE Abort
  BY <1>8, AbortStep
<1>9. CASE UndoArrival
  BY <1>9, UndoArrivalStep
<1>10. CASE UndoPatch
  BY <1>10, UndoPatchStep
<1>11. CASE RolledBack
  BY <1>11, RolledBackStep
<1>12. CASE UNCHANGED vars
  BY <1>12, ClosedStep
<1>13. QED
  BY <1>1, <1>2, <1>3, <1>4, <1>5, <1>6, <1>7, <1>8, <1>9, <1>10, <1>11, <1>12
     DEF Next, Closed

LEMMA Inductive == Spec => []IInv
<1>1. QED
  BY InitIInv, NextIInv, PTL DEF Spec

(* Incremental propagation leaves every arrival outside the nodes still to  *)
(* be propagated the one its fanins give it: PropagateFrom's worklist loses *)
(* no node, whatever the ranks are after the patches.                       *)
THEOREM ArrivalsAgreeHolds == Spec => []ArrivalsAgree
<1>1. IInv => ArrivalsAgree
  BY RecomputeReadsNet DEF IInv, LocalInv, ArrivalsAgree
<1>2. QED
  BY <1>1, Inductive, PTL

(* Rollback restores the arrivals, and with the patches taken back the      *)
(* network, that BeginTransaction saw, from wherever a propagation stopped. *)
THEOREM RollbackIsExact == Spec => []RollbackExact
<1>1. IInv => RollbackExact
  BY TakenBack DEF RollbackExact
<1>2. QED
  BY <1>1, Inductive, PTL

----------------------------------------------------------------------------
(* The verdicts.  No node feeds itself through nodes: every set of nodes    *)
(* has one that none of them feeds.                                         *)
NoCycle(g) == \A D \in SUBSET Node : D # {} => \E x \in D : g.fanin[x] \cap D = {}

TypeInv ==
  /\ arrival \in [Vertex -> Int] /\ past.arrival \in [Vertex -> Int]
  /\ \A v \in Pi : arrival[v] = 0
  /\ rank \in [Vertex -> -1 .. Cardinality(Node) - 1]
  /\ \A v \in Node : rank[v] < DfsIndex
  /\ \A v, w \in Node : rank[v] = rank[w] => rank[v] = -1 \/ v = w
  /\ logged \subseteq Node /\ limit \in Int /\ txns \in 0 .. MaxTxn

AcyclicInv ==
  /\ pc = "dfs" =>
       \A D \in SUBSET Visited : D # {} => \E x \in D : net.fanin[x] \cap D = {}
  /\ pc # "dfs" => \A i \in 1 .. Len(past.nets) : NoCycle(past.nets[i])

(* Until a call exceeds the limit, no arrival does. *)
LimitInv ==
  /\ pc \in {"open", "propagate"} => limit >= 0 /\ \A v \in Vertex : arrival[v] <= limit
  /\ pc = "over" => \E v \in Node : arrival[v] > limit

(* A call started from one node only raises arrivals, or only lowers them:  *)
(* no arrival is above what the fanins give, or none is below it.           *)
Rising  == \A v \in Node : arrival[v] <= RecomputeIn(net, v, arrival)
Falling == \A v \in Node : arrival[v] >= RecomputeIn(net, v, arrival)

DirectionInv ==
  /\ pc = "propagate" /\ past.starts = 1 => Rising \/ Falling
  /\ pc = "over" /\ past.starts = 1 => Rising

VerdictInv == TypeInv /\ AcyclicInv /\ LimitInv /\ DirectionInv

----------------------------------------------------------------------------
LEMMA VertexFinite == IsFiniteSet(Vertex)
BY VertexAssumption, FS_Union DEF Vertex

(* The maximum of a finite set of integers. *)
LEMMA MaxIs ==
  ASSUME NEW S \in SUBSET Int, IsFiniteSet(S), S # {}
  PROVE  Max(S) \in S /\ \A y \in S : y <= Max(S)
<1>1. Max(S) \in S /\ \A y \in S : Max(S) >= y
  BY Greatest DEF Max
<1> QED BY <1>1

(* What RecomputeArrival returns: the greatest of zero and of its fanins'   *)
(* arrivals.                                                                *)
Counts(g, v) == {u \in g.fanin[v] : g.part[u] # NoPart}
Step(g, u, v) == IF g.part[u] # g.part[v] THEN 1 ELSE 0

LEMMA RecomputeIs ==
  ASSUME NEW g \in GoodNetwork, NEW v \in Vertex, NEW a, \A u \in Vertex : a[u] \in Int
  PROVE  /\ RecomputeIn(g, v, a) \in Int /\ RecomputeIn(g, v, a) >= 0
         /\ g.part[v] = NoPart => RecomputeIn(g, v, a) = 0
         /\ g.part[v] # NoPart =>
              \A u \in Counts(g, v) : a[u] + Step(g, u, v) <= RecomputeIn(g, v, a)
         /\ RecomputeIn(g, v, a) = 0 \/
              (g.part[v] # NoPart /\
               \E u \in Counts(g, v) : RecomputeIn(g, v, a) = a[u] + Step(g, u, v))
<1> DEFINE A == {a[u] + Step(g, u, v) : u \in Counts(g, v)}
           S == {0} \cup A
<1>1. RecomputeIn(g, v, a) = IF g.part[v] # NoPart THEN Max(S) ELSE 0
  BY DEF RecomputeIn, Counts, Step
<1>2. Counts(g, v) \subseteq Vertex
  BY DEF Counts, GoodNetwork, NetworkType
<1>3. \A u \in Counts(g, v) : a[u] + Step(g, u, v) \in Int
  BY <1>2 DEF Step
<1>4. S \in SUBSET Int
  BY <1>3
<1>5. IsFiniteSet(S)
  <2>1. IsFiniteSet(Counts(g, v))
    BY <1>2, VertexFinite, FS_Subset
  <2>2. IsFiniteSet(A)
    <3> DEFINE f == [u \in Counts(g, v) |-> a[u] + Step(g, u, v)]
    <3>1. f \in Surjection(Counts(g, v), A)
      BY DEF Surjection
    <3> QED BY <2>1, <3>1, FS_Surjection
  <2> QED BY <2>2, FS_AddElement
<1> HIDE DEF A
<1>6. Max(S) \in S /\ \A y \in S : y <= Max(S)
  BY <1>4, <1>5, MaxIs
<1>7. Max(S) \in Int /\ Max(S) >= 0
  BY <1>4, <1>6
<1>8. \A u \in Counts(g, v) : a[u] + Step(g, u, v) \in S
  BY DEF A
<1>9. Max(S) = 0 \/ \E u \in Counts(g, v) : Max(S) = a[u] + Step(g, u, v)
  BY <1>6 DEF A
<1> HIDE DEF S
<1> QED BY <1>1, <1>6, <1>7, <1>8, <1>9

(* Fanins that arrive later give a node an arrival no earlier. *)
LEMMA RecomputeMonotone ==
  ASSUME NEW g \in GoodNetwork, NEW v \in Vertex, NEW a, NEW b,
         \A u \in Vertex : a[u] \in Int /\ b[u] \in Int,
         \A u \in g.fanin[v] : a[u] <= b[u]
  PROVE  RecomputeIn(g, v, a) <= RecomputeIn(g, v, b)
<1> DEFINE p == RecomputeIn(g, v, a)
           q == RecomputeIn(g, v, b)
<1>1. p \in Int /\ q \in Int /\ q >= 0
  BY RecomputeIs
<1>2. p = 0 \/ (g.part[v] # NoPart /\ \E u \in Counts(g, v) : p = a[u] + Step(g, u, v))
  BY RecomputeIs
<1>3. g.part[v] # NoPart => \A u \in Counts(g, v) : b[u] + Step(g, u, v) <= q
  BY RecomputeIs
<1> HIDE DEF p, q
<1>4. CASE p = 0
  BY <1>1, <1>4 DEF p, q
<1>5. CASE p # 0
  <2>1. PICK u \in Counts(g, v) : p = a[u] + Step(g, u, v)
    BY <1>2, <1>5
  <2>2. b[u] + Step(g, u, v) <= q /\ u \in g.fanin[v] /\ u \in Vertex
    BY <1>2, <1>3, <1>5 DEF Counts, GoodNetwork, NetworkType
  <2>3. a[u] <= b[u] /\ a[u] \in Int /\ b[u] \in Int /\ Step(g, u, v) \in Int
    BY <2>2 DEF Step
  <2>4. p <= q
    BY <1>1, <2>1, <2>2, <2>3
  <2> QED BY <2>4 DEF p, q
<1> QED BY <1>4, <1>5

----------------------------------------------------------------------------
(* The arrivals of a network without a cycle: the solution of its equations *)
(* exists and is the only one, and bounds every rising assignment.          *)
Solves(g, a) == \A v \in Node : a[v] = RecomputeIn(g, v, a)

LEMMA SolutionUnique ==
  ASSUME NEW g \in GoodNetwork, NoCycle(g),
         NEW a, NEW b, Solves(g, a), Solves(g, b),
         \A v \in Pi : a[v] = b[v]
  PROVE  \A v \in Vertex : a[v] = b[v]
<1> DEFINE D == {v \in Node : a[v] # b[v]}
<1>1. ASSUME D # {} PROVE FALSE
  <2>1. PICK x \in D : g.fanin[x] \cap D = {}
    BY <1>1 DEF NoCycle
  <2>2. x \in Vertex /\ g.fanin[x] \subseteq Vertex
    BY DEF GoodNetwork, NetworkType, Vertex
  <2>3. \A u \in g.fanin[x] : a[u] = b[u]
    BY <2>1, <2>2 DEF Vertex
  <2>4. RecomputeIn(g, x, a) = RecomputeIn(g, x, b)
    BY <2>3, RecomputeLocal
  <2> QED BY <2>4 DEF Solves
<1> QED BY <1>1 DEF Vertex

LEMMA SolutionExists ==
  ASSUME NEW g \in GoodNetwork, NoCycle(g)
  PROVE  \E a \in [Vertex -> Int] : Solves(g, a) /\ \A v \in Pi : a[v] = 0
<1> DEFINE Good(S, a) ==
             /\ \A v \in Pi : a[v] = 0
             /\ \A v \in S : g.fanin[v] \subseteq S \cup Pi /\ a[v] = RecomputeIn(g, v, a)
           Sets == {S \in SUBSET Node : \E a \in [Vertex -> Int] : Good(S, a)}
           Lefts == {Cardinality(Node \ S) : S \in Sets}
<1>1. {} \in Sets
  <2>1. [v \in Vertex |-> 0] \in [Vertex -> Int] /\ Good({}, [v \in Vertex |-> 0])
    BY DEF Vertex
  <2> QED BY <2>1
<1> HIDE DEF Good
<1>2. \A S \in SUBSET Node : IsFiniteSet(Node \ S) /\ Cardinality(Node \ S) \in Nat
  BY VertexAssumption, FS_Difference, FS_CardinalityType
<1>3. Lefts \in SUBSET Nat /\ Lefts # {}
  BY <1>1, <1>2
<1>4. PICK m \in Lefts : \A k \in Lefts : m <= k
  <2> HIDE DEF Lefts
  <2> QED BY <1>3, LeastNatural
<1>5. PICK S \in Sets : m = Cardinality(Node \ S)
  BY <1>4
<1>6. PICK a \in [Vertex -> Int] : Good(S, a)
  BY <1>5
<1>7. ASSUME Node \ S # {} PROVE FALSE
  <2>1. PICK x \in Node \ S : g.fanin[x] \cap (Node \ S) = {}
    BY <1>7 DEF NoCycle
  <2>2. x \in Vertex /\ x \notin Pi /\ g.fanin[x] \subseteq S \cup Pi /\ x \notin g.fanin[x]
    BY <2>1, VertexAssumption DEF GoodNetwork, NetworkType, Vertex
  <2> DEFINE r == RecomputeIn(g, x, a)
             b == [a EXCEPT ![x] = r]
  <2>3. r \in Int
    BY <2>2, RecomputeIs
  <2> HIDE DEF r
  <2>4. b \in [Vertex -> Int] /\ b[x] = r /\ \A v \in Vertex : v # x => b[v] = a[v]
    BY <2>2, <2>3
  <2> HIDE DEF b
  <2>5. ASSUME NEW v \in S \cup {x}
        PROVE  g.fanin[v] \subseteq (S \cup {x}) \cup Pi /\ b[v] = RecomputeIn(g, v, b)
    <3>1. v \in Vertex /\ g.fanin[v] \subseteq S \cup Pi
      BY <1>6, <2>2 DEF Good, Vertex
    <3>2. S \cup Pi \subseteq Vertex
      BY <1>5 DEF Vertex
    <3>3. \A u \in g.fanin[v] : a[u] = b[u]
      BY <2>1, <2>2, <2>4, <3>1, <3>2
    <3>4. RecomputeIn(g, v, a) = RecomputeIn(g, v, b)
      BY <3>3, RecomputeLocal
    <3>5. CASE v = x
      BY <2>4, <3>1, <3>4, <3>5 DEF r
    <3>6. CASE v # x
      BY <1>6, <2>4, <3>1, <3>4, <3>6 DEF Good
    <3> QED BY <3>5, <3>6
  <2>6. \A v \in Pi : b[v] = 0
    BY <1>6, <2>2, <2>4 DEF Good, Vertex
  <2>7. Good(S \cup {x}, b)
    BY <2>5, <2>6 DEF Good
  <2>8. S \cup {x} \in Sets
    BY <1>5, <2>4, <2>7
  <2>9. Cardinality(Node \ (S \cup {x})) \in Lefts
    BY <2>8
  <2>10. Node \ (S \cup {x}) = (Node \ S) \ {x}
    OBVIOUS
  <2>11. Cardinality((Node \ S) \ {x}) = Cardinality(Node \ S) - 1
    BY <1>2, <1>5, FS_RemoveElement
  <2>12. m <= m - 1 /\ m \in Nat
    BY <1>2, <1>4, <1>5, <2>9, <2>10, <2>11
  <2> QED BY <2>12
<1>8. S = Node
  BY <1>5, <1>7
<1> QED BY <1>6, <1>8 DEF Good, Solves

LEMMA RisingBelow ==
  ASSUME NEW g \in GoodNetwork, NoCycle(g),
         NEW a, NEW f, \A v \in Vertex : a[v] \in Int /\ f[v] \in Int,
         \A v \in Node : a[v] <= RecomputeIn(g, v, a), Solves(g, f),
         \A v \in Pi : a[v] <= f[v]
  PROVE  \A v \in Vertex : a[v] <= f[v]
<1> DEFINE D == {v \in Node : ~(a[v] <= f[v])}
<1>1. ASSUME D # {} PROVE FALSE
  <2>1. PICK x \in D : g.fanin[x] \cap D = {}
    BY <1>1 DEF NoCycle
  <2>2. x \in Vertex /\ g.fanin[x] \subseteq Vertex
    BY DEF GoodNetwork, NetworkType, Vertex
  <2>3. \A u \in g.fanin[x] : a[u] <= f[u]
    BY <2>1, <2>2 DEF Vertex
  <2>4. RecomputeIn(g, x, a) <= RecomputeIn(g, x, f)
    BY <2>2, <2>3, RecomputeMonotone
  <2>5. RecomputeIn(g, x, a) \in Int /\ RecomputeIn(g, x, f) \in Int
    BY <2>2, RecomputeIs
  <2>6. a[x] <= RecomputeIn(g, x, a) /\ f[x] = RecomputeIn(g, x, f)
    BY DEF Solves
  <2>7. a[x] \in Int /\ f[x] \in Int /\ ~(a[x] <= f[x])
    BY <2>2
  <2> QED BY <2>4, <2>5, <2>6, <2>7
<1> QED BY <1>1 DEF Vertex

(* ComputeFullArrival computes that solution. *)
LEMMA FullIsSolution ==
  ASSUME net \in GoodNetwork, NoCycle(net),
         NEW a \in [Vertex -> Int], Solves(net, a), \A v \in Pi : a[v] = 0
  PROVE  FullArrival = a
<1> DEFINE Body(f) ==
             [v \in Vertex |-> IF v \in Pi THEN 0
                               ELSE RecomputeArrival(v, [u \in net.fanin[v] |-> f[u]])]
           full == CHOOSE f : f = Body(f)
<1>1. FullArrival = full
  BY DEF FullArrival
<1>2. ASSUME NEW f, NEW v
      PROVE  RecomputeArrival(v, [u \in net.fanin[v] |-> f[u]]) = RecomputeIn(net, v, f)
  <2> DEFINE h == [u \in net.fanin[v] |-> f[u]]
  <2>1. \A u \in net.fanin[v] : h[u] = f[u]
    OBVIOUS
  <2> HIDE DEF h
  <2>2. RecomputeIn(net, v, h) = RecomputeIn(net, v, f)
    BY <2>1, RecomputeLocal
  <2>3. RecomputeArrival(v, h) = RecomputeIn(net, v, h)
    BY RecomputeReadsNet
  <2> QED BY <2>2, <2>3 DEF h
<1>3. \A f : Body(f) = [v \in Vertex |-> IF v \in Pi THEN 0 ELSE RecomputeIn(net, v, f)]
  BY <1>2
<1>4. a = Body(a)
  <2>1. \A v \in Vertex : a[v] = IF v \in Pi THEN 0 ELSE RecomputeIn(net, v, a)
    BY DEF Solves, Vertex
  <2>2. a = [v \in Vertex |-> a[v]]
    OBVIOUS
  <2> HIDE DEF Body
  <2>3. Body(a) = [v \in Vertex |-> IF v \in Pi THEN 0 ELSE RecomputeIn(net, v, a)]
    BY <1>3
  <2> QED BY <2>1, <2>2, <2>3
<1> HIDE DEF Body
<1>5. full = Body(full)
  BY <1>4
<1> HIDE DEF full
<1>6. full = [v \in Vertex |-> IF v \in Pi THEN 0 ELSE RecomputeIn(net, v, full)]
  BY <1>3, <1>5
<1>7. Solves(net, full) /\ \A v \in Pi : full[v] = a[v]
  BY <1>6, VertexAssumption DEF Solves, Vertex
<1>8. \A v \in Vertex : full[v] = a[v]
  BY <1>7, SolutionUnique
<1>9. full = [v \in Vertex |-> full[v]] /\ a = [v \in Vertex |-> a[v]]
  BY <1>6
<1>10. full = a
  BY <1>8, <1>9
<1> QED BY <1>1, <1>10

----------------------------------------------------------------------------
LEMMA InitVerdict == Init => VerdictInv
<1> SUFFICES ASSUME Init PROVE VerdictInv
  OBVIOUS
<1> USE DEF Init, Fresh
<1>1. Visited = {} /\ DfsIndex = 0
  <2>1. \A v \in Node : ~(rank[v] >= 0)
    BY DEF Vertex
  <2>2. Visited = {}
    BY <2>1 DEF Visited
  <2> QED BY <2>2, FS_EmptySet DEF DfsIndex
<1>2. Cardinality(Node) \in Nat
  BY VertexAssumption, FS_CardinalityType
<1>3. TypeInv
  <2>1. rank \in [Vertex -> -1 .. Cardinality(Node) - 1] /\ \A v \in Node : rank[v] = -1
    BY <1>2 DEF Vertex
  <2>2. \A v \in Pi : arrival[v] = 0
    BY DEF Vertex
  <2> QED BY <1>1, <2>1, <2>2, BoundAssumption DEF TypeInv
<1>4. AcyclicInv
  BY <1>1 DEF AcyclicInv
<1>5. LimitInv /\ DirectionInv
  BY DEF LimitInv, DirectionInv
<1> QED BY <1>3, <1>4, <1>5 DEF VerdictInv

(* A node visited is fed by visited nodes only, so it closes no cycle. *)
LEMMA VisitVerdict == ASSUME IInv, VerdictInv, NEW v \in Node, Visit(v) PROVE VerdictInv'
<1> USE DEF VerdictInv
<1>1. /\ pc = "dfs" /\ pc' = "dfs" /\ v \notin Visited /\ v \in Vertex /\ v \notin Pi
      /\ net.fanin[v] \subseteq Visited \cup Pi /\ net \in GoodNetwork
      /\ rank' = [rank EXCEPT ![v] = DfsIndex]
      /\ arrival' = [arrival EXCEPT ![v] = RecomputeArrival(v, arrival)]
      /\ UNCHANGED <<net, logged, limit, txns, past>>
  BY VertexAssumption DEF IInv, NetInv, Visit, Vertex, txnVars
<1>2. rank \in [Vertex -> -1 .. Cardinality(Node) - 1]
  BY DEF TypeInv
<1>3. Visited \subseteq Node /\ IsFiniteSet(Visited) /\ DfsIndex \in Nat /\ IsFiniteSet(Node)
      /\ Cardinality(Node) \in Nat
  BY VertexAssumption, FS_Subset, FS_CardinalityType DEF Visited, DfsIndex
<1>4. DfsIndex < Cardinality(Node)
  <2>1. Cardinality(Visited) <= Cardinality(Node) /\ (Cardinality(Visited) = Cardinality(Node) => Visited = Node)
    BY <1>3, FS_Subset
  <2> QED BY <1>1, <1>3, <2>1 DEF DfsIndex
<1>5. Visited' = Visited \cup {v}
  BY <1>1, <1>2, <1>3, <1>4 DEF Visited
<1>6. DfsIndex' = DfsIndex + 1
  BY <1>1, <1>3, <1>5, FS_AddElement DEF DfsIndex
<1>7. RecomputeArrival(v, arrival) \in Int
  BY <1>1, RecomputeReadsNet, RecomputeIs DEF TypeInv
<1>8. TypeInv'
  <2>1. arrival' \in [Vertex -> Int] /\ past'.arrival \in [Vertex -> Int]
    BY <1>1, <1>7 DEF TypeInv
  <2>2. \A x \in Pi : arrival'[x] = 0
    BY <1>1 DEF TypeInv, Vertex
  <2>3. rank' \in [Vertex -> -1 .. Cardinality(Node) - 1]
    BY <1>1, <1>2, <1>3, <1>4
  <2>4. /\ rank'[v] = DfsIndex
        /\ \A x \in Node : x # v => rank'[x] = rank[x] /\ rank[x] < DfsIndex /\ rank[x] \in Int
    BY <1>1, <1>2 DEF TypeInv, Vertex
  <2>5. \A x \in Node : rank'[x] < DfsIndex'
    BY <1>3, <1>6, <2>4
  <2>6. \A x, y \in Node : rank'[x] = rank'[y] => rank'[x] = -1 \/ x = y
    BY <1>3, <2>4 DEF TypeInv
  <2> QED BY <1>1, <2>1, <2>2, <2>3, <2>5, <2>6 DEF TypeInv
<1>9. ASSUME NEW D \in SUBSET Visited', D # {} PROVE \E x \in D : net.fanin[x] \cap D = {}
  <2>1. CASE D \ {v} # {}
    <3>1. PICK x \in D \ {v} : net.fanin[x] \cap (D \ {v}) = {}
      BY <1>1, <1>5, <2>1 DEF AcyclicInv
    <3>2. x \in Visited
      BY <1>5
    <3>3. net.fanin[x] \subseteq Visited \cup Pi
      BY <1>1, <3>2 DEF IInv, LocalInv
    <3> QED BY <1>1, <3>1, <3>3
  <2>2. CASE D \ {v} = {}
    BY <1>1, <1>9, <2>2 DEF GoodNetwork
  <2> QED BY <2>1, <2>2
<1>10. AcyclicInv'
  BY <1>1, <1>9 DEF AcyclicInv
<1>11. LimitInv' /\ DirectionInv'
  BY <1>1 DEF LimitInv, DirectionInv
<1> QED BY <1>8, <1>10, <1>11

(* A call's end and the start of the next leave the types as they are. *)
LEMMA FreshVerdict ==
  ASSUME IInv, VerdictInv, UNCHANGED <<net, arrival, rank>>, past' = Fresh(arrival),
         NoCycle(net), logged' \in {logged, {}}, limit' \in Int, txns' \in 0 .. MaxTxn,
         pc' \notin {"dfs", "propagate", "over"},
         pc' = "open" => limit' >= 0 /\ \A v \in Vertex : arrival[v] <= limit'
  PROVE  VerdictInv'
<1> USE DEF VerdictInv, Fresh
<1>1. DfsIndex' = DfsIndex
  BY DEF DfsIndex, Visited
<1>2. TypeInv'
  BY <1>1 DEF TypeInv
<1>3. AcyclicInv'
  BY DEF AcyclicInv, NoCycle
<1>4. LimitInv' /\ DirectionInv'
  BY DEF LimitInv, DirectionInv
<1> QED BY <1>2, <1>3, <1>4

LEMMA NetAcyclic == ASSUME IInv, VerdictInv, pc # "dfs" PROVE NoCycle(net)
<1>1. Len(patches) + 1 \in 1 .. Len(past.nets) /\ net = past.nets[Len(patches) + 1]
  BY DEF IInv, PatchInv
<1> QED BY <1>1 DEF VerdictInv, AcyclicInv

LEMMA InitializedVerdict == ASSUME IInv, VerdictInv, Initialized PROVE VerdictInv'
<1>1. NoCycle(net)
  BY DEF VerdictInv, AcyclicInv, Initialized, NoCycle
<1>2. UNCHANGED <<net, arrival, rank, logged, limit, txns>> /\ past' = Fresh(arrival) /\ pc' = "idle"
  BY DEF Initialized
<1>3. limit' \in Int /\ txns' \in 0 .. MaxTxn
  BY <1>2 DEF VerdictInv, TypeInv
<1> QED BY <1>1, <1>2, <1>3, FreshVerdict

(* The limit of a transaction is no less than any arrival. *)
LEMMA BeginVerdict == ASSUME IInv, VerdictInv, Begin PROVE VerdictInv'
<1>1. NoCycle(net)
  BY NetAcyclic DEF Begin
<1>2. /\ UNCHANGED <<net, arrival, rank>> /\ past' = Fresh(arrival) /\ pc' = "open"
      /\ logged' = {} /\ txns < MaxTxn /\ txns' = txns + 1 /\ limit' \in {EntryHop, EntryHop + 1}
  BY DEF Begin
<1>3. txns' \in 0 .. MaxTxn
  BY <1>2, BoundAssumption DEF VerdictInv, TypeInv
<1>4. EntryHop \in Int /\ EntryHop >= 0 /\ \A v \in Vertex : arrival[v] <= EntryHop
  <2> DEFINE A == {arrival[v] : v \in Vertex}
             S == {0} \cup A
  <2>1. arrival \in [Vertex -> Int]
    BY DEF VerdictInv, TypeInv
  <2>2. S \in SUBSET Int /\ arrival \in Surjection(Vertex, A)
    BY <2>1 DEF Surjection
  <2>3. IsFiniteSet(S)
    BY SMTT(30), <2>2, VertexFinite, FS_Surjection, FS_AddElement
  <2>4. \A v \in Vertex : arrival[v] \in S
    OBVIOUS
  <2>5. EntryHop = Max(S)
    BY DEF EntryHop
  <2>6. 0 \in S
    OBVIOUS
  <2> HIDE DEF S
  <2>7. Max(S) \in S /\ \A y \in S : y <= Max(S)
    BY <2>2, <2>3, <2>6, MaxIs
  <2> QED BY <2>2, <2>4, <2>5, <2>6, <2>7
<1>5. limit' \in Int /\ limit' >= 0 /\ \A v \in Vertex : arrival[v] <= limit'
  <2>1. \A v \in Vertex : arrival[v] \in Int
    BY DEF VerdictInv, TypeInv
  <2> QED BY <1>2, <1>4, <2>1
<1> QED BY <1>1, <1>2, <1>3, <1>5, FreshVerdict

(* A patch whose new fanin is not downstream makes no cycle. *)
LEMMA PatchAcyclic ==
  ASSUME NEW v \in Node, NEW u \in Vertex, NEW w \in Vertex,
         net \in GoodNetwork, NoCycle(net), ~Upstream(v, w)
  PROVE  NoCycle(Swap(net, v, u, w))
<1> DEFINE g == Swap(net, v, u, w)
<1>1. PICK S \in SUBSET Vertex : w \in S /\ v \notin S /\ \A x \in S : net.fanin[x] \subseteq S
  BY DEF Upstream
<1>2. v \in Vertex /\ net.fanin \in [Vertex -> SUBSET Vertex]
  BY DEF GoodNetwork, NetworkType, Vertex
<1>3. g.fanin[v] = (net.fanin[v] \ {u}) \cup {w} /\ \A x \in Vertex : x # v => g.fanin[x] = net.fanin[x]
  BY <1>2 DEF Swap
<1> HIDE DEF g
<1>4. ASSUME NEW D \in SUBSET Node, D # {} PROVE \E x \in D : g.fanin[x] \cap D = {}
  <2>1. CASE D \cap S # {}
    <3>1. PICK x \in D \cap S : net.fanin[x] \cap (D \cap S) = {}
      BY <2>1 DEF NoCycle
    <3>2. g.fanin[x] = net.fanin[x] /\ net.fanin[x] \subseteq S
      BY <1>1, <1>3
    <3> QED BY <3>1, <3>2
  <2>2. CASE D \cap S = {}
    <3>1. PICK x \in D : net.fanin[x] \cap D = {}
      BY <1>4 DEF NoCycle
    <3>2. g.fanin[x] \subseteq net.fanin[x] \cup {w}
      BY <1>3 DEF Vertex
    <3> QED BY <1>1, <2>2, <3>1, <3>2
  <2> QED BY <2>1, <2>2
<1> QED BY <1>4 DEF NoCycle, g

LEMMA PatchVerdict ==
  ASSUME IInv, VerdictInv, NEW v \in Node, NEW u \in Vertex, NEW w \in Vertex, Patch(v, u, w)
  PROVE  VerdictInv'
<1> DEFINE g == Swap(net, v, u, w)
<1>1. /\ pc = "open" /\ ~Upstream(v, w) /\ net' = g
      /\ UNCHANGED <<arrival, rank, logged, limit, pc, txns>>
      /\ past' = [past EXCEPT !.nets = Append(past.nets, g)]
  BY DEF Patch
<1>2. past = [nets |-> past.nets, arrival |-> past.arrival, starts |-> past.starts]
  BY DEF IInv, LogInv
<1> HIDE DEF g
<1>3. past'.nets = Append(past.nets, g) /\ past'.arrival = past.arrival
  BY <1>1, <1>2
<1>4. NoCycle(g)
  BY <1>1, NetAcyclic, PatchAcyclic DEF IInv, NetInv, g
<1>5. \A i \in 1 .. Len(past'.nets) : NoCycle(past'.nets[i])
  <2>1. past.nets \in Seq(GoodNetwork) /\ \A i \in 1 .. Len(past.nets) : NoCycle(past.nets[i])
    BY <1>1 DEF IInv, PatchInv, VerdictInv, AcyclicInv
  <2>2. ASSUME NEW i \in 1 .. Len(past'.nets) PROVE NoCycle(past'.nets[i])
    <3>1. Len(past'.nets) = Len(past.nets) + 1 /\ Len(past.nets) \in Nat
      BY <1>3, <2>1
    <3>2. CASE i = Len(past.nets) + 1
      <4>1. past'.nets[i] = g
        BY <1>3, <2>1, <3>2
      <4> QED BY <1>4, <4>1
    <3>3. CASE i # Len(past.nets) + 1
      <4>1. i \in 1 .. Len(past.nets)
        BY <3>1, <3>3
      <4>2. past'.nets[i] = past.nets[i]
        BY <1>3, <2>1, <4>1
      <4> QED BY <2>1, <4>1, <4>2
    <3> QED BY <3>2, <3>3
  <2> QED BY <2>2
<1>6. AcyclicInv'
  BY <1>1, <1>5 DEF AcyclicInv, NoCycle
<1>7. DfsIndex' = DfsIndex
  BY <1>1 DEF DfsIndex, Visited
<1>8. TypeInv'
  BY <1>1, <1>3, <1>7 DEF VerdictInv, TypeInv
<1>9. LimitInv' /\ DirectionInv'
  BY <1>1 DEF VerdictInv, LimitInv, DirectionInv
<1> QED BY <1>6, <1>8, <1>9 DEF VerdictInv

(* With one node patched, its arrival alone may be out of step: all rise,   *)
(* or all fall.                                                             *)
LEMMA CallVerdict == ASSUME IInv, VerdictInv, Call PROVE VerdictInv'
<1>1. /\ pc = "open" /\ pc' = "propagate"
      /\ UNCHANGED <<net, arrival, rank, logged, limit, txns>>
      /\ past' = [past EXCEPT !.starts = Cardinality(dirty)]
  BY DEF Call
<1>2. past = [nets |-> past.nets, arrival |-> past.arrival, starts |-> past.starts]
  BY DEF IInv, LogInv
<1>3. past'.nets = past.nets /\ past'.arrival = past.arrival /\ past'.starts = Cardinality(dirty)
  BY <1>1, <1>2
<1>4. DfsIndex' = DfsIndex
  BY <1>1 DEF DfsIndex, Visited
<1>5. TypeInv'
  BY <1>1, <1>3, <1>4 DEF VerdictInv, TypeInv
<1>6. AcyclicInv'
  BY <1>1, <1>3 DEF VerdictInv, AcyclicInv, NoCycle
<1>7. LimitInv'
  BY <1>1 DEF VerdictInv, LimitInv
<1>8. ASSUME Cardinality(dirty) = 1 PROVE Rising \/ Falling
  <2>1. dirty \subseteq Node /\ IsFiniteSet(dirty)
    BY VertexAssumption, FS_Subset DEF IInv, NetInv
  <2>2. PICK x : dirty = {x}
    BY <1>8, <2>1, FS_Singleton
  <2>3. \A v \in Node : v # x => arrival[v] = RecomputeIn(net, v, arrival)
    BY <1>1, <2>2 DEF IInv, LocalInv
  <2>4. \A v \in Node : arrival[v] \in Int /\ RecomputeIn(net, v, arrival) \in Int
    BY RecomputeIs DEF VerdictInv, TypeInv, Vertex, IInv, NetInv
  <2>5. CASE arrival[x] <= RecomputeIn(net, x, arrival)
    BY <2>3, <2>4, <2>5 DEF Rising
  <2>6. CASE ~(arrival[x] <= RecomputeIn(net, x, arrival))
    <3>1. x \in Node
      BY <2>1, <2>2
    <3> QED BY <2>3, <2>4, <2>6, <3>1 DEF Falling
  <2> QED BY <2>5, <2>6
<1>9. DirectionInv'
  BY <1>1, <1>3, <1>8 DEF DirectionInv, Rising, Falling
<1> QED BY <1>5, <1>6, <1>7, <1>9 DEF VerdictInv

(* Steps that change neither the network nor an arrival. *)
LEMMA StillVerdict ==
  ASSUME IInv, VerdictInv, UNCHANGED <<net, arrival, rank, logged, limit, txns, past>>,
         pc' = pc \/ (pc # "dfs" /\ pc' = "rollback") \/ (pc = "propagate" /\ pc' = "open")
  PROVE  VerdictInv'
<1> USE DEF VerdictInv
<1>1. DfsIndex' = DfsIndex
  BY DEF DfsIndex, Visited
<1>2. TypeInv'
  BY <1>1 DEF TypeInv
<1>3. AcyclicInv'
  BY DEF AcyclicInv, NoCycle, Visited
<1>4. LimitInv' /\ DirectionInv'
  BY DEF LimitInv, DirectionInv, Rising, Falling
<1> QED BY <1>2, <1>3, <1>4

(* Writing the arrival a node's fanins give it keeps the direction. *)
LEMMA WriteKeepsDirection ==
  ASSUME IInv, VerdictInv, NEW v \in Node, pc = "propagate",
         arrival' = [arrival EXCEPT ![v] = RecomputeArrival(v, arrival)], UNCHANGED net
  PROVE  /\ arrival' \in [Vertex -> Int]
         /\ arrival'[v] = RecomputeIn(net, v, arrival)
         /\ \A x \in Vertex : x # v => arrival'[x] = arrival[x]
         /\ Rising => Rising'
         /\ Falling => Falling'
<1> DEFINE r == RecomputeIn(net, v, arrival)
<1>1. v \in Vertex /\ net \in GoodNetwork /\ arrival \in [Vertex -> Int] /\ v \notin net.fanin[v]
      /\ \A x \in Vertex : net.fanin[x] \subseteq Vertex
  BY DEF IInv, NetInv, VerdictInv, TypeInv, Vertex, GoodNetwork, NetworkType
<1>2. r \in Int
  BY <1>1, RecomputeIs
<1>3. arrival' = [arrival EXCEPT ![v] = r]
  BY RecomputeReadsNet
<1> HIDE DEF r
<1>4. arrival' \in [Vertex -> Int] /\ arrival'[v] = r /\ \A x \in Vertex : x # v => arrival'[x] = arrival[x]
  BY <1>1, <1>2, <1>3
<1>5. RecomputeIn(net, v, arrival') = r
  <2>1. \A u \in net.fanin[v] : arrival[u] = arrival'[u]
    BY <1>1, <1>4
  <2>2. ASSUME NEW b, \A u \in net.fanin[v] : arrival[u] = b[u]
        PROVE  RecomputeIn(net, v, arrival) = RecomputeIn(net, v, b)
    BY <2>2, RecomputeLocal
  <2> QED BY <2>1, <2>2 DEF r
<1>6. \A x \in Vertex : /\ arrival[x] \in Int /\ arrival'[x] \in Int
                        /\ RecomputeIn(net, x, arrival) \in Int /\ RecomputeIn(net, x, arrival') \in Int
  BY <1>1, <1>4, RecomputeIs
<1>7. ASSUME Rising PROVE Rising'
  <2>1. \A u \in Vertex : arrival[u] <= arrival'[u]
    BY <1>4, <1>6, <1>7 DEF Rising, r
  <2>2. ASSUME NEW x \in Node PROVE arrival'[x] <= RecomputeIn(net, x, arrival')
    <3>1. CASE x = v
      BY <1>1, <1>4, <1>5, <1>6, <3>1
    <3>2. CASE x # v
      <4>1. x \in Vertex /\ arrival[x] <= RecomputeIn(net, x, arrival)
        BY <1>7 DEF Rising, Vertex
      <4>2. RecomputeIn(net, x, arrival) <= RecomputeIn(net, x, arrival')
        BY <1>1, <1>6, <2>1, <4>1, RecomputeMonotone
      <4>3. arrival'[x] = arrival[x]
        BY <1>4, <3>2, <4>1
      <4>4. /\ arrival[x] \in Int /\ RecomputeIn(net, x, arrival) \in Int
            /\ RecomputeIn(net, x, arrival') \in Int
        BY <1>6, <4>1
      <4> QED BY <4>1, <4>2, <4>3, <4>4
    <3> QED BY <3>1, <3>2
  <2> QED BY <2>2 DEF Rising
<1>8. ASSUME Falling PROVE Falling'
  <2>1. \A u \in Vertex : arrival'[u] <= arrival[u]
    BY <1>4, <1>6, <1>8 DEF Falling, r
  <2>2. ASSUME NEW x \in Node PROVE arrival'[x] >= RecomputeIn(net, x, arrival')
    <3>1. CASE x = v
      BY <1>1, <1>4, <1>5, <1>6, <3>1
    <3>2. CASE x # v
      <4>1. x \in Vertex /\ arrival[x] >= RecomputeIn(net, x, arrival)
        BY <1>8 DEF Falling, Vertex
      <4>2. RecomputeIn(net, x, arrival') <= RecomputeIn(net, x, arrival)
        BY <1>1, <1>6, <2>1, <4>1, RecomputeMonotone
      <4>3. arrival'[x] = arrival[x]
        BY <1>4, <3>2, <4>1
      <4>4. /\ arrival[x] \in Int /\ RecomputeIn(net, x, arrival) \in Int
            /\ RecomputeIn(net, x, arrival') \in Int
        BY <1>6, <4>1
      <4> QED BY <4>1, <4>2, <4>3, <4>4
    <3> QED BY <3>1, <3>2
  <2> QED BY <2>2 DEF Falling
<1> QED BY <1>4, <1>7, <1>8 DEF r

(* Falling arrivals never exceed the limit, so the one that does is rising. *)
LEMMA WriteVerdict ==
  ASSUME IInv, VerdictInv, NEW v \in Node, pc = "propagate", Record(v),
         arrival' = [arrival EXCEPT ![v] = RecomputeArrival(v, arrival)],
         UNCHANGED <<net, rank, limit, txns, past>>,
         \/ pc' = "propagate" /\ ~Exceeds(RecomputeArrival(v, arrival))
         \/ pc' = "over" /\ Exceeds(RecomputeArrival(v, arrival))
  PROVE  VerdictInv'
<1> DEFINE r == RecomputeIn(net, v, arrival)
<1>1. /\ arrival' \in [Vertex -> Int] /\ arrival'[v] = r
      /\ \A x \in Vertex : x # v => arrival'[x] = arrival[x]
      /\ Rising => Rising'
      /\ Falling => Falling'
  BY WriteKeepsDirection
<1>2. v \in Vertex /\ v \notin Pi /\ net \in GoodNetwork /\ arrival \in [Vertex -> Int]
      /\ r \in Int /\ limit \in Int /\ logged \subseteq Node
  BY VertexAssumption, RecomputeIs DEF IInv, NetInv, VerdictInv, TypeInv, Vertex
<1>3. RecomputeArrival(v, arrival) = r
  BY RecomputeReadsNet
<1> HIDE DEF r
<1>4. \/ pc' = "propagate" /\ r <= limit
      \/ pc' = "over" /\ r > limit
  BY <1>2, <1>3 DEF Exceeds
<1>5. TypeInv'
  <2>1. DfsIndex' = DfsIndex
    BY DEF DfsIndex, Visited
  <2>2. logged' \subseteq Node
    BY <1>2 DEF Record
  <2>3. \A x \in Pi : arrival'[x] = 0
    BY <1>1, <1>2 DEF VerdictInv, TypeInv, Vertex
  <2> QED BY <1>1, <2>1, <2>2, <2>3 DEF VerdictInv, TypeInv
<1>6. AcyclicInv'
  BY <1>4 DEF VerdictInv, AcyclicInv, NoCycle
<1>7. LimitInv'
  <2>1. limit >= 0 /\ \A x \in Vertex : arrival[x] <= limit
    BY DEF VerdictInv, LimitInv
  <2>2. CASE pc' = "propagate"
    <3>1. \A x \in Vertex : arrival'[x] <= limit
      BY <1>1, <1>4, <2>1, <2>2
    <3> QED BY <2>1, <2>2, <3>1 DEF LimitInv
  <2>3. CASE pc' = "over"
    <3>1. arrival'[v] > limit
      BY <1>1, <1>4, <2>3
    <3> QED BY <2>3, <3>1 DEF LimitInv
  <2> QED BY <1>4, <2>2, <2>3
<1>8. DirectionInv'
  <2>1. CASE pc' = "propagate"
    BY <1>1, <2>1 DEF VerdictInv, DirectionInv
  <2>2. CASE pc' = "over"
    <3>1. ASSUME Falling PROVE FALSE
      <4>1. r <= arrival[v] /\ arrival[v] <= limit /\ arrival[v] \in Int /\ r > limit
        BY <1>2, <1>4, <2>2, <3>1 DEF Falling, VerdictInv, LimitInv, r
      <4> QED BY <1>2, <4>1
    <3> QED BY <1>1, <2>2, <3>1 DEF VerdictInv, DirectionInv
  <2> QED BY <1>4, <2>1, <2>2
<1> QED BY <1>5, <1>6, <1>7, <1>8 DEF VerdictInv

LEMMA UndoArrivalVerdict == ASSUME IInv, VerdictInv, UndoArrival PROVE VerdictInv'
<1> DEFINE c == log[Len(log)]
<1>1. /\ pc = "rollback" /\ log # <<>> /\ arrival' = [arrival EXCEPT ![c.v] = c.old]
      /\ UNCHANGED <<net, rank, logged, limit, pc, txns, past>>
  BY DEF UndoArrival, callVars
<1>2. c \in LogType
  BY <1>1, DropLast DEF IInv, LogInv
<1>3. past.arrival \in [Vertex -> Int] /\ arrival \in [Vertex -> Int]
  BY DEF VerdictInv, TypeInv
<1>4. c.v \in Node /\ c.old \in Int
  BY <1>2, <1>3 DEF LogType
<1> HIDE DEF c
<1>5. arrival' \in [Vertex -> Int] /\ \A x \in Pi : arrival'[x] = 0
  BY <1>1, <1>3, <1>4, VertexAssumption DEF VerdictInv, TypeInv, Vertex
<1>6. DfsIndex' = DfsIndex
  BY <1>1 DEF DfsIndex, Visited
<1>7. TypeInv'
  BY <1>1, <1>5, <1>6 DEF VerdictInv, TypeInv
<1>8. AcyclicInv' /\ LimitInv' /\ DirectionInv'
  BY <1>1 DEF VerdictInv, AcyclicInv, NoCycle, LimitInv, DirectionInv
<1> QED BY <1>7, <1>8 DEF VerdictInv

LEMMA UndoPatchVerdict == ASSUME IInv, VerdictInv, UndoPatch PROVE VerdictInv'
<1>1. pc = "rollback" /\ UNCHANGED <<arrival, rank, logged, limit, pc, txns, past>>
  BY DEF UndoPatch, callVars
<1>2. DfsIndex' = DfsIndex
  BY <1>1 DEF DfsIndex, Visited
<1>3. TypeInv'
  BY <1>1, <1>2 DEF VerdictInv, TypeInv
<1>4. AcyclicInv' /\ LimitInv' /\ DirectionInv'
  BY <1>1 DEF VerdictInv, AcyclicInv, NoCycle, LimitInv, DirectionInv
<1> QED BY <1>3, <1>4 DEF VerdictInv

LEMMA ForgetVerdict ==
  ASSUME IInv, VerdictInv, Forget, pc # "dfs", pc' = "idle",
         UNCHANGED <<net, arrival, rank, txns>>
  PROVE  VerdictInv'
<1>1. NoCycle(net)
  BY NetAcyclic
<1>2. logged' = {} /\ limit' = 0 /\ past' = Fresh(arrival)
  BY DEF Forget
<1>3. txns' \in 0 .. MaxTxn
  BY DEF VerdictInv, TypeInv
<1> QED BY <1>1, <1>2, <1>3, FreshVerdict

LEMMA NextVerdict == IInv /\ VerdictInv /\ [Next]_vars => VerdictInv'
<1> SUFFICES ASSUME IInv, VerdictInv, [Next]_vars PROVE VerdictInv'
  OBVIOUS
<1>1. ASSUME NEW v \in Node, Visit(v) PROVE VerdictInv'
  BY <1>1, VisitVerdict
<1>2. CASE Initialized
  BY <1>2, InitializedVerdict
<1>3. CASE Begin
  BY <1>3, BeginVerdict
<1>4. ASSUME NEW v \in Node, NEW u \in Vertex, NEW w \in Vertex, Patch(v, u, w) PROVE VerdictInv'
  BY <1>4, PatchVerdict
<1>5. CASE Call
  BY <1>5, CallVerdict
<1>6. CASE Propagate
  <2>1. ASSUME NEW v \in Node, Unchanged(v) PROVE VerdictInv'
    BY <2>1, StillVerdict DEF Unchanged, txnVars
  <2>2. ASSUME NEW v \in Node, Update(v) PROVE VerdictInv'
    BY <2>2, WriteVerdict DEF Update
  <2>3. ASSUME NEW v \in Node, OverLimit(v) PROVE VerdictInv'
    BY <2>3, WriteVerdict DEF OverLimit
  <2>4. CASE Propagated
    BY <2>4, StillVerdict DEF Propagated, txnVars
  <2>5. QED
    BY <1>6, <2>1, <2>2, <2>3, <2>4 DEF Propagate
<1>7. CASE Commit
  BY <1>7, ForgetVerdict DEF Commit
<1>8. CASE Abort
  BY <1>8, StillVerdict DEF Abort, txnVars
<1>9. CASE UndoArrival
  BY <1>9, UndoArrivalVerdict
<1>10. CASE UndoPatch
  BY <1>10, UndoPatchVerdict
<1>11. CASE RolledBack
  BY <1>11, ForgetVerdict DEF RolledBack
<1>12. CASE UNCHANGED vars
  BY <1>12, StillVerdict DEF vars
<1>13. QED
  BY <1>1, <1>2, <1>3, <1>4, <1>5, <1>6, <1>7, <1>8, <1>9, <1>10, <1>11, <1>12
     DEF Next, Closed

(* With IInv, the invariant behind the verdicts: the networks have no       *)
(* cycle, arrivals stay within the limit until the call that exceeds it,    *)
(* and a call started from one node moves them in one direction only.       *)
THEOREM VerdictInvAlways == Spec => [](IInv /\ VerdictInv)
<1>1. Init => IInv /\ VerdictInv
  BY InitIInv, InitVerdict
<1>2. IInv /\ VerdictInv /\ [Next]_vars => (IInv /\ VerdictInv)'
  BY NextIInv, NextVerdict
<1> QED BY <1>1, <1>2, PTL DEF Spec

LEMMA TypesHold == ASSUME IInv, VerdictInv PROVE TypeOK
<1>1. net \in NetworkType /\ \A v \in Vertex : v \notin net.fanin[v]
  BY DEF IInv, NetInv, GoodNetwork
<1>2. log \in Seq(ChangeType)
  <2>1. LogType \subseteq ChangeType
    BY DEF LogType, ChangeType, VerdictInv, TypeInv
  <2>2. log \in Seq(LogType)
    BY DEF IInv, LogInv
  <2> QED BY <2>1, <2>2
<1>3. dirty \subseteq Node /\ queue \subseteq Node /\ patches \in Seq(PatchType)
      /\ pc \in {"dfs", "idle", "open", "propagate", "over", "rollback"}
  BY DEF IInv, NetInv, PatchInv
<1> QED BY <1>1, <1>2, <1>3 DEF TypeOK, VerdictInv, TypeInv

(* At rest, incremental arrivals are those of a recomputation of the whole  *)
(* network; and a propagation's answer is right although it is given before *)
(* the network is settled: true only if the patched network keeps the hop   *)
(* limit, and, started from one node, false only if it does not.            *)
THEOREM VerdictIsRight == Spec => []VerdictRight
<1>1. ASSUME IInv, VerdictInv PROVE VerdictRight
  <2>1. TypeOK
    BY <1>1, TypesHold
  <2>2. net \in GoodNetwork /\ arrival \in [Vertex -> Int] /\ \A v \in Pi : arrival[v] = 0
    BY <1>1 DEF IInv, NetInv, VerdictInv, TypeInv
  <2>3. limit \in Int
    BY <1>1 DEF VerdictInv, TypeInv
  <2>4. ASSUME pc = "idle" \/ (pc = "open" /\ dirty = {}) PROVE arrival = FullArrival
    <3>1. Solves(net, arrival)
      BY <1>1, <2>4 DEF IInv, LocalInv, Solves
    <3>2. NoCycle(net)
      BY <1>1, <2>4, NetAcyclic
    <3> QED BY <2>2, <3>1, <3>2, FullIsSolution
  <2>5. ASSUME NEW f \in [Vertex -> Int]
        PROVE  LET H == Max({0} \cup {f[v] : v \in Vertex})
               IN  H \in {0} \cup {f[v] : v \in Vertex} /\ H \in Int /\ \A v \in Vertex : f[v] <= H
    <3> DEFINE A == {f[v] : v \in Vertex}
               S == {0} \cup A
    <3>1. S \in SUBSET Int /\ f \in Surjection(Vertex, A) /\ 0 \in S
      BY DEF Surjection
    <3>2. IsFiniteSet(S)
      BY <3>1, VertexFinite, FS_Surjection, FS_AddElement
    <3>3. \A v \in Vertex : f[v] \in S
      OBVIOUS
    <3> HIDE DEF S
    <3>4. Max(S) \in S /\ \A y \in S : y <= Max(S)
      BY <3>1, <3>2, MaxIs
    <3>5. Max(S) \in S /\ Max(S) \in Int /\ \A v \in Vertex : f[v] <= Max(S)
      BY <3>1, <3>3, <3>4
    <3> QED BY <3>5 DEF S
  <2>6. ASSUME pc = "open" /\ dirty = {} PROVE FullHop <= limit
    <3>1. FullArrival = arrival /\ \A v \in Vertex : arrival[v] <= limit
      BY <1>1, <2>4, <2>6 DEF VerdictInv, LimitInv
    <3>2. FullHop \in {0} \cup {arrival[v] : v \in Vertex}
      BY <2>2, <2>5, <3>1 DEF FullHop
    <3>3. limit >= 0
      BY <1>1, <2>6 DEF VerdictInv, LimitInv
    <3> QED BY <2>3, <3>1, <3>2, <3>3
  <2>7. ASSUME pc = "over" /\ past.starts = 1 PROVE FullHop > limit
    <3>1. NoCycle(net)
      BY <1>1, <2>7, NetAcyclic
    <3>2. PICK f \in [Vertex -> Int] : Solves(net, f) /\ \A v \in Pi : f[v] = 0
      BY <2>2, <3>1, SolutionExists
    <3>3. FullArrival = f
      BY <2>2, <3>1, <3>2, FullIsSolution
    <3>4. \A v \in Node : arrival[v] <= RecomputeIn(net, v, arrival)
      BY <1>1, <2>7 DEF VerdictInv, DirectionInv, Rising
    <3>5. \A v \in Vertex : arrival[v] <= f[v]
      <4>1. \A v \in Vertex : arrival[v] \in Int /\ f[v] \in Int
        BY <2>2
      <4>2. \A v \in Pi : arrival[v] <= f[v]
        BY <2>2, <3>2
      <4> QED BY <2>2, <3>1, <3>2, <3>4, <4>1, <4>2, RisingBelow
    <3>6. PICK v \in Node : arrival[v] > limit
      BY <1>1, <2>7 DEF VerdictInv, LimitInv
    <3>7. f[v] <= FullHop /\ FullHop \in Int
      BY <2>5, <3>3 DEF FullHop, Vertex
    <3>8. v \in Vertex
      BY DEF Vertex
    <3> QED BY <2>2, <2>3, <3>5, <3>6, <3>7, <3>8
  <2> QED BY <2>1, <2>4, <2>6, <2>7 DEF VerdictRight
<1>2. IInv /\ VerdictInv => VerdictRight
  BY <1>1
<1> QED BY <1>2, VerdictInvAlways, PTL
=============================================================================
