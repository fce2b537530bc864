------------------------------ MODULE BucketOps ------------------------------
(****************************************************************************)
(* The FM gain buckets of fmpart/fm_buckets.hpp as operators on a record.   *)
(*                                                                          *)
(* For each side and each gain in -gmax..gmax there is an intrusive doubly  *)
(* linked list; head, next and prev are the arrays of the class, top is     *)
(* m_max, the pointer that max_gain() lowers lazily, and in is the set of   *)
(* vertices whose m_in flag is set.  The flat bucket_index(side, gain) of   *)
(* the code is the pair <<side, gain>> here: a gain outside -gmax..gmax,    *)
(* which the code forbids its callers, is outside the domain of head.       *)
(****************************************************************************)
EXTENDS Hypergraph

CONSTANT None   (* kNone: the end of a list *)

ASSUME NoneAssumption == None \notin Vertex

Link == Vertex \cup {None}

(* The gains that have a bucket, and the value below them all that means    *)
(* "this side is empty".                                                    *)
Gains(gmax) == (0 - gmax) .. gmax
Below(gmax) == 0 - gmax - 1

BucketType(gmax) ==
  [ head : [Side \X Gains(gmax) -> Link],
    next : [Vertex -> Link],
    prev : [Vertex -> Link],
    gain : [Vertex -> Gains(gmax)],
    side : [Vertex -> Side],
    in   : SUBSET Vertex,
    top  : [Side -> Below(gmax) .. gmax] ]

----------------------------------------------------------------------------
(* reset *)
EmptyBuckets(gmax) ==
  [ head |-> [k \in Side \X Gains(gmax) |-> None],
    next |-> [v \in Vertex |-> None],
    prev |-> [v \in Vertex |-> None],
    gain |-> [v \in Vertex |-> 0],
    side |-> [v \in Vertex |-> 0],
    in   |-> {},
    top  |-> [s \in Side |-> Below(gmax)] ]

BucketOf(b, v) == <<b.side[v], b.gain[v]>>

(* Definitions marked "slip" are likely mistakes in the operator that       *)
(* follows them; no other definition uses them.                             *)
InsertKeepingTop(b, v, s, g) ==   \* slip: m_max is not raised
  LET first == b.head[<<s, g>>] IN
  [ head |-> [b.head EXCEPT ![<<s, g>>] = v], next |-> [b.next EXCEPT ![v] = first],
    prev |-> [u \in Vertex |->
                IF u = first THEN v ELSE IF u = v THEN None ELSE b.prev[u]],
    gain |-> [b.gain EXCEPT ![v] = g], side |-> [b.side EXCEPT ![v] = s],
    in   |-> b.in \cup {v}, top |-> b.top ]

(* insert: v becomes the head of its list; the caller guarantees that v is  *)
(* in no list.                                                              *)
InsertOp(b, v, s, g) ==
  LET first == b.head[<<s, g>>] IN
  [ head |-> [b.head EXCEPT ![<<s, g>>] = v],
    next |-> [b.next EXCEPT ![v] = first],
    prev |-> [u \in Vertex |->
                IF u = first THEN v ELSE IF u = v THEN None ELSE b.prev[u]],
    gain |-> [b.gain EXCEPT ![v] = g],
    side |-> [b.side EXCEPT ![v] = s],
    in   |-> b.in \cup {v},
    top  |-> [b.top EXCEPT ![s] = IF g > b.top[s] THEN g ELSE b.top[s]] ]

UnlinkForwardOnly(b, v) ==   \* slip: the next vertex keeps its prev link
  [ head |-> IF b.prev[v] = None
             THEN [b.head EXCEPT ![BucketOf(b, v)] = b.next[v]] ELSE b.head,
    next |-> [u \in Vertex |->
                IF u = v THEN None ELSE IF u = b.prev[v] THEN b.next[v] ELSE b.next[u]],
    prev |-> [b.prev EXCEPT ![v] = None],
    gain |-> b.gain, side |-> b.side, in |-> b.in \ {v}, top |-> b.top ]

(* Unlinking v: its neighbours, or its list's head, skip it.  top keeps its *)
(* value: max_gain settles it later.                                        *)
Unlink(b, v) ==
  LET before == b.prev[v]
      after  == b.next[v]
  IN
  [ head |-> IF before = None
             THEN [b.head EXCEPT ![BucketOf(b, v)] = after] ELSE b.head,
    next |-> [u \in Vertex |->
                IF u = v THEN None ELSE IF u = before THEN after ELSE b.next[u]],
    prev |-> [u \in Vertex |->
                IF u = v THEN None ELSE IF u = after THEN before ELSE b.prev[u]],
    gain |-> b.gain,
    side |-> b.side,
    in   |-> b.in \ {v},
    top  |-> b.top ]

(* erase: nothing happens to a vertex that is in no list. *)
EraseOp(b, v) == IF v \in b.in THEN Unlink(b, v) ELSE b

(* update_gain: out of the old list, to the head of the new one. *)
UpdateGainOp(b, v, g) == InsertOp(EraseOp(b, v), v, b.side[v], g)

----------------------------------------------------------------------------
(* The links of neighbours agree, a list's first vertex is its head, and no *)
(* link leaves the list of one side and gain (check_consistency).           *)
PrevAgrees(b) ==
  \A v \in b.in :
    IF b.prev[v] = None
    THEN b.head[BucketOf(b, v)] = v
    ELSE /\ b.prev[v] \in b.in
         /\ BucketOf(b, b.prev[v]) = BucketOf(b, v)
         /\ b.next[b.prev[v]] = v

NextAgrees(b) ==
  \A v \in b.in :
    b.next[v] # None =>
      /\ b.next[v] \in b.in
      /\ BucketOf(b, b.next[v]) = BucketOf(b, v)
      /\ b.prev[b.next[v]] = v

HeadAgrees(b) ==
  \A k \in DOMAIN b.head :
    b.head[k] # None =>
      /\ b.head[k] \in b.in
      /\ BucketOf(b, b.head[k]) = k
      /\ b.prev[b.head[k]] = None

(* top may be too high, never too low. *)
TopBounds(b) == \A v \in b.in : b.gain[v] <= b.top[b.side[v]]

WellLinked(b) == PrevAgrees(b) /\ NextAgrees(b) /\ HeadAgrees(b) /\ TopBounds(b)

----------------------------------------------------------------------------
(* The value at which max_gain's downward scan from top stops. *)
IsSettled(b, gmax, s, g) ==
  /\ g \in Below(gmax) .. b.top[s]
  /\ g = Below(gmax) \/ b.head[<<s, g>>] # None
  /\ \A k \in Gains(gmax) : g < k /\ k <= b.top[s] => b.head[<<s, k>>] = None

MaxGain(b, gmax, s) == CHOOSE g \in Below(gmax) .. gmax : IsSettled(b, gmax, s, g)

(* max_gain also stores what it found. *)
Settle(b, gmax, s) ==
  [ head |-> b.head, next |-> b.next, prev |-> b.prev, gain |-> b.gain,
    side |-> b.side, in |-> b.in, top |-> [b.top EXCEPT ![s] = MaxGain(b, gmax, s)] ]
=============================================================================
