----------------------------- MODULE GainBuckets -----------------------------
(****************************************************************************)
(* The class GainBuckets (fmpart/fm_buckets.hpp) as a state machine: any    *)
(* sequence of calls its contract allows.  insert, erase, update_gain and   *)
(* max_gain are one step each; find_top is a scan of one step per vertex    *)
(* read, so that its loop over the lists is in the model.                   *)
(****************************************************************************)
EXTENDS BucketOps

CONSTANT GainBound   (* m_gmax: no legal gain is above it or below its negative *)

ASSUME GainBoundAssumption == GainBound \in Nat

VARIABLES
  b,        (* the arrays *)
  scan,     (* the running find_top: its arguments and its two loop variables *)
  seen,     (* the vertices that find_top has read and refused (history) *)
  answer    (* what the last call returned *)

bucketVars == <<b, scan, seen, answer>>

NoScan   == [on |-> FALSE]
NoAnswer == [kind |-> "none", value |-> None]

BucketInit ==
  /\ b = EmptyBuckets(GainBound)
  /\ scan = NoScan
  /\ seen = {}
  /\ answer = NoAnswer

Idle == ~scan.on

Insert(v, s, g) ==
  /\ Idle
  /\ v \notin b.in
  /\ b' = InsertOp(b, v, s, g)
  /\ answer' = NoAnswer
  /\ UNCHANGED <<scan, seen>>

Erase(v) ==
  /\ Idle
  /\ b' = EraseOp(b, v)
  /\ answer' = NoAnswer
  /\ UNCHANGED <<scan, seen>>

UpdateGain(v, g) ==
  /\ Idle
  /\ v \in b.in
  /\ b' = UpdateGainOp(b, v, g)
  /\ answer' = NoAnswer
  /\ UNCHANGED <<scan, seen>>

AskMaxGain(s) ==
  /\ Idle
  /\ b' = Settle(b, GainBound, s)
  /\ answer' = [kind |-> "max", value |-> MaxGain(b, GainBound, s)]
  /\ UNCHANGED <<scan, seen>>

(* The outer loop of find_top enters the list of gain g. *)
Enter(s, ok, g) ==
  [on |-> TRUE, side |-> s, ok |-> ok, g |-> g,
   at |-> IF g = Below(GainBound) THEN None ELSE b.head[<<s, g>>]]

FindTopStart(s, ok) ==
  /\ Idle
  /\ b' = Settle(b, GainBound, s)
  /\ scan' = Enter(s, ok, MaxGain(b, GainBound, s))
  /\ seen' = {}
  /\ answer' = NoAnswer

FindTopHit ==
  /\ scan.on
  /\ scan.at \in scan.ok
  /\ answer' = [kind |-> "top", value |-> scan.at]
  /\ scan' = NoScan
  /\ seen' = {}
  /\ UNCHANGED b

FindTopSkip ==
  /\ scan.on
  /\ scan.at \in Vertex \ scan.ok
  /\ scan' = [scan EXCEPT !.at = b.next[scan.at]]
  /\ seen' = seen \cup {scan.at}
  /\ UNCHANGED <<b, answer>>

FindTopLower ==
  /\ scan.on
  /\ scan.at = None
  /\ scan.g > Below(GainBound)
  /\ scan' = Enter(scan.side, scan.ok, scan.g - 1)
  /\ UNCHANGED <<b, seen, answer>>

FindTopMiss ==
  /\ scan.on
  /\ scan.g = Below(GainBound)
  /\ answer' = [kind |-> "top", value |-> None]
  /\ scan' = NoScan
  /\ seen' = {}
  /\ UNCHANGED b

BucketNext ==
  \/ \E v \in Vertex, s \in Side, g \in Gains(GainBound) : Insert(v, s, g)
  \/ \E v \in Vertex : Erase(v)
  \/ \E v \in Vertex, g \in Gains(GainBound) : UpdateGain(v, g)
  \/ \E s \in Side : AskMaxGain(s)
  \/ \E s \in Side, ok \in SUBSET Vertex : FindTopStart(s, ok)
  \/ FindTopHit
  \/ FindTopSkip
  \/ FindTopLower
  \/ FindTopMiss

BucketSpec == BucketInit /\ [][BucketNext]_bucketVars

----------------------------------------------------------------------------
ScanType ==
  [ on : {TRUE}, side : Side, ok : SUBSET Vertex,
    g : Below(GainBound) .. GainBound, at : Link ]

AnswerType ==
  {NoAnswer}
    \cup [kind : {"max"}, value : Below(GainBound) .. GainBound]
    \cup [kind : {"top"}, value : Link]

BucketTypeOK ==
  /\ b \in BucketType(GainBound)
  /\ scan \in {NoScan} \cup ScanType
  /\ seen \subseteq Vertex
  /\ answer \in AnswerType

(* Where the scan of find_top is: on a vertex of the list it walks, and it  *)
(* has read and refused the vertices before that one and those of every     *)
(* larger gain, so it can pass over no feasible vertex (fm_buckets.hpp:89). *)
ScanList == <<scan.side, scan.g>>

ScanPosition ==
  scan.on =>
    /\ scan.g = Below(GainBound) => scan.at = None
    /\ scan.at # None => scan.at \in b.in /\ BucketOf(b, scan.at) = ScanList
    /\ \A v \in seen : /\ v \in b.in
                       /\ v \notin scan.ok
                       /\ b.side[v] = scan.side
                       /\ b.gain[v] >= scan.g

ScanCoverage ==
  scan.on =>
    /\ \A v \in b.in : b.side[v] = scan.side /\ b.gain[v] > scan.g => v \in seen
    /\ scan.g # Below(GainBound) =>
         b.head[ScanList] \in seen \cup {scan.at}
    /\ \A v \in seen :
         BucketOf(b, v) = ScanList /\ b.next[v] # None =>
           b.next[v] \in seen \cup {scan.at}

(* The lists are well linked at every step of every call, and the scan of   *)
(* find_top has covered what it has passed (fm_buckets.hpp:33-94).          *)
ListsAndScan == WellLinked(b) /\ ScanPosition /\ ScanCoverage

----------------------------------------------------------------------------
Queue == INSTANCE GainQueue WITH
  held   <- b.in,
  place  <- [v \in Vertex |-> BucketOf(b, v)],
  answer <- answer

(* The structure refines the abstract queue: every answer of max_gain and   *)
(* find_top is exact although top is lowered lazily, and update_gain moves  *)
(* a vertex without losing it (fm_buckets.hpp:65-94).                       *)
RefinesQueue == Queue!QSpec
=============================================================================
