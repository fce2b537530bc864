------------------------------ MODULE GainQueue ------------------------------
(****************************************************************************)
(* What the gain buckets promise, without their lists: a map from the       *)
(* vertices held to a side and a gain, and two queries that are exact.      *)
(****************************************************************************)
EXTENDS Integers

CONSTANTS Vertex, None, GainBound

VARIABLES
  held,     (* the vertices in the structure *)
  place,    (* <<side, gain>> of each vertex; meaningful for held ones *)
  answer    (* the last query's answer, if the last operation was a query *)

queueVars == <<held, place, answer>>

NoAnswer == [kind |-> "none", value |-> None]

SideOf(v) == place[v][1]
GainOf(v) == place[v][2]

QInit ==
  /\ held = {}
  /\ place = [v \in Vertex |-> <<0, 0>>]
  /\ answer = NoAnswer

QInsert(v, s, g) ==
  /\ v \notin held
  /\ held' = held \cup {v}
  /\ place' = [place EXCEPT ![v] = <<s, g>>]
  /\ answer' = NoAnswer

QErase(v) ==
  /\ held' = held \ {v}
  /\ answer' = NoAnswer
  /\ UNCHANGED place

QUpdate(v, g) ==
  /\ v \in held
  /\ place' = [place EXCEPT ![v] = <<SideOf(v), g>>]
  /\ answer' = NoAnswer
  /\ UNCHANGED held

(* g is the largest gain held on side s, or GainBound's negative minus one. *)
IsMaxGain(s, g) ==
  /\ \A v \in held : SideOf(v) = s => GainOf(v) <= g
  /\ \/ \E v \in held : SideOf(v) = s /\ GainOf(v) = g
     \/ g = 0 - GainBound - 1

QMaxGain(s, g) ==
  /\ IsMaxGain(s, g)
  /\ answer' = [kind |-> "max", value |-> g]
  /\ UNCHANGED <<held, place>>

(* v is a vertex of ok of the largest gain on side s; None when there is none. *)
IsTop(s, ok, v) ==
  LET fit == {u \in held : SideOf(u) = s /\ u \in ok} IN
  \/ fit = {} /\ v = None
  \/ v \in fit /\ \A u \in fit : GainOf(u) <= GainOf(v)

QFindTop(s, ok, v) ==
  /\ IsTop(s, ok, v)
  /\ answer' = [kind |-> "top", value |-> v]
  /\ UNCHANGED <<held, place>>

QForget ==
  /\ answer' = NoAnswer
  /\ UNCHANGED <<held, place>>

QNext ==
  \/ \E v \in Vertex, s \in {0, 1}, g \in (0 - GainBound) .. GainBound : QInsert(v, s, g)
  \/ \E v \in Vertex : QErase(v)
  \/ \E v \in Vertex, g \in (0 - GainBound) .. GainBound : QUpdate(v, g)
  \/ \E s \in {0, 1}, g \in (0 - GainBound - 1) .. GainBound : QMaxGain(s, g)
  \/ \E s \in {0, 1}, ok \in SUBSET Vertex, v \in Vertex \cup {None} : QFindTop(s, ok, v)
  \/ QForget

QSpec == QInit /\ [][QNext]_queueVars
=============================================================================
