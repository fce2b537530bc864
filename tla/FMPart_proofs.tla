----------------------------- MODULE FMPart_proofs -----------------------------
(****************************************************************************)
(* Safety of FMPart for every hypergraph and configuration.  First without  *)
(* weights: the pin counts are exact between moves, moves are legal and     *)
(* never overload a side, and the undo loop restores the best prefix.  Then *)
(* the sums: the side weights, the cut, the gains in the buckets and the    *)
(* gain of the trail are at every moment what recomputing them would give,  *)
(* so the best prefix is the best of the pass and a run that begins         *)
(* balanced never ends worse.  Last the adapter: what the engine cuts on    *)
(* the hypergraph of a network is what the network's own statistics count.  *)
(*                                                                          *)
(* At the end the gain buckets the engine keeps its vertices in.            *)
(****************************************************************************)
EXTENDS AbcWrapper, GainBuckets, NetTheorems

InPass == pc \in {"pick", "before", "after", "undo", "back"}
Moving == pc \in {"before", "after"}

(* The partition and the side weights after v changes side. *)
Flip(p, v)     == [p EXCEPT ![v] = Other(p[v])]
Carry(w, p, v) == [w EXCEPT ![p[v]] = @ - h.vw[v], ![Other(p[v])] = @ + h.vw[v]]

(* Fixed vertices are where they belong; a moved vertex is locked and not   *)
(* among those moved before.                                                *)
LegalInv ==
  /\ pc # "init" => \A v \in Fixed : part[v] = h.fixed[v]
  /\ pc = "place" => mv.todo \subseteq Vertex \ Fixed
  /\ InPass => Fixed \subseteq locked /\ held \cap locked = {}
  /\ InPass => \A i \in 1 .. Len(trail) : trail[i] \in locked \ Fixed
  /\ \A i, j \in 1 .. Len(trail) : i # j => trail[i] # trail[j]
  /\ pc = "back" => mv.v \notin Fixed
  /\ Moving => mv.v \in locked \ Fixed /\ \A i \in 1 .. Len(trail) : trail[i] # mv.v

(* Half-way through a move, the nets already scanned count the moved vertex *)
(* on its new side.                                                         *)
CountInv ==
  /\ pc = "tally" => \A e \in Net \ mv.todo, s \in Side : cnt[e][s] = CountOf(e, s)
  /\ pc \in {"pass", "pick", "after", "undo", "done"} =>
       \A e \in Net, s \in Side : cnt[e][s] = CountOf(e, s)
  /\ pc \in {"before", "back"} =>
       \A e \in Net, s \in Side :
         cnt[e][s] = IF e \in NetsOf(mv.v) \ mv.todo
                     THEN IF s = part[mv.v] THEN CountOf(e, s) - 1 ELSE CountOf(e, s) + 1
                     ELSE CountOf(e, s)

(* hist is the run of the trail, and the solution is its end, or one move   *)
(* further once the vertex has changed side.                                *)
HistInv ==
  InPass =>
    /\ Len(trail) + 1 <= Len(hist)
    /\ pc \notin {"undo", "back"} => Len(hist) = Len(trail) + 1
    /\ pc = "back" => Len(trail) > best.len /\ mv.v = trail[Len(trail)]
    /\ \A i \in 1 .. Len(trail) :
         /\ hist[i + 1].part = Flip(hist[i].part, trail[i])
         /\ hist[i + 1].wsum = Carry(hist[i].wsum, hist[i].part, trail[i])
    /\ LET end == hist[Len(trail) + 1] IN
         IF pc = "after"
         THEN part = Flip(end.part, mv.v) /\ wsum = Carry(end.wsum, end.part, mv.v)
         ELSE part = end.part /\ wsum = end.wsum

(* The best prefix is one of those made, and balanced if any is. *)
BestInv ==
  InPass =>
    /\ best.len <= Len(trail)
    /\ best.bal = BalancedAt(best.len + 1)
    /\ \A i \in 1 .. Len(hist) : BalancedAt(i) => best.bal

(* The side that the vertex in flight goes to has room for it. *)
FitInv ==
  pc = "before" =>
    wsum[Other(part[mv.v])] + h.vw[mv.v] <= MaxWeight

----------------------------------------------------------------------------
LEMMA InputShape ==
  ASSUME StateType
  PROVE  /\ h.pins \in [Net -> SUBSET Vertex] /\ h.nw \in [Net -> Nat]
         /\ h.vw \in [Vertex -> Nat] /\ h.fixed \in [Vertex -> Side \cup {-1}]
BY InputsAssumption DEF StateType, InputType

(* The vertex chosen is in the buckets and fits on the other side. *)
LEMMA ChoiceFits ==
  ASSUME StateType, NEW v \in MoveChoices
  PROVE  /\ v \in held /\ v \in Vertex
         /\ wsum[Other(part[v])] + h.vw[v] <= MaxWeight
<1>1. v \in Fits(0) \/ v \in Fits(1)
  <2>1. \A s \in Side : PickFrom(s) \subseteq Fits(s)
    BY DEF PickFrom
  <2>2. FirstSide \in Side /\ Other(FirstSide) \in Side /\ 0 \in Side /\ 1 \in Side
    BY DEF FirstSide, Other, Side
  <2>3. v \in PickFrom(0) \/ v \in PickFrom(1) \/ v \in PickFrom(FirstSide)
        \/ v \in PickFrom(Other(FirstSide))
    BY DEF MoveChoices
  <2>4. \A s \in Side : s = 0 \/ s = 1
    BY DEF Side
  <2> HIDE DEF Side
  <2> QED BY <2>1, <2>2, <2>3, <2>4
<1>2. \A s \in Side : v \in Fits(s) =>
        /\ v \in held /\ part[v] = s /\ wsum[Other(s)] + h.vw[v] <= MaxWeight
  BY DEF Fits, OnSide
<1>3. held \subseteq Vertex
  BY DEF StateType
<1> QED BY <1>1, <1>2, <1>3 DEF Side

(* No gain update touches a locked vertex. *)
LEMMA BumpHeld ==
  ASSUME NEW S \in SUBSET Vertex, NEW d, Bump(S, d), StateType
  PROVE  held' \subseteq Vertex /\ (held \cap locked = {} => held' \cap locked = {})
BY DEF Bump, StateType

LEMMA PinsAreVertices ==
  ASSUME StateType, NEW e \in Net, NEW s \in Side
  PROVE  /\ PinsOn(e, s) \in SUBSET Vertex /\ SolePin(e, s) \in SUBSET Vertex
         /\ IsFiniteSet(PinsOn(e, s)) /\ CountOf(e, s) \in Nat
<1>1. PinsOn(e, s) \in SUBSET Vertex
  BY InputShape DEF PinsOn
<1>2. IsFiniteSet(PinsOn(e, s))
  BY <1>1, FiniteAssumption, FS_Subset
<1> QED BY <1>1, <1>2, FS_CardinalityType DEF SolePin, CountOf

(* BeforeNet and AfterNet change the gains of unlocked vertices only. *)
LEMMA ScanHeld ==
  ASSUME StateType, BeforeNet \/ AfterNet
  PROVE  held' \subseteq Vertex /\ (held \cap locked = {} => held' \cap locked = {})
<1>1. \A e \in mv.todo : e \in Net
  BY DEF StateType, NetsOf, BeforeNet, AfterNet
<1>2. \A e \in Net : h.pins[e] \in SUBSET Vertex
  BY InputShape
<1>3. part[mv.v] \in Side /\ Other(part[mv.v]) \in Side
  BY DEF StateType, BeforeNet, AfterNet, Other, Side
<1>4. \E S \in SUBSET Vertex : held' = held \cup (S \ locked)
  <2>1. CASE BeforeNet
    <3>1. PICK e \in mv.todo :
            \/ Bump(h.pins[e], h.nw[e])
            \/ Bump(SolePin(e, Other(part[mv.v])), 0 - h.nw[e])
            \/ UNCHANGED <<gain, held>>
      BY <2>1 DEF BeforeNet
    <3>2. \/ held' = held \cup (h.pins[e] \ locked)
          \/ held' = held \cup (SolePin(e, Other(part[mv.v])) \ locked)
          \/ held' = held \cup ({} \ locked)
      BY <3>1 DEF Bump
    <3>3. SolePin(e, Other(part[mv.v])) \in SUBSET Vertex /\ h.pins[e] \in SUBSET Vertex
      BY <1>1, <1>2, <1>3, PinsAreVertices
    <3> QED BY <3>2, <3>3, Zenon
  <2>2. CASE AfterNet
    <3>1. PICK e \in mv.todo :
            \/ Bump(h.pins[e], 0 - h.nw[e])
            \/ Bump(SolePin(e, Other(part[mv.v])), h.nw[e])
            \/ UNCHANGED <<gain, held>>
      BY <2>2 DEF AfterNet
    <3>2. \/ held' = held \cup (h.pins[e] \ locked)
          \/ held' = held \cup (SolePin(e, Other(part[mv.v])) \ locked)
          \/ held' = held \cup ({} \ locked)
      BY <3>1 DEF Bump
    <3>3. SolePin(e, Other(part[mv.v])) \in SUBSET Vertex /\ h.pins[e] \in SUBSET Vertex
      BY <1>1, <1>2, <1>3, PinsAreVertices
    <3> QED BY <3>2, <3>3, Zenon
  <2> QED BY <2>1, <2>2
<1> QED BY <1>4 DEF StateType

----------------------------------------------------------------------------
(* The types are preserved by every step. *)
LEMMA TypeStep ==
  ASSUME StateType, [Next]_vars
  PROVE  StateType'
<1> USE DEF StateType, Phase, NetsOf, Scanned
<1>0. /\ h.pins \in [Net -> SUBSET Vertex] /\ h.nw \in [Net -> Nat]
      /\ h.vw \in [Vertex -> Nat] /\ h.fixed \in [Vertex -> Side \cup {-1}]
  BY InputShape
<1>1. CASE GivenInit
  BY <1>0, <1>1 DEF GivenInit, counters, passVars, runVars, Fixed
<1>2. CASE RandomInit
  BY <1>0, <1>2 DEF RandomInit, passVars, runVars, Fixed, Side
<1>3. CASE PlaceNext
  BY <1>0, <1>3 DEF PlaceNext, runVars, Side
<1>4. CASE PlaceDone
  BY <1>0, <1>4 DEF PlaceDone, counters, passVars, runVars
<1>5. CASE RebuildCounts
  BY <1>0, <1>5 DEF RebuildCounts, runVars
<1>6. CASE WeighNext
  BY <1>0, <1>6 DEF WeighNext, runVars, Side
<1>7. CASE WeighDone
  BY <1>0, <1>7 DEF WeighDone, runVars
<1>8. CASE TallyNext
  BY <1>0, <1>8, PinsAreVertices DEF TallyNext, runVars
<1>9. CASE TallyDone
  BY <1>0, <1>9 DEF TallyDone, counters, passVars
<1>10. CASE StartPass
  BY <1>0, <1>10 DEF StartPass, counters, Snapshot, SnapshotType, NoMove, Fixed, IsBalanced
<1>11. CASE PassesExhausted
  BY <1>0, <1>11 DEF PassesExhausted, counters, passVars, runVars
<1>12. CASE Pick
  BY <1>0, <1>12, ChoiceFits DEF Pick, counters, runVars
<1>13. CASE NoChoice
  BY <1>0, <1>13 DEF NoChoice, counters, passVars, runVars
<1>14. CASE BeforeNet
  <2>1. PICK e \in mv.todo :
          /\ mv' = Scanned(e)
          /\ cnt' = [cnt EXCEPT ![e] = Shift(@, part[mv.v], Other(part[mv.v]))]
          /\ \E a, c \in {h.nw[e], 0} : cut' = cut + a - c
    BY <1>14 DEF BeforeNet
  <2>2. cut' \in Int /\ h.nw[e] \in Nat
    BY <1>0, <1>14, <2>1 DEF BeforeNet
  <2>3. cnt' \in [Net -> [Side -> Int]]
    BY SMTT(30), <1>14, <2>1 DEF BeforeNet, Shift, Side, Other
  <2> QED BY <1>14, <2>1, <2>2, <2>3, ScanHeld DEF BeforeNet, runVars
<1>15. CASE SwitchSide
  BY <1>0, <1>15 DEF SwitchSide, runVars, Side, Other
<1>16. CASE AfterNet
  <2>1. PICK e \in mv.todo : mv' = Scanned(e)
    BY <1>16 DEF AfterNet
  <2> QED BY <1>16, <2>1, ScanHeld DEF AfterNet, counters, runVars
<1>17. CASE RecordMove
  <2>1. Snapshot \in SnapshotType
    BY <1>17 DEF RecordMove, Snapshot, SnapshotType
  <2>2. mv.v \in Vertex
    BY <1>17 DEF RecordMove
  <2>3. hist' \in Seq(SnapshotType) /\ trail' \in Seq(Vertex)
    BY <1>17, <2>1, <2>2 DEF RecordMove
  <2>4. best'.len \in Nat /\ best'.bal \in BOOLEAN
    <3>1. best' = [bal |-> IsBalanced, cum |-> cum, len |-> Len(trail) + 1] \/ best' = best
      BY <1>17 DEF RecordMove
    <3>2. IsBalanced \in BOOLEAN
      BY DEF IsBalanced
    <3> QED BY <3>1, <3>2
  <2> QED BY <1>17, <2>3, <2>4 DEF RecordMove, counters, runVars
<1>18. CASE UndoLast
  BY <1>0, <1>18 DEF UndoLast, counters, runVars
<1>21. CASE UndoNet
  <2>1. PICK e \in mv.todo :
          /\ mv' = Scanned(e)
          /\ cnt' = [cnt EXCEPT ![e] = Shift(@, part[mv.v], Other(part[mv.v]))]
          /\ cut' = cut + UndoCut(mv.v, e)
    BY <1>21 DEF UndoNet
  <2>2. cut' \in Int
    BY <1>0, <1>21, <2>1 DEF UndoNet, UndoCut
  <2>3. cnt' \in [Net -> [Side -> Int]]
    BY <1>21, <2>1 DEF UndoNet, Shift, Side, Other
  <2> QED BY <1>21, <2>1, <2>2, <2>3 DEF UndoNet, runVars
<1>22. CASE SwitchBack
  BY SMTT(30), <1>0, <1>22 DEF SwitchBack, runVars, Side, Other
<1>19. CASE EndPass
  BY <1>0, <1>19 DEF EndPass, counters, passVars, runVars
<1>20. CASE UNCHANGED vars
  BY <1>20 DEF vars
<1> QED
  BY <1>1, <1>2, <1>3, <1>4, <1>5, <1>6, <1>7, <1>8, <1>9, <1>10, <1>11, <1>12, <1>13,
     <1>14, <1>15, <1>16, <1>17, <1>18, <1>19, <1>20, <1>21, <1>22 DEF Next, Finished

----------------------------------------------------------------------------
(* Every step keeps the moves legal. *)
LEMMA LegalStep ==
  ASSUME StateType, LegalInv, [Next]_vars
  PROVE  LegalInv'
<1> USE DEF StateType, LegalInv, InPass, Moving, Fixed
<1>1. CASE GivenInit
  BY <1>1 DEF GivenInit, counters, passVars, runVars
<1>2. CASE RandomInit
  BY <1>2 DEF RandomInit, runVars
<1>3. CASE PlaceNext
  BY <1>3 DEF PlaceNext, Scanned, runVars
<1>4. CASE PlaceDone \/ RebuildCounts \/ WeighNext \/ WeighDone \/ TallyNext \/ TallyDone
  BY <1>4 DEF PlaceDone, RebuildCounts, WeighNext, WeighDone, TallyNext, TallyDone,
              counters, passVars, runVars
<1>5. CASE StartPass
  BY <1>5 DEF StartPass, counters
<1>6. CASE PassesExhausted \/ EndPass
  BY <1>6 DEF PassesExhausted, EndPass, counters, passVars, runVars
<1>7. CASE Pick
  BY <1>7, ChoiceFits DEF Pick, counters, runVars
<1>8. CASE NoChoice
  BY <1>8 DEF NoChoice, counters, passVars, runVars
<1>9. CASE BeforeNet
  <2>1. mv'.v = mv.v
    BY <1>9 DEF BeforeNet, Scanned
  <2> QED BY <1>9, <2>1, ScanHeld DEF BeforeNet, runVars
<1>10. CASE SwitchSide
  BY <1>10 DEF SwitchSide, runVars
<1>11. CASE AfterNet
  <2>1. mv'.v = mv.v
    BY <1>11 DEF AfterNet, Scanned
  <2> QED BY <1>11, <2>1, ScanHeld DEF AfterNet, counters, runVars
<1>12. CASE RecordMove
  BY <1>12 DEF RecordMove, counters, runVars
<1>13. CASE UndoLast
  <2>1. Len(trail) \in 1 .. Len(trail)
    BY <1>13 DEF UndoLast
  <2>2. trail[Len(trail)] \notin Fixed
    BY <1>13, <2>1 DEF UndoLast
  <2> QED BY <1>13, <2>2 DEF UndoLast, counters, runVars
<1>14. CASE UndoNet
  <2>1. mv'.v = mv.v
    BY <1>14 DEF UndoNet, Scanned
  <2> QED BY <1>14, <2>1 DEF UndoNet, runVars
<1>15. CASE SwitchBack
  <2>1. \A v \in Fixed : part'[v] = part[v]
    BY <1>15 DEF SwitchBack
  <2>2. /\ Len(trail') <= Len(trail)
        /\ \A i \in 1 .. Len(trail') : i \in 1 .. Len(trail) /\ trail'[i] = trail[i]
    BY SMTT(30), <1>15 DEF SwitchBack
  <2>3. UNCHANGED <<h, locked, held>> /\ pc = "back" /\ pc' = "undo"
    BY <1>15 DEF SwitchBack
  <2>4. Fixed' = Fixed
    BY <2>3 DEF Fixed
  <2>5. /\ \A v \in Fixed : part[v] = h.fixed[v]
        /\ Fixed \subseteq locked /\ held \cap locked = {}
        /\ \A i \in 1 .. Len(trail) : trail[i] \in locked \ Fixed
        /\ \A i, j \in 1 .. Len(trail) : i # j => trail[i] # trail[j]
    BY <2>3 DEF LegalInv, InPass
  <2>6. /\ \A i \in 1 .. Len(trail') : trail'[i] \in locked' \ Fixed'
        /\ \A i, j \in 1 .. Len(trail') : i # j => trail'[i] # trail'[j]
    BY SMTT(30), <2>2, <2>3, <2>4, <2>5
  <2>7. \A v \in Fixed' : part'[v] = h'.fixed[v]
    BY <2>1, <2>3, <2>4, <2>5
  <2> QED BY <2>3, <2>4, <2>5, <2>6, <2>7 DEF LegalInv, InPass, Moving
<1>16. CASE UNCHANGED vars
  BY <1>16 DEF vars
<1> QED
  BY <1>1, <1>2, <1>3, <1>4, <1>5, <1>6, <1>7, <1>8, <1>9, <1>10, <1>11, <1>12, <1>13,
     <1>14, <1>15, <1>16 DEF Next, Finished

(* Every step after which a vertex is on its way leaves room for it. *)
LEMMA FitStep ==
  ASSUME StateType, FitInv, [Next]_vars
  PROVE  FitInv'
<1>1. CASE Pick
  <2>1. PICK v \in MoveChoices : mv' = [v |-> v, todo |-> NetsOf(v)]
    BY <1>1 DEF Pick
  <2>2. UNCHANGED <<h, part, wsum>>
    BY <1>1 DEF Pick, counters
  <2>3. wsum[Other(part[v])] + h.vw[v] <= MaxWeight
    BY ChoiceFits
  <2>4. MaxWeight' = MaxWeight
    BY <2>2 DEF MaxWeight, TotalWeight
  <2> QED BY <2>1, <2>2, <2>3, <2>4 DEF FitInv, Other
<1>2. CASE BeforeNet
  <2>1. mv'.v = mv.v /\ UNCHANGED <<h, part, wsum>>
    BY <1>2 DEF BeforeNet, Scanned
  <2>2. MaxWeight' = MaxWeight
    BY <2>1 DEF MaxWeight, TotalWeight
  <2> QED BY <1>2, <2>1, <2>2 DEF FitInv, Other, BeforeNet
<1>3. CASE UNCHANGED vars
  <2>1. UNCHANGED <<h, part, wsum, mv, pc>>
    BY <1>3 DEF vars
  <2>2. MaxWeight' = MaxWeight
    BY <2>1 DEF MaxWeight, TotalWeight
  <2> QED BY <2>1, <2>2 DEF FitInv, Other
<1>4. CASE ~Pick /\ ~BeforeNet /\ ~UNCHANGED vars
  <2>1. pc' # "before"
    BY <1>4 DEF Next, GivenInit, RandomInit, PlaceNext, PlaceDone, RebuildCounts, WeighNext,
                WeighDone, TallyNext, TallyDone, StartPass, PassesExhausted, NoChoice,
                SwitchSide, AfterNet, RecordMove, UndoLast, UndoNet, SwitchBack, EndPass,
                Finished
  <2> QED BY <2>1 DEF FitInv
<1> QED BY <1>1, <1>2, <1>3, <1>4

----------------------------------------------------------------------------
(* A vertex that changes side leaves one side's count of each of its nets   *)
(* and joins the other's.                                                   *)
LEMMA FlipCount ==
  ASSUME NEW p \in [Vertex -> Side], NEW v \in Vertex, NEW P \in SUBSET Vertex,
         NEW s \in Side
  PROVE  LET before == Cardinality({u \in P : p[u] = s})
             after  == Cardinality({u \in P : Flip(p, v)[u] = s})
         IN after = IF v \notin P THEN before
                    ELSE IF s = p[v] THEN before - 1 ELSE before + 1
<1> DEFINE B == {u \in P : p[u] = s}
           A == {u \in P : Flip(p, v)[u] = s}
<1>1. IsFiniteSet(A) /\ IsFiniteSet(B)
  BY FiniteAssumption, FS_Subset
<1>2. Cardinality(A) \in Nat /\ Cardinality(B) \in Nat
  BY <1>1, FS_CardinalityType
<1>3. CASE v \notin P
  <2>1. A = B
    BY <1>3 DEF Flip
  <2> QED BY <1>3, <2>1
<1>4. CASE v \in P /\ s = p[v]
  <2>1. A = B \ {v} /\ v \in B
    BY <1>4 DEF Flip, Other, Side
  <2> HIDE DEF A, B
  <2>a. Cardinality(B \ {v}) = Cardinality(B) - 1
    BY <1>1, <2>1, FS_RemoveElement
  <2>2. Cardinality(A) = Cardinality(B) - 1
    BY <2>1, <2>a
  <2> QED BY <1>4, <2>2 DEF A, B
<1>5. CASE v \in P /\ s # p[v]
  <2>1. A = B \cup {v} /\ v \notin B
    BY <1>5 DEF Flip, Other, Side
  <2> HIDE DEF A, B
  <2>a. Cardinality(B \cup {v}) = Cardinality(B) + 1
    BY <1>1, <2>1, FS_AddElement
  <2>2. Cardinality(A) = Cardinality(B) + 1
    BY <2>1, <2>a
  <2> QED BY <1>5, <2>2 DEF A, B
<1> QED BY <1>3, <1>4, <1>5

LEMMA CountsAfterFlip ==
  ASSUME StateType, NEW v \in Vertex, part' = Flip(part, v), h' = h,
         NEW e \in Net, NEW s \in Side
  PROVE  CountOf(e, s)' = IF e \notin NetsOf(v) THEN CountOf(e, s)
                          ELSE IF s = part[v] THEN CountOf(e, s) - 1
                          ELSE CountOf(e, s) + 1
<1>1. h.pins[e] \in SUBSET Vertex /\ (e \in NetsOf(v) <=> v \in h.pins[e])
  BY InputShape DEF NetsOf
<1>2. part \in [Vertex -> Side]
  BY DEF StateType
<1>3. CountOf(e, s) = Cardinality({u \in h.pins[e] : part[u] = s})
  BY DEF CountOf, PinsOn
<1>4. CountOf(e, s)' = Cardinality({u \in h.pins[e] : Flip(part, v)[u] = s})
  BY DEF CountOf, PinsOn
<1> QED BY <1>1, <1>2, <1>3, <1>4, FlipCount

LEMMA CountsKept ==
  ASSUME UNCHANGED <<h, part>>
  PROVE  /\ \A e, s : CountOf(e, s)' = CountOf(e, s)
         /\ \A v : NetsOf(v)' = NetsOf(v)
BY DEF CountOf, PinsOn, NetsOf

(* Shifting the counts of net e is what the scan's half-way formula says. *)
LEMMA ShiftStep ==
  ASSUME StateType, CountInv, pc \in {"before", "back"}, NEW e \in mv.todo,
         UNCHANGED <<h, part, pc>>, mv' = Scanned(e),
         cnt' = [cnt EXCEPT ![e] = Shift(@, part[mv.v], Other(part[mv.v]))]
  PROVE  CountInv'
<1>1. /\ mv'.v = mv.v /\ mv'.todo = mv.todo \ {e}
      /\ mv.v \in Vertex /\ part[mv.v] \in Side
  BY DEF Scanned, StateType
<1>2. e \in Net /\ e \in NetsOf(mv.v)
  BY DEF StateType, NetsOf
<1>3. ASSUME NEW f \in Net, NEW s \in Side
      PROVE  cnt'[f][s] = IF f \in NetsOf(mv.v) \ mv'.todo
                          THEN IF s = part[mv.v] THEN CountOf(f, s) - 1
                               ELSE CountOf(f, s) + 1
                          ELSE CountOf(f, s)
  <2>1. CASE f = e
    <3>1. cnt[e][s] = CountOf(e, s)
      BY <1>2 DEF CountInv
    <3>2. cnt[e] \in [Side -> Int] /\ cnt \in [Net -> [Side -> Int]]
      BY <1>2 DEF StateType
    <3>3. cnt'[e][s] = IF s = part[mv.v] THEN cnt[e][s] - 1 ELSE cnt[e][s] + 1
      BY <1>1, <1>2, <3>2 DEF Shift, Other, Side
    <3> QED BY <2>1, <1>1, <1>2, <3>1, <3>3
  <2>2. CASE f # e
    <3>1. cnt'[f] = cnt[f]
      BY <2>2 DEF StateType
    <3> QED BY <2>2, <3>1, <1>1 DEF CountInv
  <2> QED BY <2>1, <2>2
<1> QED BY <1>1, <1>3, CountsKept DEF CountInv

(* Once every net is shifted, the vertex's change of side makes the counts  *)
(* exact again.                                                             *)
LEMMA SwitchStep ==
  ASSUME StateType, CountInv, pc \in {"before", "back"}, mv.todo = {},
         UNCHANGED <<h, cnt>>, part' = Flip(part, mv.v), pc' \in {"after", "undo"}
  PROVE  CountInv'
<1>1. mv.v \in Vertex
  BY DEF StateType
<1>2. ASSUME NEW e \in Net, NEW s \in Side
      PROVE  cnt[e][s] = CountOf(e, s)'
  <2>1. cnt[e][s] = IF e \in NetsOf(mv.v)
                    THEN IF s = part[mv.v] THEN CountOf(e, s) - 1 ELSE CountOf(e, s) + 1
                    ELSE CountOf(e, s)
    BY DEF CountInv
  <2> QED BY <1>1, <2>1, CountsAfterFlip
<1> QED BY <1>2 DEF CountInv

LEMMA CountStep ==
  ASSUME StateType, CountInv, [Next]_vars
  PROVE  CountInv'
<1>1. CASE TallyNext
  <2>1. PICK e \in mv.todo : /\ cnt' = [cnt EXCEPT ![e] = [s \in Side |-> CountOf(e, s)]]
                             /\ mv' = Scanned(e)
    BY <1>1 DEF TallyNext
  <2>2. UNCHANGED <<h, part, pc>> /\ pc = "tally"
    BY <1>1 DEF TallyNext
  <2>3. cnt \in [Net -> [Side -> Int]] /\ e \in Net
    BY <2>2 DEF StateType
  <2>4. \A f \in Net \ mv'.todo, s \in Side : cnt'[f][s] = CountOf(f, s)
    BY <2>1, <2>2, <2>3 DEF CountInv, Scanned
  <2> QED BY <2>2, <2>4, CountsKept DEF CountInv
<1>2. CASE WeighDone
  BY <1>2 DEF WeighDone, CountInv
<1>3. CASE TallyDone \/ StartPass \/ PassesExhausted \/ NoChoice \/ AfterNet \/ RecordMove
           \/ EndPass \/ UNCHANGED vars
  <2>1. UNCHANGED <<h, part, cnt>>
    BY <1>3 DEF TallyDone, StartPass, PassesExhausted, NoChoice, AfterNet, RecordMove,
                EndPass, counters, vars
  <2>2. /\ pc' \in {"pass", "pick", "after", "undo", "done"}
        /\ \/ pc = "tally" /\ mv.todo = {}
           \/ pc \in {"pass", "pick", "after", "undo", "done"}
        \/ UNCHANGED <<pc, mv>>
    BY <1>3 DEF TallyDone, StartPass, PassesExhausted, NoChoice, AfterNet, RecordMove,
                EndPass, vars
  <2> QED BY <2>1, <2>2, CountsKept DEF CountInv
<1>4. CASE Pick \/ UndoLast
  <2>1. UNCHANGED <<h, part, cnt>> /\ mv'.todo = NetsOf(mv'.v)
    BY <1>4 DEF Pick, UndoLast, counters
  <2>2. pc \in {"pick", "undo"} /\ pc' \in {"before", "back"}
    BY <1>4 DEF Pick, UndoLast
  <2> QED BY <2>1, <2>2, CountsKept DEF CountInv
<1>5. CASE BeforeNet
  <2>1. PICK e \in mv.todo :
          /\ mv' = Scanned(e)
          /\ cnt' = [cnt EXCEPT ![e] = Shift(@, part[mv.v], Other(part[mv.v]))]
    BY <1>5 DEF BeforeNet
  <2>2. UNCHANGED <<h, part, pc>> /\ pc \in {"before", "back"}
    BY <1>5 DEF BeforeNet
  <2> QED BY <2>1, <2>2, ShiftStep
<1>6. CASE UndoNet
  <2>1. PICK e \in mv.todo :
          /\ mv' = Scanned(e)
          /\ cnt' = [cnt EXCEPT ![e] = Shift(@, part[mv.v], Other(part[mv.v]))]
    BY <1>6 DEF UndoNet
  <2>2. UNCHANGED <<h, part, pc>> /\ pc \in {"before", "back"}
    BY <1>6 DEF UndoNet
  <2> QED BY <2>1, <2>2, ShiftStep
<1>7. CASE SwitchSide
  <2>1. /\ UNCHANGED <<h, cnt>> /\ part' = Flip(part, mv.v) /\ pc' \in {"after", "undo"}
        /\ pc \in {"before", "back"} /\ mv.todo = {}
    BY <1>7 DEF SwitchSide, Flip
  <2> QED BY <2>1, SwitchStep
<1>8. CASE SwitchBack
  <2>1. /\ UNCHANGED <<h, cnt>> /\ part' = Flip(part, mv.v) /\ pc' \in {"after", "undo"}
        /\ pc \in {"before", "back"} /\ mv.todo = {}
    BY <1>8 DEF SwitchBack, Flip
  <2> QED BY <2>1, SwitchStep
<1>9. CASE GivenInit \/ RandomInit \/ PlaceNext \/ PlaceDone \/ RebuildCounts \/ WeighNext
  <2>1. pc' \in {"count", "place", "weigh"}
    BY <1>9 DEF GivenInit, RandomInit, PlaceNext, PlaceDone, RebuildCounts, WeighNext
  <2> QED BY <2>1 DEF CountInv
<1> QED
  BY <1>1, <1>2, <1>3, <1>4, <1>5, <1>6, <1>7, <1>8, <1>9 DEF Next, Finished

----------------------------------------------------------------------------
(* Moving a vertex back undoes a move. *)
LEMMA FlipTwice ==
  ASSUME NEW p \in [Vertex -> Side], NEW w \in [Side -> Int], NEW v \in Vertex,
         h.vw[v] \in Int
  PROVE  /\ Flip(Flip(p, v), v) = p
         /\ Carry(Carry(w, p, v), Flip(p, v), v) = w
<1>1. p[v] \in Side /\ Other(p[v]) \in Side /\ Other(p[v]) # p[v] /\ Other(Other(p[v])) = p[v]
  BY DEF Other, Side
<1>2. Flip(p, v)[v] = Other(p[v])
  BY DEF Flip
<1>3. Flip(Flip(p, v), v) = p
  BY <1>1, <1>2 DEF Flip
<1>4. Carry(Carry(w, p, v), Flip(p, v), v) = w
  <2>1. Carry(w, p, v) \in [Side -> Int]
    BY <1>1 DEF Carry
  <2>2. \A s \in Side : Carry(Carry(w, p, v), Flip(p, v), v)[s] = w[s]
    BY <1>1, <1>2 DEF Carry
  <2> QED BY <1>1, <2>1, <2>2 DEF Carry
<1> QED BY <1>3, <1>4

LEMMA BoundKept ==
  ASSUME h' = h
  PROVE  MaxWeight' = MaxWeight
BY DEF MaxWeight, TotalWeight

(* The undo loop drops the last vertex of the trail. *)
LEMMA DropLast ==
  ASSUME NEW S, NEW s \in Seq(S), NEW n \in Nat, n > 0, Len(s) = n
  PROVE  /\ Len(SubSeq(s, 1, n - 1)) = n - 1
         /\ \A i \in 1 .. (n - 1) : SubSeq(s, 1, n - 1)[i] = s[i]
<1>1. Len(SubSeq(s, 1, n - 1)) = n - 1
  BY n - 1 \in Nat, n - 1 <= Len(s)
<1>2. \A i \in 1 .. (n - 1) : SubSeq(s, 1, n - 1)[i] = s[i]
  BY n - 1 \in Nat, n - 1 <= Len(s)
<1> QED BY <1>1, <1>2

(* Every step keeps hist the run of the trail. *)
LEMMA HistStep ==
  ASSUME StateType, HistInv, BestInv, [Next]_vars
  PROVE  HistInv'
<1> USE DEF InPass
<1>1. CASE StartPass
  <2>1. hist' = <<Snapshot>> /\ trail' = <<>> /\ pc' = "pick" /\ UNCHANGED <<h, part, wsum>>
    BY <1>1 DEF StartPass, counters
  <2>2. Len(hist') = 1 /\ Len(trail') = 0 /\ hist'[1] = Snapshot
    BY <2>1
  <2> QED BY <2>1, <2>2 DEF HistInv, Snapshot
<1>2. CASE Pick \/ NoChoice \/ BeforeNet \/ UndoNet \/ AfterNet \/ UNCHANGED vars
  <2>1. UNCHANGED <<h, part, wsum, trail, hist, best>>
    BY <1>2 DEF Pick, NoChoice, BeforeNet, UndoNet, AfterNet, vars, counters, passVars
  <2>2. \/ pc \in {"pick", "before"} /\ pc' \in {"before", "undo"}
        \/ UNCHANGED pc /\ UNCHANGED mv.v
    BY <1>2 DEF Pick, NoChoice, BeforeNet, UndoNet, AfterNet, vars, counters, passVars, Scanned
  <2> QED BY <2>1, <2>2 DEF HistInv, Flip, Carry
<1>3. CASE SwitchSide
  <2>1. /\ part' = Flip(part, mv.v) /\ wsum' = Carry(wsum, part, mv.v)
        /\ mv'.v = mv.v /\ UNCHANGED <<h, trail, hist>> /\ pc = "before" /\ pc' = "after"
    BY <1>3 DEF SwitchSide, Flip, Carry
  <2>2. part = hist[Len(trail) + 1].part /\ wsum = hist[Len(trail) + 1].wsum
    BY <2>1 DEF HistInv
  <2> QED BY <2>1, <2>2 DEF HistInv, Flip, Carry
<1>4. CASE RecordMove
  <2>1. /\ hist' = Append(hist, Snapshot) /\ trail' = Append(trail, mv.v)
        /\ UNCHANGED <<h, part, wsum>> /\ pc = "after" /\ pc' = "pick"
    BY <1>4 DEF RecordMove, counters
  <2>2. hist \in Seq(SnapshotType) /\ trail \in Seq(Vertex) /\ mv.v \in Vertex
        /\ Len(hist) = Len(trail) + 1
    BY <2>1 DEF StateType, HistInv
  <2>3. /\ Len(hist') = Len(trail') + 1 /\ Len(trail') = Len(trail) + 1
        /\ \A i \in 1 .. Len(trail) : hist'[i] = hist[i] /\ hist'[i + 1] = hist[i + 1]
                                       /\ trail'[i] = trail[i]
        /\ trail'[Len(trail')] = mv.v
        /\ hist'[Len(trail')] = hist[Len(trail) + 1]
        /\ hist'[Len(trail') + 1] = Snapshot
    BY <2>1, <2>2
  <2>4. /\ part = Flip(hist[Len(trail) + 1].part, mv.v)
        /\ wsum = Carry(hist[Len(trail) + 1].wsum, hist[Len(trail) + 1].part, mv.v)
    BY <2>1 DEF HistInv
  <2>5. Snapshot.part = part /\ Snapshot.wsum = wsum
    BY DEF Snapshot
  <2>6. ASSUME NEW i \in 1 .. Len(trail')
        PROVE  /\ hist'[i + 1].part = Flip(hist'[i].part, trail'[i])
               /\ hist'[i + 1].wsum = Carry(hist'[i].wsum, hist'[i].part, trail'[i])
    <3>1. CASE i = Len(trail')
      BY <3>1, <2>3, <2>4, <2>5
    <3>2. CASE i \in 1 .. Len(trail)
      BY <3>2, <2>1, <2>3 DEF HistInv
    <3> QED BY <2>2, <2>3, <3>1, <3>2
  <2>7. part' = hist'[Len(trail') + 1].part /\ wsum' = hist'[Len(trail') + 1].wsum
    BY <2>1, <2>3, <2>5
  <2>8. Len(hist') = Len(trail') + 1 /\ Len(trail') + 1 <= Len(hist')
    BY <2>2, <2>3
  <2>9. pc' = "pick" /\ h' = h
    BY <2>1
  <2> QED BY <2>6, <2>7, <2>8, <2>9 DEF HistInv, Flip, Carry
<1>5. CASE UndoLast
  <2>1. /\ UNCHANGED <<h, part, wsum, trail, hist, best>> /\ pc = "undo" /\ pc' = "back"
        /\ mv'.v = trail[Len(trail)] /\ Len(trail) > best.len
    BY <1>5 DEF UndoLast, counters
  <2> QED BY <2>1 DEF HistInv, Flip, Carry
<1>6. CASE SwitchBack
  <2> DEFINE n == Len(trail)
  <2>1. /\ part' = Flip(part, mv.v) /\ wsum' = Carry(wsum, part, mv.v)
        /\ trail' = SubSeq(trail, 1, n - 1) /\ UNCHANGED <<h, hist, best>>
        /\ pc = "back" /\ pc' = "undo"
    BY <1>6 DEF SwitchBack, Flip, Carry
  <2>2. /\ hist \in Seq(SnapshotType) /\ trail \in Seq(Vertex) /\ n \in Nat
        /\ n > best.len /\ best.len \in Nat /\ mv.v = trail[n] /\ n + 1 <= Len(hist)
    BY <2>1 DEF StateType, HistInv
  <2>3. n \in 1 .. n /\ n \in 1 .. Len(hist)
    BY <2>2
  <2>4. /\ part = Flip(hist[n].part, mv.v)
        /\ wsum = Carry(hist[n].wsum, hist[n].part, mv.v)
    BY <2>1, <2>2, <2>3 DEF HistInv
  <2>5. /\ hist[n].part \in [Vertex -> Side] /\ hist[n].wsum \in [Side -> Int]
        /\ mv.v \in Vertex /\ h.vw[mv.v] \in Int
    <3>1. hist[n] \in SnapshotType
      BY <2>2, <2>3
    <3>2. mv.v \in Vertex
      BY <2>2, <2>3
    <3> QED BY <3>1, <3>2, InputShape DEF SnapshotType
  <2>6. part' = hist[n].part /\ wsum' = hist[n].wsum
    BY <2>1, <2>4, <2>5, FlipTwice
  <2>7. Len(trail') = n - 1 /\ \A i \in 1 .. Len(trail') : i \in 1 .. n /\ trail'[i] = trail[i]
    <3>1. n - 1 \in Nat /\ n - 1 <= n
      BY <2>2
    <3>2. n > 0 /\ Len(trail) = n
      BY <2>2
    <3>3. /\ Len(SubSeq(trail, 1, n - 1)) = n - 1
          /\ \A i \in 1 .. (n - 1) : SubSeq(trail, 1, n - 1)[i] = trail[i]
      BY <2>2, <3>2, DropLast
    <3> QED BY <2>1, <3>1, <3>3
  <2>8. Len(trail') + 1 = n /\ Len(trail') + 1 <= Len(hist')
    BY <2>1, <2>2, <2>7
  <2>9. ASSUME NEW i \in 1 .. Len(trail')
        PROVE  /\ hist'[i + 1].part = Flip(hist'[i].part, trail'[i])
               /\ hist'[i + 1].wsum = Carry(hist'[i].wsum, hist'[i].part, trail'[i])
    BY <2>1, <2>7 DEF HistInv
  <2> HIDE DEF n
  <2> QED BY <2>1, <2>6, <2>8, <2>9 DEF HistInv, Flip, Carry
<1>7. CASE GivenInit \/ RandomInit \/ PlaceNext \/ PlaceDone \/ RebuildCounts \/ WeighNext
           \/ WeighDone \/ TallyNext \/ TallyDone \/ PassesExhausted \/ EndPass
  <2>1. pc' \notin {"pick", "before", "after", "undo", "back"}
    BY <1>7 DEF GivenInit, RandomInit, PlaceNext, PlaceDone, RebuildCounts, WeighNext,
                WeighDone, TallyNext, TallyDone, PassesExhausted, EndPass
  <2> QED BY <2>1 DEF HistInv
<1> QED
  BY <1>1, <1>2, <1>3, <1>4, <1>5, <1>6, <1>7 DEF Next, Finished

(* Every step keeps the best prefix balanced if any prefix is. *)
LEMMA BestStep ==
  ASSUME StateType, HistInv, BestInv, [Next]_vars
  PROVE  BestInv'
<1> USE DEF InPass
<1>1. CASE StartPass
  <2>1. /\ hist' = <<Snapshot>> /\ trail' = <<>> /\ h' = h
        /\ best' = [bal |-> IsBalanced, cum |-> 0, len |-> 0]
    BY <1>1 DEF StartPass
  <2>2. Len(hist') = 1 /\ Len(trail') = 0 /\ hist'[1] = Snapshot /\ Snapshot.wsum = wsum
    BY <2>1 DEF Snapshot
  <2>3. BalancedAt(1)' <=> IsBalanced
    BY <2>1, <2>2, BoundKept DEF BalancedAt, IsBalanced, Side
  <2>4. best'.bal = IsBalanced /\ best'.len = 0 /\ IsBalanced \in BOOLEAN
        /\ BalancedAt(1)' \in BOOLEAN
    BY <2>1 DEF IsBalanced, BalancedAt
  <2>5. best'.len <= Len(trail') /\ best'.len + 1 = 1
    BY <2>2, <2>4
  <2>6. \A i \in 1 .. Len(hist') : i = 1
    BY <2>2
  <2> QED BY <2>3, <2>4, <2>5, <2>6 DEF BestInv
<1>2. CASE RecordMove
  <2>0. PICK n : n = Len(trail) + 1
    OBVIOUS
  <2>1. /\ hist' = Append(hist, Snapshot) /\ trail' = Append(trail, mv.v)
        /\ UNCHANGED <<h, wsum>> /\ pc = "after"
        /\ best' = IF Better(IsBalanced, cum)
                   THEN [bal |-> IsBalanced, cum |-> cum, len |-> n] ELSE best
    BY <1>2, <2>0 DEF RecordMove, counters
  <2>2. /\ hist \in Seq(SnapshotType) /\ trail \in Seq(Vertex) /\ Len(hist) = n
        /\ mv.v \in Vertex /\ best.len \in Nat /\ best.bal \in BOOLEAN
    BY <2>0, <2>1 DEF StateType, HistInv
  <2>3. /\ Len(hist') = n + 1 /\ Len(trail') = n /\ n \in Nat
        /\ \A i \in 1 .. n : hist'[i] = hist[i]
        /\ hist'[n + 1].wsum = wsum
    BY <2>0, <2>1, <2>2 DEF Snapshot
  <2>4. \A i \in 1 .. n : BalancedAt(i)' = BalancedAt(i)
    BY <2>1, <2>3, BoundKept DEF BalancedAt
  <2>5. BalancedAt(n + 1)' = IsBalanced
    BY <2>1, <2>3, BoundKept DEF BalancedAt, IsBalanced, Side
  <2>6. /\ best.len + 1 \in 1 .. n /\ best.bal = BalancedAt(best.len + 1)
        /\ \A i \in 1 .. n : BalancedAt(i) => best.bal
    BY <2>0, <2>1, <2>2, <2>3 DEF BestInv
  <2>7. CASE Better(IsBalanced, cum)
    <3>1. best'.bal = IsBalanced /\ best'.len = n
      BY <2>1, <2>7
    <3>2. best.bal => IsBalanced
      BY <2>7 DEF Better, IsBalanced
    <3>3. \A i \in 1 .. n + 1 : BalancedAt(i)' => best'.bal
      <4>1. \A i \in 1 .. n + 1 : i \in 1 .. n \/ i = n + 1
        BY <2>3
      <4> QED BY <2>4, <2>5, <2>6, <3>1, <3>2, <4>1
    <3>4. best'.len <= Len(trail') /\ best'.len + 1 = n + 1
      BY <2>3, <3>1
    <3>5. (BalancedAt(best.len + 1))' = BalancedAt(n + 1)'
      BY <3>4 DEF BalancedAt
    <3>6. (best.bal = BalancedAt(best.len + 1))'
      BY <2>5, <3>1, <3>5
    <3> QED BY <2>3, <3>3, <3>4, <3>6 DEF BestInv
  <2>8. CASE ~Better(IsBalanced, cum)
    <3>1. best' = best
      BY <2>1, <2>8
    <3>2. IsBalanced => best.bal
      BY <2>8 DEF Better
    <3>3. \A i \in 1 .. n + 1 : BalancedAt(i)' => best'.bal
      <4>1. \A i \in 1 .. n + 1 : i \in 1 .. n \/ i = n + 1
        BY <2>3
      <4> QED BY <2>4, <2>5, <2>6, <3>1, <3>2, <4>1
    <3>4. best'.len <= Len(trail')
      BY <2>2, <2>3, <2>6, <3>1
    <3>5. (best.bal = BalancedAt(best.len + 1))'
      BY <2>4, <2>6, <3>1 DEF BalancedAt
    <3> QED BY <2>3, <3>3, <3>4, <3>5 DEF BestInv
  <2> QED BY <2>7, <2>8
<1>3. CASE SwitchBack
  <2>1. /\ trail' = SubSeq(trail, 1, Len(trail) - 1) /\ UNCHANGED <<h, hist, best>>
        /\ pc = "back"
    BY <1>3 DEF SwitchBack
  <2>2. /\ trail \in Seq(Vertex) /\ Len(trail) > best.len /\ best.len \in Nat
        /\ Len(trail) \in Nat
    BY <2>1 DEF StateType, HistInv
  <2>3. Len(trail) - 1 \in Nat /\ Len(trail) - 1 <= Len(trail)
    BY <2>2
  <2>a. Len(trail) > 0
    BY <2>2
  <2>4. Len(trail') = Len(trail) - 1
    BY <2>1, <2>2, <2>a, DropLast
  <2>5. best'.len <= Len(trail')
    BY <2>1, <2>2, <2>4
  <2>6. \A i : BalancedAt(i)' = BalancedAt(i)
    BY <2>1, BoundKept DEF BalancedAt
  <2> QED BY <2>1, <2>5, <2>6 DEF BestInv
<1>4. CASE Pick \/ NoChoice \/ BeforeNet \/ SwitchSide \/ AfterNet \/ UndoLast \/ UndoNet
           \/ UNCHANGED vars
  <2>1. UNCHANGED <<h, hist, best, trail>> /\ (pc' \in {"pick", "before", "after", "undo", "back"}
                                              => InPass)
    BY <1>4 DEF Pick, NoChoice, BeforeNet, SwitchSide, AfterNet, UndoLast, UndoNet, vars,
                counters, passVars
  <2>2. \A i : BalancedAt(i)' = BalancedAt(i)
    BY <2>1, BoundKept DEF BalancedAt
  <2> QED BY <2>1, <2>2 DEF BestInv
<1>5. CASE GivenInit \/ RandomInit \/ PlaceNext \/ PlaceDone \/ RebuildCounts \/ WeighNext
           \/ WeighDone \/ TallyNext \/ TallyDone \/ PassesExhausted \/ EndPass
  <2>1. pc' \notin {"pick", "before", "after", "undo", "back"}
    BY <1>5 DEF GivenInit, RandomInit, PlaceNext, PlaceDone, RebuildCounts, WeighNext,
                WeighDone, TallyNext, TallyDone, PassesExhausted, EndPass
  <2> QED BY <2>1 DEF BestInv
<1> QED
  BY <1>1, <1>2, <1>3, <1>4, <1>5 DEF Next, Finished

----------------------------------------------------------------------------
(* The inductive invariant. *)
IInv == StateType /\ LegalInv /\ CountInv /\ HistInv /\ BestInv /\ FitInv

LEMMA InitIInv == Init => IInv
<1> SUFFICES ASSUME Init PROVE IInv
  OBVIOUS
<1>1. StateType
  BY DEF Init, StateType, Phase, NoMove, Side
<1>2. pc = "init" /\ trail = <<>>
  BY DEF Init
<1>3. LegalInv
  BY <1>2 DEF LegalInv, InPass, Moving
<1> QED
  BY <1>1, <1>2, <1>3 DEF IInv, CountInv, HistInv, BestInv, FitInv, InPass

LEMMA StepIInv == IInv /\ [Next]_vars => IInv'
BY TypeStep, LegalStep, CountStep, HistStep, BestStep, FitStep DEF IInv

LEMMA IInvAlways == Spec => []IInv
BY InitIInv, StepIInv, PTL DEF Spec

(* Between moves the pin counts are those of the partition, whatever the    *)
(* hypergraph, the fixed vertices and the moves made so far                 *)
(* (fmpart.hpp:254-272, 302-313).                                           *)
THEOREM CountsAreExact == Spec => []PinCountsExact
<1>1. IInv => PinCountsExact
  BY DEF IInv, CountInv, PinCountsExact, Settled
<1> QED BY <1>1, IInvAlways, PTL

(* Fixed vertices never move and no vertex moves twice in a pass            *)
(* (fmpart.hpp:239-243, 380-388).                                           *)
THEOREM MovesLegal == Spec => []MovesAreLegal
<1>1. IInv => MovesAreLegal
  BY DEF IInv, LegalInv, MovesAreLegal
<1> QED BY <1>1, IInvAlways, PTL

(* When the undo loop is over the solution is the best prefix's. *)
LEMMA EndOfPass ==
  ASSUME IInv, PassEnd
  PROVE  /\ best.len + 1 \in 1 .. Len(hist)
         /\ part = hist[best.len + 1].part /\ wsum = hist[best.len + 1].wsum
         /\ best.bal <=> IsBalanced
         /\ \A i \in 1 .. Len(hist) : BalancedAt(i) => IsBalanced
<1>1. /\ pc = "undo" /\ Len(trail) = best.len /\ best.len \in Nat /\ best.bal \in BOOLEAN
      /\ Len(trail) + 1 <= Len(hist) /\ Len(hist) \in Nat
  BY DEF IInv, PassEnd, HistInv, InPass, StateType
<1>2. part = hist[best.len + 1].part /\ wsum = hist[best.len + 1].wsum
  BY <1>1 DEF IInv, HistInv, InPass
<1>3. BalancedAt(best.len + 1) <=> IsBalanced
  BY <1>2 DEF BalancedAt, IsBalanced, Side
<1>4. \A i \in 1 .. Len(hist) : BalancedAt(i) => best.bal
  BY <1>1 DEF IInv, BestInv, InPass
<1>5. best.bal = BalancedAt(best.len + 1)
  BY <1>1 DEF IInv, BestInv, InPass
<1> QED BY <1>1, <1>2, <1>3, <1>4, <1>5

(* After the undo loop the solution is exactly the best prefix's, and is    *)
(* balanced if any prefix of the pass was (fmpart.hpp:435-448).             *)
THEOREM BestPrefixRestored == Spec => []PrefixRestored
<1>1. IInv => PrefixRestored
  BY EndOfPass DEF PrefixRestored
<1> QED BY <1>1, IInvAlways, PTL

(* No forward move overloads a side, or loads an overweight side further    *)
(* (fmpart.hpp:227-234, 396-421).                                           *)
THEOREM NoSideOverloaded == Spec => OverweightShrinks
<1>1. IInv /\ [Next]_vars =>
        [pc = "before" => \A s \in Side : wsum'[s] <= MaxWeight \/ wsum'[s] <= wsum[s]]_vars
  <2> SUFFICES ASSUME IInv, Next, pc = "before", NEW s \in Side
               PROVE  wsum'[s] <= MaxWeight \/ wsum'[s] <= wsum[s]
    BY DEF vars
  <2>1. /\ mv.v \in Vertex /\ part[mv.v] \in Side /\ wsum \in [Side -> Int]
        /\ h.vw[mv.v] \in Nat
    BY InputShape DEF IInv, StateType
  <2>2. CASE SwitchSide
    <3>1. /\ Other(part[mv.v]) \in Side
          /\ (s = part[mv.v] \/ s = Other(part[mv.v]))
          /\ Other(part[mv.v]) # part[mv.v]
      BY <2>1 DEF Other, Side
    <3>2. wsum' = [wsum EXCEPT ![part[mv.v]] = @ - h.vw[mv.v],
                               ![Other(part[mv.v])] = @ + h.vw[mv.v]]
      BY <2>2 DEF SwitchSide
    <3>3. CASE s = part[mv.v]
      BY <2>1, <3>1, <3>2, <3>3
    <3>4. CASE s = Other(part[mv.v])
      <4>1. wsum'[s] = wsum[s] + h.vw[mv.v]
        BY <2>1, <3>1, <3>2, <3>4
      <4> QED BY <3>4, <4>1 DEF IInv, FitInv
    <3> QED BY <3>1, <3>3, <3>4
  <2>3. CASE ~SwitchSide
    <3>1. wsum' = wsum
      BY <2>3 DEF Next, GivenInit, RandomInit, PlaceNext, PlaceDone, RebuildCounts, WeighNext,
                WeighDone, TallyNext, TallyDone, StartPass, PassesExhausted, Pick, NoChoice,
                BeforeNet, AfterNet, RecordMove, UndoLast, UndoNet, SwitchBack, EndPass,
                Finished, vars
    <3> QED BY <2>1, <3>1
  <2> QED BY <2>2, <2>3
<1> QED BY <1>1, IInvAlways, PTL DEF Spec, OverweightShrinks

----------------------------------------------------------------------------
(* The cut of a partition, and the gain u has from the nets of M: a net not *)
(* half-way through a scan counts for what uncutting it would save.         *)
CutWith(p)     == SumFunctionOnSet(h.nw,
                    {e \in Net : \A s \in Side : {v \in h.pins[e] : p[v] = s} # {}})
GainOver(u, M) ==
  SumFunctionOnSet(h.nw, {e \in M : cnt[e][part[u]] = 1})
    - SumFunctionOnSet(h.nw, {e \in M : cnt[e][Other(part[u])] = 0})

Crossing == {e \in Net : cnt[e][0] > 0 /\ cnt[e][1] > 0}

(* The nets of the moving vertex between its two scans: whatever side an    *)
(* unlocked pin is on, they give it no gain.                                *)
Between == IF pc = "before" THEN NetsOf(mv.v) \ mv.todo
           ELSE IF pc = "after" THEN mv.todo ELSE {}

Early == pc \in {"init", "place", "count", "weigh"}

EarlyInv ==
  /\ Early => cut = 0 /\ \A e \in Net, s \in Side : cnt[e][s] = 0
  /\ pc = "tally" => \A e \in mv.todo, s \in Side : cnt[e][s] = 0

WeightInv ==
  /\ wsum \in [Side -> Nat]
  /\ pc = "weigh" => \A s \in Side :
       wsum[s] = SumFunctionOnSet(h.vw, {v \in Vertex \ mv.todo : part[v] = s})
  /\ ~Early => \A s \in Side : wsum[s] = WeightOf(s)

CutInv == cut = SumFunctionOnSet(h.nw, Crossing)

GainInv ==
  /\ gain \in [Vertex -> Int]
  /\ \A v \in held : 0 - GMax <= gain[v] /\ gain[v] <= GMax
  /\ pc \in {"pick", "before", "after"} =>
       /\ held = Vertex \ locked
       /\ \A u \in held : gain[u] = GainOver(u, NetsOf(u) \ Between)

CumInv ==
  /\ cum \in Int
  /\ pc \in {"pick", "after"} => cum = hist[1].cut - cut
  /\ pc = "before" => cum = hist[1].cut - cut + GainOver(mv.v, mv.todo)

HistCutInv ==
  /\ best.cum \in Int
  /\ InPass =>
       /\ \A i \in 1 .. Len(hist) : hist[i].cut = CutWith(hist[i].part)
       /\ best.cum = hist[1].cut - hist[best.len + 1].cut
       /\ \A i \in 1 .. Len(hist) :
            (best.bal /\ ~BalancedAt(i)) \/ hist[1].cut - hist[i].cut <= best.cum

RunInv ==
  /\ pass \in 0 .. h.maxPasses /\ was \in BOOLEAN /\ start \in [cut : Nat, bal : BOOLEAN]
  /\ pc \in {"pass", "done"} /\ start.bal => IsBalanced /\ cut <= start.cut
  /\ InPass /\ start.bal => BalancedAt(1) /\ hist[1].cut <= start.cut

----------------------------------------------------------------------------
(* Sets of nets are finite and weigh a natural number. *)
LEMMA NetWeights ==
  ASSUME StateType, NEW M \in SUBSET Net
  PROVE  /\ IsFiniteSet(M) /\ \A e \in M : h.nw[e] \in Nat /\ h.nw[e] \in Int
         /\ SumFunctionOnSet(h.nw, M) \in Nat
         /\ \A L \in SUBSET M : SumFunctionOnSet(h.nw, L) \in Nat
                               /\ SumFunctionOnSet(h.nw, L) <= SumFunctionOnSet(h.nw, M)
<1>1. IsFiniteSet(M)
  BY FiniteAssumption, FS_Subset
<1>2. \A e \in M : h.nw[e] \in Nat
  BY InputShape
<1> QED BY <1>1, <1>2, SumGrows

(* So do sets of vertices. *)
LEMMA VertexWeights ==
  ASSUME StateType, NEW S \in SUBSET Vertex
  PROVE  /\ IsFiniteSet(S) /\ \A v \in S : h.vw[v] \in Nat /\ h.vw[v] \in Int
         /\ SumFunctionOnSet(h.vw, S) \in Nat
<1>1. IsFiniteSet(S)
  BY FiniteAssumption, FS_Subset
<1>2. \A v \in S : h.vw[v] \in Nat
  BY InputShape
<1> QED BY <1>1, <1>2, SumGrows

(* What net e contributes to the gain of u. *)
Contribution(u, e) ==
  (IF cnt[e][part[u]] = 1 THEN h.nw[e] ELSE 0)
    - (IF cnt[e][Other(part[u])] = 0 THEN h.nw[e] ELSE 0)

LEMMA GainSplit ==
  ASSUME StateType, NEW u \in Vertex, NEW M \in SUBSET Net, NEW e \in M
  PROVE  GainOver(u, M) = Contribution(u, e) + GainOver(u, M \ {e})
<1> DEFINE A(L) == {f \in L : cnt[f][part[u]] = 1}
           B(L) == {f \in L : cnt[f][Other(part[u])] = 0}
           Sum(L) == SumFunctionOnSet(h.nw, L)
<1>1. h.nw[e] \in Nat
  BY NetWeights
<1>2. /\ IsFiniteSet(A(M)) /\ \A f \in A(M) : h.nw[f] \in Int
      /\ IsFiniteSet(B(M)) /\ \A f \in B(M) : h.nw[f] \in Int
  <2>1. A(M) \in SUBSET Net /\ B(M) \in SUBSET Net
    OBVIOUS
  <2> HIDE DEF A, B
  <2> QED BY <2>1, NetWeights
<1>3. A(M) \ {e} = A(M \ {e}) /\ B(M) \ {e} = B(M \ {e})
  OBVIOUS
<1>4. /\ Sum(A(M)) = (IF e \in A(M) THEN h.nw[e] ELSE 0) + Sum(A(M) \ {e})
      /\ Sum(B(M)) = (IF e \in B(M) THEN h.nw[e] ELSE 0) + Sum(B(M) \ {e})
      /\ Sum(A(M) \ {e}) \in Int /\ Sum(B(M) \ {e}) \in Int
  <2> HIDE DEF A, B
  <2>1. /\ Sum(A(M)) = (IF e \in A(M) THEN h.nw[e] ELSE 0) + Sum(A(M) \ {e})
        /\ Sum(A(M) \ {e}) \in Int
    BY <1>2, SumLess
  <2>2. /\ Sum(B(M)) = (IF e \in B(M) THEN h.nw[e] ELSE 0) + Sum(B(M) \ {e})
        /\ Sum(B(M) \ {e}) \in Int
    BY <1>2, SumLess
  <2> QED BY <2>1, <2>2
<1>5. (e \in A(M) <=> cnt[e][part[u]] = 1) /\ (e \in B(M) <=> cnt[e][Other(part[u])] = 0)
  OBVIOUS
<1>6. GainOver(u, M) = Sum(A(M)) - Sum(B(M))
      /\ GainOver(u, M \ {e}) = Sum(A(M \ {e})) - Sum(B(M \ {e}))
  BY DEF GainOver
<1>7. /\ Sum(A(M)) = (IF e \in A(M) THEN h.nw[e] ELSE 0) + Sum(A(M \ {e}))
      /\ Sum(B(M)) = (IF e \in B(M) THEN h.nw[e] ELSE 0) + Sum(B(M \ {e}))
      /\ Sum(A(M \ {e})) \in Int /\ Sum(B(M \ {e})) \in Int
  BY <1>3, <1>4
<1> HIDE DEF A, B, Sum
<1> QED BY <1>1, <1>5, <1>6, <1>7 DEF Contribution

(* GMax is the weight of the nets of the heaviest vertex, so it bounds what *)
(* any vertex can gain or lose.                                             *)
LEMMA GMaxBounds ==
  ASSUME StateType, NEW u \in Vertex
  PROVE  GMax \in Nat /\ IncidentWeight(u) <= GMax
<1> DEFINE W == {IncidentWeight(v) : v \in Vertex}
           all == SumFunctionOnSet(h.nw, Net)
           Short == {all - w : w \in W}
<1>1. \A v \in Vertex : IncidentWeight(v) \in Nat /\ IncidentWeight(v) <= all
  <2>1. \A v \in Vertex : NetsOf(v) \in SUBSET Net
    BY DEF NetsOf
  <2> QED BY <2>1, NetWeights DEF IncidentWeight
<1>2. all \in Nat
  BY NetWeights
<1>3. Short \in SUBSET Nat /\ Short # {}
  <2> HIDE DEF all
  <2> QED BY <1>1, <1>2
<1>4. PICK m \in Short : \A k \in Short : m <= k
  <2> HIDE DEF Short
  <2> QED BY <1>3, LeastNatural
<1>5. PICK w \in W : m = all - w
  BY <1>4
<1>6. \A v \in Vertex : IncidentWeight(v) <= w
  <2>1. \A v \in Vertex : m <= all - IncidentWeight(v)
    BY <1>4
  <2>2. w \in Nat
    BY <1>1
  <2> HIDE DEF all, Short, W
  <2> SUFFICES ASSUME NEW v \in Vertex PROVE IncidentWeight(v) <= w
    OBVIOUS
  <2>3. IncidentWeight(v) \in Nat /\ m <= all - IncidentWeight(v)
    BY <1>1, <2>1
  <2> QED BY <1>2, <1>5, <2>2, <2>3
<1>7. \E g \in W : \A v \in Vertex : IncidentWeight(v) <= g
  BY <1>6
<1>8. GMax \in W /\ \A v \in Vertex : IncidentWeight(v) <= GMax
  BY <1>7, Zenon DEF GMax
<1> QED BY <1>1, <1>8

LEMMA GainBounded ==
  ASSUME StateType, NEW u \in Vertex, NEW M \in SUBSET NetsOf(u)
  PROVE  /\ GainOver(u, M) \in Int
         /\ 0 - GMax <= GainOver(u, M) /\ GainOver(u, M) <= GMax
<1> DEFINE A == {e \in M : cnt[e][part[u]] = 1}
           B == {e \in M : cnt[e][Other(part[u])] = 0}
<1>1. NetsOf(u) \in SUBSET Net /\ A \in SUBSET NetsOf(u) /\ B \in SUBSET NetsOf(u)
  BY DEF NetsOf
<1> HIDE DEF A, B
<1>2. /\ SumFunctionOnSet(h.nw, A) \in Nat /\ SumFunctionOnSet(h.nw, B) \in Nat
      /\ SumFunctionOnSet(h.nw, A) <= IncidentWeight(u)
      /\ SumFunctionOnSet(h.nw, B) <= IncidentWeight(u) /\ IncidentWeight(u) \in Nat
  BY <1>1, NetWeights DEF IncidentWeight
<1>3. GainOver(u, M) = SumFunctionOnSet(h.nw, A) - SumFunctionOnSet(h.nw, B)
  BY DEF GainOver, A, B
<1>4. GMax \in Nat /\ IncidentWeight(u) <= GMax
  BY GMaxBounds
<1> QED BY <1>2, <1>3, <1>4

----------------------------------------------------------------------------
(* A pin of a net is counted; two pins on one side count for two. *)
LEMMA PinsCounted ==
  ASSUME StateType, NEW v \in Vertex, NEW e \in NetsOf(v)
  PROVE  /\ CountOf(e, part[v]) \in Nat /\ CountOf(e, part[v]) >= 1
         /\ \A u \in Vertex : u # v /\ e \in NetsOf(u) /\ part[u] = part[v]
                             => CountOf(e, part[v]) >= 2
<1> DEFINE P == PinsOn(e, part[v])
<1>1. e \in Net /\ part[v] \in Side /\ v \in P
  BY DEF NetsOf, StateType, PinsOn
<1>2. IsFiniteSet(P) /\ Cardinality(P) \in Nat /\ CountOf(e, part[v]) = Cardinality(P)
  BY <1>1, PinsAreVertices DEF CountOf
<1>3. IsFiniteSet(P \ {v}) /\ Cardinality(P \ {v}) = Cardinality(P) - 1
      /\ Cardinality(P \ {v}) \in Nat
  <2> HIDE DEF P
  <2> QED BY <1>1, <1>2, FS_RemoveElement, FS_CardinalityType
<1>4. ASSUME NEW u \in Vertex, u # v, e \in NetsOf(u), part[u] = part[v]
      PROVE  CountOf(e, part[v]) >= 2
  <2>1. u \in P \ {v}
    BY <1>4 DEF NetsOf, PinsOn
  <2>2. Cardinality(P \ {v}) # 0
    <3> HIDE DEF P
    <3> QED BY <1>3, <2>1, FS_EmptySet
  <2> QED BY <1>2, <1>3, <2>2
<1> QED BY <1>2, <1>3, <1>4

(* No count is ever below 0: a scan takes a pin only where one is. *)
LEMMA CountsNatural ==
  ASSUME StateType, CountInv, EarlyInv
  PROVE  cnt \in [Net -> [Side -> Nat]]
<1>1. ASSUME NEW e \in Net, NEW s \in Side PROVE cnt[e][s] \in Nat
  <2>1. CountOf(e, s) \in Nat
    BY PinsAreVertices
  <2>2. CASE Early
    BY <2>2 DEF EarlyInv
  <2>3. CASE pc = "tally"
    BY <2>1, <2>3 DEF EarlyInv, CountInv
  <2>4. CASE pc \in {"before", "back"}
    <3>1. mv.v \in Vertex
      BY <2>4 DEF StateType
    <3>2. e \in NetsOf(mv.v) => CountOf(e, part[mv.v]) \in Nat /\ CountOf(e, part[mv.v]) >= 1
      BY <3>1, PinsCounted
    <3>3. cnt[e][s] = IF e \in NetsOf(mv.v) \ mv.todo
                      THEN IF s = part[mv.v] THEN CountOf(e, s) - 1 ELSE CountOf(e, s) + 1
                      ELSE CountOf(e, s)
      BY <2>4 DEF CountInv
    <3> QED BY <2>1, <3>2, <3>3
  <2>5. CASE pc \in {"pass", "pick", "after", "undo", "done"}
    BY <2>1, <2>5 DEF CountInv
  <2> QED BY <2>2, <2>3, <2>4, <2>5 DEF StateType, Phase, Early
<1>2. cnt \in [Net -> [Side -> Int]]
  BY DEF StateType
<1> QED BY <1>1, <1>2

(* Until a net is tallied its counts are 0. *)
LEMMA EarlyStep ==
  ASSUME StateType, EarlyInv, [Next]_vars
  PROVE  EarlyInv'
<1> USE DEF EarlyInv, Early
<1>1. CASE GivenInit
  BY <1>1 DEF GivenInit, counters
<1>2. CASE RandomInit
  BY <1>2 DEF RandomInit
<1>3. CASE PlaceNext
  BY <1>3 DEF PlaceNext
<1>4. CASE PlaceDone
  BY <1>4 DEF PlaceDone, counters
<1>5. CASE RebuildCounts
  BY <1>5 DEF RebuildCounts
<1>6. CASE WeighNext
  BY <1>6 DEF WeighNext
<1>7. CASE WeighDone
  BY <1>7 DEF WeighDone
<1>8. CASE TallyNext
  <2>1. PICK e \in mv.todo : cnt' = [cnt EXCEPT ![e] = [s \in Side |-> CountOf(e, s)]]
                            /\ mv' = Scanned(e)
    BY <1>8 DEF TallyNext
  <2>2. pc = "tally" /\ pc' = "tally" /\ mv.todo \subseteq Net
    BY <1>8 DEF TallyNext, StateType
  <2>3. mv'.todo = mv.todo \ {e}
    BY <2>1 DEF Scanned
  <2>4. \A f \in mv.todo \ {e} : cnt'[f] = cnt[f]
    BY <2>1, <2>2 DEF StateType
  <2> QED BY <2>2, <2>3, <2>4
<1>9. CASE TallyDone \/ StartPass \/ PassesExhausted \/ Pick \/ NoChoice \/ BeforeNet
           \/ SwitchSide \/ AfterNet \/ RecordMove \/ UndoLast \/ UndoNet \/ SwitchBack
           \/ EndPass
  <2>1. pc' \notin {"init", "place", "count", "weigh", "tally"}
    BY <1>9 DEF TallyDone, StartPass, PassesExhausted, Pick, NoChoice, BeforeNet, SwitchSide,
                AfterNet, RecordMove, UndoLast, UndoNet, SwitchBack, EndPass
  <2> QED BY <2>1
<1>10. CASE UNCHANGED vars
  BY <1>10 DEF vars
<1> QED
  BY <1>1, <1>2, <1>3, <1>4, <1>5, <1>6, <1>7, <1>8, <1>9, <1>10 DEF Next, Finished

----------------------------------------------------------------------------
(* A vertex that changes side takes its weight with it. *)
LEMMA WeightsAfterFlip ==
  ASSUME StateType, NEW v \in Vertex, h' = h, part' = Flip(part, v), NEW s \in Side
  PROVE  WeightOf(s)' = IF s = part[v] THEN WeightOf(s) - h.vw[v] ELSE WeightOf(s) + h.vw[v]
<1> DEFINE On == {u \in Vertex : part[u] = s}
           Now == {u \in Vertex : Flip(part, v)[u] = s}
<1>1. /\ IsFiniteSet(On) /\ \A u \in On : h.vw[u] \in Int
      /\ SumFunctionOnSet(h.vw, On) \in Int /\ h.vw[v] \in Int
  <2>1. On \in SUBSET Vertex
    OBVIOUS
  <2> HIDE DEF On
  <2> QED BY <2>1, VertexWeights, InputShape
<1>2. part \in [Vertex -> Side] /\ Other(part[v]) # part[v] /\ Other(part[v]) \in Side
  <2>1. part \in [Vertex -> Side] /\ part[v] \in Side
    BY DEF StateType
  <2> QED BY <2>1 DEF Other, Side
<1>3. WeightOf(s) = SumFunctionOnSet(h.vw, On) /\ WeightOf(s)' = SumFunctionOnSet(h.vw, Now)
  BY DEF WeightOf
<1>4. CASE s = part[v]
  <2>1. v \in On /\ Now = On \ {v}
    BY <1>2, <1>4 DEF Flip
  <2>2. SumFunctionOnSet(h.vw, On) = h.vw[v] + SumFunctionOnSet(h.vw, On \ {v})
    <3> HIDE DEF On
    <3> QED BY <1>1, <2>1, SumRemove
  <2>3. SumFunctionOnSet(h.vw, On \ {v}) \in Int
    <3> HIDE DEF On
    <3> QED BY <1>1, SumLess
  <2>4. SumFunctionOnSet(h.vw, Now) = SumFunctionOnSet(h.vw, On \ {v})
    BY <2>1
  <2> HIDE DEF On, Now
  <2> QED BY <1>1, <1>3, <1>4, <2>2, <2>3, <2>4
<1>5. CASE s # part[v]
  <2>1. v \notin On /\ Now = On \cup {v}
    BY <1>2, <1>5 DEF Flip, Other, Side
  <2>2. SumFunctionOnSet(h.vw, On \cup {v}) = h.vw[v] + SumFunctionOnSet(h.vw, On)
    <3> HIDE DEF On
    <3> QED BY <1>1, <2>1, SumAdd
  <2>3. SumFunctionOnSet(h.vw, Now) = SumFunctionOnSet(h.vw, On \cup {v})
    BY <2>1
  <2> HIDE DEF On, Now
  <2> QED BY <1>1, <1>3, <1>5, <2>2, <2>3
<1> QED BY <1>4, <1>5

LEMMA WeightKept ==
  ASSUME UNCHANGED <<h, part>>
  PROVE  \A s : WeightOf(s)' = WeightOf(s)
BY DEF WeightOf

(* SwitchSide and SwitchBack. *)
LEMMA WeightsCarried ==
  ASSUME StateType, WeightInv, ~Early, pc' \notin {"init", "place", "count", "weigh"},
         mv.v \in Vertex, h' = h, part' = Flip(part, mv.v), wsum' = Carry(wsum, part, mv.v)
  PROVE  WeightInv'
<1>1. /\ wsum \in [Side -> Nat] /\ \A s \in Side : wsum[s] = WeightOf(s)
      /\ h.vw[mv.v] \in Int /\ part[mv.v] \in Side
  BY InputShape DEF WeightInv, StateType
<1>2. \A s \in Side : wsum'[s] = IF s = part[mv.v] THEN wsum[s] - h.vw[mv.v]
                                 ELSE wsum[s] + h.vw[mv.v]
  BY <1>1 DEF Carry, Other, Side
<1>3. \A s \in Side : wsum'[s] = WeightOf(s)'
  BY <1>1, <1>2, WeightsAfterFlip
<1>4. \A s \in Side : WeightOf(s)' \in Nat
  <2> SUFFICES ASSUME NEW s \in Side PROVE WeightOf(s)' \in Nat
    OBVIOUS
  <2>1. {v \in Vertex : part'[v] = s} \in SUBSET Vertex
    OBVIOUS
  <2> QED BY <2>1, VertexWeights DEF WeightOf
<1>5. wsum' = [s \in Side |-> wsum'[s]]
  BY <1>1 DEF Carry
<1> QED BY <1>3, <1>4, <1>5 DEF WeightInv, Early

(* Every step keeps the side weights those of the partition. *)
LEMMA WeightStep ==
  ASSUME StateType, WeightInv, [Next]_vars
  PROVE  WeightInv'
<1>0. wsum \in [Side -> Nat]
  BY DEF WeightInv
<1>1. CASE GivenInit
  BY <1>1 DEF WeightInv, Early, GivenInit, counters
<1>2. CASE RandomInit
  <2>1. \A s \in Side : {v \in Fixed : h.fixed[v] = s} \in SUBSET Vertex
    BY DEF Fixed
  <2>2. \A s \in Side : SumFunctionOnSet(h.vw, {v \in Fixed : h.fixed[v] = s}) \in Nat
    BY <2>1, VertexWeights
  <2>3. wsum' \in [Side -> Nat] /\ pc' = "place"
    BY <1>2, <2>2 DEF RandomInit
  <2> QED BY <2>3 DEF WeightInv, Early
<1>3. CASE PlaceNext
  <2>1. PICK v \in mv.todo, s \in Side : wsum' = [wsum EXCEPT ![s] = @ + h.vw[v]]
    BY <1>3 DEF PlaceNext, Side
  <2>2. h.vw[v] \in Nat /\ pc = "place" /\ pc' = "place"
    BY <1>3, InputShape DEF PlaceNext, StateType
  <2> QED BY <1>0, <2>1, <2>2 DEF WeightInv, Early
<1>4. CASE PlaceDone
  BY <1>4 DEF WeightInv, Early, PlaceDone, counters
<1>5. CASE RebuildCounts
  <2>1. wsum' = [s \in Side |-> 0] /\ mv'.todo = Vertex /\ pc' = "weigh"
    BY <1>5 DEF RebuildCounts
  <2>2. \A s \in Side : {v \in Vertex \ mv'.todo : part'[v] = s} = {}
    BY <2>1
  <2> QED BY <2>1, <2>2, SumEmpty DEF WeightInv, Early
<1>6. CASE WeighNext
  <2>1. PICK v \in mv.todo : /\ wsum' = [wsum EXCEPT ![part[v]] = @ + h.vw[v]]
                            /\ mv' = Scanned(v)
    BY <1>6 DEF WeighNext
  <2>2. /\ mv'.todo = mv.todo \ {v} /\ pc = "weigh" /\ pc' = "weigh" /\ UNCHANGED <<h, part>>
        /\ mv.todo \subseteq Vertex
    BY <1>6, <2>1 DEF WeighNext, Scanned, StateType
  <2>3. h.vw[v] \in Nat /\ part[v] \in Side /\ v \in Vertex
    BY <2>2, InputShape DEF StateType
  <2>4. wsum' \in [Side -> Nat]
    BY <1>0, <2>1, <2>3
  <2>5. ASSUME NEW s \in Side
        PROVE  wsum'[s] = SumFunctionOnSet(h'.vw, {u \in Vertex \ mv'.todo : part'[u] = s})
    <3> DEFINE On == {u \in Vertex \ mv.todo : part[u] = s}
               Now == {u \in Vertex \ mv'.todo : part'[u] = s}
    <3>1. wsum[s] = SumFunctionOnSet(h.vw, On)
      BY <2>2 DEF WeightInv
    <3>2. IsFiniteSet(On) /\ \A u \in On : h.vw[u] \in Int
      <4>1. On \in SUBSET Vertex
        OBVIOUS
      <4> HIDE DEF On
      <4> QED BY <4>1, VertexWeights
    <3>3. CASE s = part[v]
      <4>1. Now = On \cup {v} /\ v \notin On
        BY <2>2, <2>3, <3>3
      <4>2. SumFunctionOnSet(h.vw, On \cup {v}) = h.vw[v] + SumFunctionOnSet(h.vw, On)
        <5> HIDE DEF On
        <5> QED BY <2>3, <3>2, <4>1, SumAdd
      <4>3. wsum'[s] = wsum[s] + h.vw[v]
        BY <1>0, <2>1, <3>3
      <4>4. wsum[s] \in Nat
        BY <1>0
      <4>5. SumFunctionOnSet(h'.vw, Now) = SumFunctionOnSet(h.vw, On \cup {v})
        BY <2>2, <4>1
      <4> HIDE DEF On, Now
      <4>6. wsum'[s] = SumFunctionOnSet(h'.vw, Now)
        BY <2>3, <3>1, <4>2, <4>3, <4>4, <4>5
      <4> QED BY <4>6 DEF Now
    <3>4. CASE s # part[v]
      <4>1. Now = On
        BY <2>2, <2>3, <3>4
      <4>2. wsum'[s] = wsum[s]
        BY <1>0, <2>1, <3>4
      <4> QED BY <2>2, <3>1, <4>1, <4>2
    <3> QED BY <3>3, <3>4
  <2> QED BY <2>2, <2>4, <2>5 DEF WeightInv, Early
<1>7. CASE WeighDone
  <2>1. UNCHANGED <<h, part, wsum>> /\ pc = "weigh" /\ mv.todo = {} /\ pc' = "tally"
    BY <1>7 DEF WeighDone
  <2>2. \A s \in Side : {v \in Vertex \ mv.todo : part[v] = s} = {v \in Vertex : part[v] = s}
    BY <2>1
  <2>3. \A s \in Side : wsum[s] = WeightOf(s)
    BY <2>1, <2>2 DEF WeightInv, WeightOf
  <2> QED BY <1>0, <2>1, <2>3, WeightKept DEF WeightInv, Early
<1>8. CASE TallyNext \/ TallyDone \/ StartPass \/ PassesExhausted \/ Pick \/ NoChoice
           \/ BeforeNet \/ AfterNet \/ RecordMove \/ UndoLast \/ UndoNet \/ EndPass
  <2>1. /\ UNCHANGED <<h, part, wsum>> /\ ~Early
        /\ pc' \notin {"init", "place", "count", "weigh"}
    BY <1>8 DEF TallyNext, TallyDone, StartPass, PassesExhausted, Pick, NoChoice, BeforeNet,
                AfterNet, RecordMove, UndoLast, UndoNet, EndPass, counters, passVars, Early
  <2> QED BY <1>0, <2>1, WeightKept DEF WeightInv, Early
<1>9. CASE SwitchSide
  <2>1. /\ ~Early /\ pc' = "after" /\ mv.v \in Vertex /\ h' = h
        /\ part' = Flip(part, mv.v) /\ wsum' = Carry(wsum, part, mv.v)
    BY <1>9 DEF SwitchSide, Flip, Carry, Early, StateType
  <2> QED BY <2>1, WeightsCarried
<1>10. CASE SwitchBack
  <2>1. /\ ~Early /\ pc' = "undo" /\ mv.v \in Vertex /\ h' = h
        /\ part' = Flip(part, mv.v) /\ wsum' = Carry(wsum, part, mv.v)
    BY <1>10 DEF SwitchBack, Flip, Carry, Early, StateType
  <2> QED BY <2>1, WeightsCarried
<1>11. CASE UNCHANGED vars
  <2>1. UNCHANGED <<h, part, wsum, pc, mv>>
    BY <1>11 DEF vars
  <2> QED BY <1>0, <2>1, WeightKept DEF WeightInv, Early
<1> QED
  BY <1>1, <1>2, <1>3, <1>4, <1>5, <1>6, <1>7, <1>8, <1>9, <1>10, <1>11 DEF Next, Finished

----------------------------------------------------------------------------
(* When only the counts of net e change, the crossing weight changes by     *)
(* what e was and is.                                                       *)
LEMMA CrossingStep ==
  ASSUME StateType, NEW e \in Net, h' = h, \A f \in Net \ {e} : cnt'[f] = cnt[f]
  PROVE  SumFunctionOnSet(h.nw, Crossing)' =
           SumFunctionOnSet(h.nw, Crossing)
             + (IF cnt'[e][0] > 0 /\ cnt'[e][1] > 0 THEN h.nw[e] ELSE 0)
             - (IF cnt[e][0] > 0 /\ cnt[e][1] > 0 THEN h.nw[e] ELSE 0)
<1> DEFINE C == Crossing
           D == Crossing'
           Sum(S) == SumFunctionOnSet(h.nw, S)
<1>1. C \in SUBSET Net /\ D \in SUBSET Net /\ D \ {e} = C \ {e}
  BY DEF Crossing
<1>2. /\ e \in C <=> cnt[e][0] > 0 /\ cnt[e][1] > 0
      /\ e \in D <=> cnt'[e][0] > 0 /\ cnt'[e][1] > 0
  BY DEF Crossing
<1>3. SumFunctionOnSet(h.nw, Crossing)' = Sum(D) /\ h.nw[e] \in Nat
  BY InputShape
<1> HIDE DEF C, D
<1>4. /\ Sum(C) = (IF e \in C THEN h.nw[e] ELSE 0) + Sum(C \ {e}) /\ Sum(C \ {e}) \in Int
  BY <1>1, NetWeights, SumLess
<1>5. /\ Sum(D) = (IF e \in D THEN h.nw[e] ELSE 0) + Sum(D \ {e})
  BY <1>1, NetWeights, SumLess
<1>6. Sum(D \ {e}) = Sum(C \ {e})
  BY <1>1
<1>7. Sum(D) = Sum(C) + (IF e \in D THEN h.nw[e] ELSE 0) - (IF e \in C THEN h.nw[e] ELSE 0)
  <2> HIDE DEF Sum
  <2> QED BY <1>3, <1>4, <1>5, <1>6
<1> QED BY <1>2, <1>3, <1>7 DEF C

(* A scan takes one pin of net e from side F to the other. *)
LEMMA ScanCut ==
  ASSUME StateType, CountInv, EarlyInv, CutInv, NEW e \in Net, NEW F \in Side, h' = h,
         cnt' = [cnt EXCEPT ![e] = Shift(@, F, Other(F))], cnt[e][F] >= 1,
         cut' = cut + (IF cnt[e][Other(F)] = 0 /\ cnt[e][F] > 1 THEN h.nw[e] ELSE 0)
                    - (IF cnt[e][Other(F)] > 0 /\ cnt[e][F] = 1 THEN h.nw[e] ELSE 0)
  PROVE  CutInv'
<1>1. cnt \in [Net -> [Side -> Nat]]
  BY CountsNatural
<1>2. /\ Other(F) \in Side /\ F # Other(F) /\ {0, 1} = {F, Other(F)}
      /\ cnt'[e][F] = cnt[e][F] - 1 /\ cnt'[e][Other(F)] = cnt[e][Other(F)] + 1
  BY <1>1 DEF Shift, Other, Side
<1>3. \A f \in Net \ {e} : cnt'[f] = cnt[f]
  BY <1>1
<1>4. /\ cnt'[e][0] > 0 /\ cnt'[e][1] > 0 <=> cnt[e][F] > 1
      /\ cnt[e][0] > 0 /\ cnt[e][1] > 0 <=> cnt[e][Other(F)] > 0
  BY <1>1, <1>2 DEF Side, Other
<1>5. cut \in Int /\ h.nw[e] \in Nat /\ cnt[e][F] \in Nat /\ cnt[e][Other(F)] \in Nat
  BY <1>1, <1>2, InputShape DEF StateType
<1>6. cut' = cut + (IF cnt[e][F] > 1 THEN h.nw[e] ELSE 0)
                 - (IF cnt[e][Other(F)] > 0 THEN h.nw[e] ELSE 0)
  BY <1>5
<1> QED BY <1>3, <1>4, <1>5, <1>6, CrossingStep DEF CutInv

(* Every step keeps the cut the weight of the nets that cross. *)
LEMMA CutStep ==
  ASSUME StateType, CountInv, EarlyInv, EarlyInv', CutInv, [Next]_vars
  PROVE  CutInv'
<1>0. cut \in Int /\ cut = SumFunctionOnSet(h.nw, Crossing)
  BY DEF StateType, CutInv
<1>1. CASE GivenInit \/ RandomInit \/ PlaceNext \/ PlaceDone \/ RebuildCounts \/ WeighNext
           \/ WeighDone
  <2>1. cut' = 0 /\ \A e \in Net, s \in Side : cnt'[e][s] = 0
    <3>1. CASE WeighDone
      <4>1. cut' = 0 /\ cnt' = cnt /\ pc = "weigh"
        BY <3>1 DEF WeighDone
      <4> QED BY <4>1 DEF EarlyInv, Early
    <3>2. CASE ~WeighDone
      <4>1. pc' \in {"init", "place", "count", "weigh"}
        BY <1>1, <3>2 DEF GivenInit, RandomInit, PlaceNext, PlaceDone, RebuildCounts, WeighNext
      <4> QED BY <4>1 DEF EarlyInv, Early
    <3> QED BY <3>1, <3>2
  <2>2. Crossing' = {}
    BY <2>1 DEF Crossing, Side
  <2> QED BY <2>1, <2>2, SumEmpty DEF CutInv
<1>2. CASE TallyNext
  <2>1. PICK e \in mv.todo :
          /\ cnt' = [cnt EXCEPT ![e] = [s \in Side |-> CountOf(e, s)]]
          /\ cut' = IF \A s \in Side : CountOf(e, s) > 0 THEN cut + h.nw[e] ELSE cut
    BY <1>2 DEF TallyNext
  <2>2. h' = h /\ pc = "tally" /\ mv.todo \subseteq Net /\ e \in Net
    BY <1>2 DEF TallyNext, StateType
  <2>3. cnt[e][0] = 0 /\ cnt[e][1] = 0
    BY <2>2 DEF EarlyInv, Side
  <2>4. \A f \in Net \ {e} : cnt'[f] = cnt[f]
    BY <2>1 DEF StateType
  <2>5. cnt'[e][0] > 0 /\ cnt'[e][1] > 0 <=> \A s \in Side : CountOf(e, s) > 0
    BY <2>1, <2>2 DEF StateType, Side
  <2>6. h.nw[e] \in Nat
    BY <2>2, InputShape
  <2>7. SumFunctionOnSet(h.nw, Crossing)' =
          cut + (IF \A s \in Side : CountOf(e, s) > 0 THEN h.nw[e] ELSE 0) - 0
    BY <1>0, <2>2, <2>3, <2>4, <2>5, CrossingStep
  <2> QED BY <1>0, <2>1, <2>6, <2>7 DEF CutInv
<1>3. CASE BeforeNet
  <2> DEFINE F == part[mv.v]
  <2>1. PICK e \in mv.todo :
          /\ cut' = cut + (IF cnt[e][Other(F)] = 0 /\ cnt[e][F] > 1 THEN h.nw[e] ELSE 0)
                        - (IF cnt[e][Other(F)] > 0 /\ cnt[e][F] = 1 THEN h.nw[e] ELSE 0)
          /\ cnt' = [cnt EXCEPT ![e] = Shift(@, F, Other(F))]
    BY <1>3 DEF BeforeNet
  <2>2. /\ h' = h /\ pc = "before" /\ mv.v \in Vertex /\ e \in NetsOf(mv.v) /\ e \in Net
        /\ F \in Side
    BY <1>3 DEF BeforeNet, StateType, NetsOf
  <2>3. cnt[e][F] >= 1
    BY <2>2, PinsCounted DEF CountInv
  <2> QED BY <2>1, <2>2, <2>3, ScanCut
<1>4. CASE UndoNet
  <2> DEFINE T == part[mv.v]
  <2>1. PICK e \in mv.todo : /\ cut' = cut + UndoCut(mv.v, e)
                            /\ cnt' = [cnt EXCEPT ![e] = Shift(@, T, Other(T))]
    BY <1>4 DEF UndoNet
  <2>2. /\ h' = h /\ pc = "back" /\ mv.v \in Vertex /\ e \in NetsOf(mv.v) /\ e \in Net
        /\ T \in Side
    BY <1>4 DEF UndoNet, StateType, NetsOf
  <2>3. cnt[e][T] >= 1
    BY <2>2, PinsCounted DEF CountInv
  <2>4. h.nw[e] \in Nat
    BY <2>2, InputShape
  <2>5. cut' = cut + (IF cnt[e][Other(T)] = 0 /\ cnt[e][T] > 1 THEN h.nw[e] ELSE 0)
                   - (IF cnt[e][Other(T)] > 0 /\ cnt[e][T] = 1 THEN h.nw[e] ELSE 0)
    BY <1>0, <2>1, <2>4 DEF UndoCut
  <2> QED BY <2>1, <2>2, <2>3, <2>5, ScanCut
<1>5. CASE TallyDone \/ StartPass \/ PassesExhausted \/ Pick \/ NoChoice \/ SwitchSide
           \/ AfterNet \/ RecordMove \/ UndoLast \/ SwitchBack \/ EndPass \/ UNCHANGED vars
  <2>1. UNCHANGED <<h, cnt, cut>>
    BY <1>5 DEF TallyDone, StartPass, PassesExhausted, Pick, NoChoice, SwitchSide, AfterNet,
                RecordMove, UndoLast, SwitchBack, EndPass, vars, counters, passVars
  <2>2. Crossing' = Crossing
    BY <2>1 DEF Crossing
  <2> QED BY <2>1, <2>2 DEF CutInv
<1> QED
  BY <1>1, <1>2, <1>3, <1>4, <1>5 DEF Next, Finished

----------------------------------------------------------------------------
(* The first scan: net e gives an unlocked pin no gain once it is scanned,  *)
(* and takes back what it gave before.                                      *)
LEMMA BeforeGain ==
  ASSUME StateType, CountInv, EarlyInv, BeforeNet, mv.v \in locked,
         NEW u \in Vertex \ locked, gain \in [Vertex -> Int],
         gain[u] = GainOver(u, NetsOf(u) \ Between)
  PROVE  gain'[u] = GainOver(u, NetsOf(u) \ Between')
<1> DEFINE v == mv.v
           F == part[v]
           T == Other(F)
           M == NetsOf(u) \ Between
<1>1. PICK e \in mv.todo :
        /\ \/ cnt[e][T] = 0 /\ Bump(h.pins[e], h.nw[e])
           \/ cnt[e][T] = 1 /\ Bump(SolePin(e, T), 0 - h.nw[e])
           \/ cnt[e][T] > 1 /\ UNCHANGED <<gain, held>>
        /\ mv' = Scanned(e)
  BY DEF BeforeNet
<1>2. /\ pc = "before" /\ pc' = "before" /\ v \in Vertex /\ e \in NetsOf(v) /\ e \in Net
      /\ F \in Side /\ T \in Side /\ F # T /\ T = Other(F) /\ F = Other(T)
      /\ UNCHANGED <<h, part>> /\ mv.todo \subseteq NetsOf(v) /\ u # v /\ h.nw[e] \in Nat
  <2>1. pc = "before" /\ pc' = "before" /\ UNCHANGED <<h, part>>
    BY DEF BeforeNet
  <2>2. v \in Vertex /\ mv.todo \subseteq NetsOf(v) /\ F \in Side
    BY <2>1 DEF StateType
  <2>3. T \in Side /\ F # T /\ F = Other(T)
    BY <2>2 DEF Other, Side
  <2>4. e \in NetsOf(v) /\ e \in Net
    BY <2>2 DEF NetsOf
  <2> QED BY <2>1, <2>2, <2>3, <2>4, InputShape
<1>3. \A s \in Side : cnt[e][s] = CountOf(e, s) /\ cnt[e][s] \in Nat
  BY <1>2, PinsAreVertices DEF CountInv
<1>4. NetsOf(u) \ Between' = M \ {e}
  <2>1. NetsOf(v)' = NetsOf(v) /\ mv'.v = v /\ mv'.todo = mv.todo \ {e}
    BY <1>1, <1>2 DEF NetsOf, Scanned
  <2> QED BY <1>2, <2>1 DEF Between
<1>5. CASE e \notin NetsOf(u)
  <2>1. M \ {e} = M
    BY <1>5
  <2>2. u \notin h.pins[e] /\ u \notin SolePin(e, T)
    BY <1>2, <1>5 DEF NetsOf, SolePin, PinsOn
  <2>3. gain'[u] = gain[u]
    BY <1>1, <2>2 DEF Bump
  <2> QED BY <1>4, <2>1, <2>3
<1>6. CASE e \in NetsOf(u)
  <2>1. e \in M /\ M \in SUBSET Net /\ M \ {e} \in SUBSET NetsOf(u)
    BY <1>2, <1>6 DEF Between, NetsOf
  <2>2. gain[u] = Contribution(u, e) + GainOver(u, M \ {e})
    <3> HIDE DEF M
    <3>1. gain[u] = GainOver(u, M)
      BY DEF M
    <3> QED BY <2>1, <3>1, GainSplit
  <2>3. GainOver(u, M \ {e}) \in Int /\ gain[u] \in Int
    <3> HIDE DEF M
    <3> QED BY <2>1, GainBounded
  <2>4. cnt[e][F] >= 1
    BY <1>2, <1>3, PinsCounted
  <2>5. u \in h.pins[e] /\ u \in Vertex \ locked /\ (u \in SolePin(e, T) <=> part[u] = T)
    BY <1>6 DEF NetsOf, SolePin, PinsOn
  <2>6. gain'[u] = gain[u] - Contribution(u, e)
    <3>1. CASE part[u] = F
      <4>1. cnt[e][F] >= 2
        BY <1>2, <1>3, <1>6, <3>1, PinsCounted
      <4>2. Contribution(u, e) = 0 - (IF cnt[e][T] = 0 THEN h.nw[e] ELSE 0)
        BY <1>2, <1>3, <3>1, <4>1 DEF Contribution
      <4>3. gain'[u] = IF cnt[e][T] = 0 THEN gain[u] + h.nw[e] ELSE gain[u]
        BY <1>1, <1>2, <1>3, <2>5, <3>1 DEF Bump
      <4> QED BY <1>2, <2>3, <4>2, <4>3
    <3>2. CASE part[u] = T
      <4>1. cnt[e][T] >= 1
        BY <1>2, <1>3, <1>6, <3>2, PinsCounted
      <4>2. Contribution(u, e) = (IF cnt[e][T] = 1 THEN h.nw[e] ELSE 0) - 0
        BY <1>2, <1>3, <2>4, <3>2 DEF Contribution
      <4>3. gain'[u] = IF cnt[e][T] = 1 THEN gain[u] + (0 - h.nw[e]) ELSE gain[u]
        BY <1>1, <1>2, <1>3, <2>5, <3>2, <4>1 DEF Bump
      <4> QED BY <1>2, <2>3, <4>2, <4>3
    <3>3. part[u] = F \/ part[u] = T
      <4>1. part[u] \in Side
        BY DEF StateType
      <4> QED BY <1>2, <4>1 DEF Side
    <3> QED BY <3>1, <3>2, <3>3
  <2>7. Contribution(u, e) \in Int
    BY <1>2 DEF Contribution
  <2>8. gain'[u] = GainOver(u, M \ {e})
    <3> HIDE DEF M
    <3> QED BY <2>2, <2>3, <2>6, <2>7
  <2> QED BY <1>4, <2>8
<1> QED BY <1>5, <1>6

(* The second scan: with the vertex on its new side, net e gives an         *)
(* unlocked pin what it is worth there.                                     *)
LEMMA AfterGain ==
  ASSUME StateType, CountInv, AfterNet, mv.v \in locked,
         NEW u \in Vertex \ locked, gain \in [Vertex -> Int],
         gain[u] = GainOver(u, NetsOf(u) \ Between)
  PROVE  gain'[u] = GainOver(u, NetsOf(u) \ Between')
<1> DEFINE v == mv.v
           T == part[v]
           F == Other(T)
           M == NetsOf(u) \ Between'
<1>1. PICK e \in mv.todo :
        /\ \/ cnt[e][F] = 0 /\ Bump(h.pins[e], 0 - h.nw[e])
           \/ cnt[e][F] = 1 /\ Bump(SolePin(e, F), h.nw[e])
           \/ cnt[e][F] > 1 /\ UNCHANGED <<gain, held>>
        /\ mv' = Scanned(e)
  BY DEF AfterNet
<1>2. /\ pc = "after" /\ pc' = "after" /\ v \in Vertex /\ e \in NetsOf(v) /\ e \in Net
      /\ F \in Side /\ T \in Side /\ F # T /\ T = Other(F) /\ F = Other(T)
      /\ mv.todo \subseteq NetsOf(v) /\ u # v /\ h.nw[e] \in Nat
  <2>1. pc = "after" /\ pc' = "after"
    BY DEF AfterNet
  <2>2. v \in Vertex /\ mv.todo \subseteq NetsOf(v) /\ T \in Side
    BY <2>1 DEF StateType
  <2>3. F \in Side /\ F # T /\ T = Other(F)
    BY <2>2 DEF Other, Side
  <2>4. e \in NetsOf(v) /\ e \in Net
    BY <2>2 DEF NetsOf
  <2> QED BY <2>1, <2>2, <2>3, <2>4, InputShape
<1>3. \A s \in Side : cnt[e][s] = CountOf(e, s) /\ cnt[e][s] \in Nat
  BY <1>2, PinsAreVertices DEF CountInv
<1>4. NetsOf(u) \ Between = M \ {e}
  <2>1. Between = mv.todo /\ Between' = mv.todo \ {e}
    BY <1>1, <1>2 DEF Between, Scanned
  <2>2. e \in NetsOf(u) => e \in M
    BY <2>1
  <2> QED BY <2>1
<1>5. CASE e \notin NetsOf(u)
  <2>1. M \ {e} = M
    BY <1>5
  <2>2. u \notin h.pins[e] /\ u \notin SolePin(e, F)
    BY <1>2, <1>5 DEF NetsOf, SolePin, PinsOn
  <2>3. gain'[u] = gain[u]
    BY <1>1, <2>2 DEF Bump
  <2> QED BY <1>4, <2>1, <2>3
<1>6. CASE e \in NetsOf(u)
  <2>1. e \in M /\ M \in SUBSET Net /\ M \ {e} \in SUBSET NetsOf(u)
    BY <1>1, <1>2, <1>6 DEF Between, NetsOf, Scanned
  <2>2. GainOver(u, M) = Contribution(u, e) + gain[u]
    <3>1. gain[u] = GainOver(u, M \ {e})
      BY <1>4
    <3> HIDE DEF M
    <3> QED BY <2>1, <3>1, GainSplit
  <2>3. gain[u] \in Int
    OBVIOUS
  <2>4. cnt[e][T] >= 1
    BY <1>2, <1>3, PinsCounted
  <2>5. u \in h.pins[e] /\ u \in Vertex \ locked /\ (u \in SolePin(e, F) <=> part[u] = F)
    BY <1>6 DEF NetsOf, SolePin, PinsOn
  <2>6. gain'[u] = gain[u] + Contribution(u, e)
    <3>1. CASE part[u] = T
      <4>1. cnt[e][T] >= 2
        BY <1>2, <1>3, <1>6, <3>1, PinsCounted
      <4>2. Contribution(u, e) = 0 - (IF cnt[e][F] = 0 THEN h.nw[e] ELSE 0)
        BY <1>2, <1>3, <3>1, <4>1 DEF Contribution
      <4>3. gain'[u] = IF cnt[e][F] = 0 THEN gain[u] + (0 - h.nw[e]) ELSE gain[u]
        BY <1>1, <1>2, <1>3, <2>5, <3>1 DEF Bump
      <4> QED BY <1>2, <2>3, <4>2, <4>3
    <3>2. CASE part[u] = F
      <4>1. cnt[e][F] >= 1
        BY <1>2, <1>3, <1>6, <3>2, PinsCounted
      <4>2. Contribution(u, e) = (IF cnt[e][F] = 1 THEN h.nw[e] ELSE 0) - 0
        BY <1>2, <1>3, <2>4, <3>2 DEF Contribution
      <4>3. gain'[u] = IF cnt[e][F] = 1 THEN gain[u] + h.nw[e] ELSE gain[u]
        BY <1>1, <1>2, <1>3, <2>5, <3>2, <4>1 DEF Bump
      <4> QED BY <1>2, <2>3, <4>2, <4>3
    <3>3. part[u] = F \/ part[u] = T
      <4>1. part[u] \in Side
        BY DEF StateType
      <4> QED BY <1>2, <4>1 DEF Side
    <3> QED BY <3>1, <3>2, <3>3
  <2>7. Contribution(u, e) \in Int
    BY <1>2 DEF Contribution
  <2> HIDE DEF M
  <2>8. gain'[u] = GainOver(u, M)
    BY <2>2, <2>3, <2>6, <2>7
  <2> QED BY <2>8 DEF M
<1> QED BY <1>5, <1>6

LEMMA BoundOfGains ==
  ASSUME h' = h
  PROVE  GMax' = GMax /\ \A v : NetsOf(v)' = NetsOf(v)
BY DEF GMax, IncidentWeight, NetsOf

(* Gains made of the nets outside Between, none of which this step counts   *)
(* anew, are the gains the invariant asks for.                              *)
LEMMA GainsMade ==
  ASSUME StateType, h' = h, held' = Vertex \ locked', gain' \in [Vertex -> Int],
         \A u \in held' :
           /\ gain'[u] = GainOver(u, NetsOf(u) \ Between')
           /\ part'[u] = part[u] /\ \A f \in NetsOf(u) \ Between' : cnt'[f] = cnt[f]
  PROVE  GainInv'
<1>1. ASSUME NEW u \in held'
      PROVE  /\ 0 - GMax' <= gain'[u] /\ gain'[u] <= GMax'
             /\ gain'[u] = GainOver(u, NetsOf(u) \ Between)'
  <2> DEFINE M == NetsOf(u) \ Between'
  <2>1. u \in Vertex /\ M \in SUBSET NetsOf(u)
    OBVIOUS
  <2>2. 0 - GMax <= gain'[u] /\ gain'[u] <= GMax
    <3>1. gain'[u] = GainOver(u, M)
      OBVIOUS
    <3> HIDE DEF M
    <3> QED BY <2>1, <3>1, GainBounded
  <2>3. (NetsOf(u) \ Between)' = M
    BY BoundOfGains
  <2>4. /\ {e \in M : cnt'[e][part'[u]] = 1} = {e \in M : cnt[e][part[u]] = 1}
        /\ {e \in M : cnt'[e][Other(part'[u])] = 0} = {e \in M : cnt[e][Other(part[u])] = 0}
    OBVIOUS
  <2>5. GainOver(u, NetsOf(u) \ Between)' = GainOver(u, M)
    <3> HIDE DEF M
    <3> QED BY <2>3, <2>4 DEF GainOver
  <2> QED BY <2>2, <2>5, BoundOfGains
<1> QED BY <1>1 DEF GainInv

(* Every step keeps the gains what the nets outside Between give. *)
LEMMA GainStep ==
  ASSUME StateType, LegalInv, CountInv, EarlyInv, GainInv, [Next]_vars
  PROVE  GainInv'
<1>1. CASE StartPass
  <2>1. /\ UNCHANGED <<h, part, cnt>> /\ locked' = Fixed /\ held' = Vertex \ Fixed
        /\ gain' = [v \in Vertex |-> IF v \in Fixed THEN 0 ELSE ComputeGain(v, cnt)]
        /\ pc' = "pick"
    BY <1>1 DEF StartPass, counters
  <2>2. ASSUME NEW u \in Vertex
        PROVE  ComputeGain(u, cnt) = GainOver(u, NetsOf(u)) /\ GainOver(u, NetsOf(u)) \in Int
    BY GainBounded DEF ComputeGain, GainOver
  <2>3. gain' \in [Vertex -> Int]
    BY <2>1, <2>2
  <2>4. Between' = {} /\ \A u : NetsOf(u) \ {} = NetsOf(u)
    BY <2>1 DEF Between
  <2>5. \A u \in held' : gain'[u] = GainOver(u, NetsOf(u) \ Between')
    BY <2>1, <2>2, <2>4
  <2> QED BY <2>1, <2>3, <2>5, GainsMade
<1>2. CASE Pick
  <2>1. PICK v \in MoveChoices : /\ locked' = locked \cup {v} /\ held' = held \ {v}
                            /\ mv' = [v |-> v, todo |-> NetsOf(v)]
    BY <1>2 DEF Pick
  <2>2. UNCHANGED <<h, part, cnt, gain>> /\ pc = "pick" /\ pc' = "before"
    BY <1>2 DEF Pick, counters
  <2>3. Between = {} /\ Between' = {}
    <3>1. NetsOf(v)' = NetsOf(v)
      BY <2>2, BoundOfGains
    <3> QED BY <2>1, <2>2, <3>1 DEF Between
  <2>4. held = Vertex \ locked /\ gain \in [Vertex -> Int]
        /\ \A u \in held : gain[u] = GainOver(u, NetsOf(u) \ {})
    BY <2>2, <2>3 DEF GainInv
  <2> QED BY <2>1, <2>2, <2>3, <2>4, GainsMade
<1>3. CASE BeforeNet
  <2>1. /\ pc = "before" /\ UNCHANGED <<h, part, locked>> /\ mv.v \in locked
        /\ held = Vertex \ locked /\ gain \in [Vertex -> Int]
        /\ \A u \in held : gain[u] = GainOver(u, NetsOf(u) \ Between)
    BY <1>3 DEF BeforeNet, GainInv, LegalInv, Moving
  <2>2. PICK e \in mv.todo :
          /\ \/ Bump(h.pins[e], h.nw[e])
             \/ Bump(SolePin(e, Other(part[mv.v])), 0 - h.nw[e])
             \/ UNCHANGED <<gain, held>>
          /\ cnt' = [cnt EXCEPT ![e] = Shift(@, part[mv.v], Other(part[mv.v]))]
          /\ mv' = Scanned(e)
    BY <1>3 DEF BeforeNet
  <2>3. held' = Vertex \ locked'
    <3>1. held' \subseteq Vertex /\ held' \cap locked = {}
      BY <1>3, <2>1, ScanHeld
    <3>2. held \subseteq held'
      BY <2>2 DEF Bump
    <3> QED BY <2>1, <3>1, <3>2
  <2>4. gain' \in [Vertex -> Int]
    <3>1. h.nw[e] \in Nat
      BY <2>1, InputShape DEF StateType, NetsOf
    <3> QED BY <2>1, <2>2, <3>1 DEF Bump
  <2>5. \A u \in held' : gain'[u] = GainOver(u, NetsOf(u) \ Between')
    BY <1>3, <2>1, <2>3, BeforeGain
  <2>6. e \in Between'
    <3>1. pc' = "before" /\ mv'.v = mv.v /\ mv'.todo = mv.todo \ {e} /\ e \in NetsOf(mv.v)
      BY <1>3, <2>1, <2>2 DEF BeforeNet, Scanned, StateType
    <3> QED BY <2>1, <3>1, BoundOfGains DEF Between
  <2>7. \A f \in Net : f # e => cnt'[f] = cnt[f]
    BY <2>2 DEF StateType
  <2>8. \A u \in held' : \A f \in NetsOf(u) \ Between' : cnt'[f] = cnt[f]
    BY <2>6, <2>7 DEF NetsOf
  <2> QED BY <2>1, <2>3, <2>4, <2>5, <2>8, GainsMade
<1>4. CASE SwitchSide
  <2>1. /\ pc = "before" /\ pc' = "after" /\ UNCHANGED <<h, cnt, locked, held, gain>>
        /\ mv.todo = {} /\ mv' = [v |-> mv.v, todo |-> NetsOf(mv.v)]
        /\ \A u \in Vertex : u # mv.v => part'[u] = part[u]
    BY <1>4 DEF SwitchSide, StateType
  <2>2. /\ held = Vertex \ locked /\ gain \in [Vertex -> Int] /\ mv.v \in locked
        /\ \A u \in held : gain[u] = GainOver(u, NetsOf(u) \ Between)
    BY <2>1 DEF GainInv, LegalInv, Moving
  <2>3. Between' = Between
    BY <2>1 DEF Between
  <2> QED BY <2>1, <2>2, <2>3, GainsMade
<1>5. CASE AfterNet
  <2>1. /\ pc = "after" /\ UNCHANGED <<h, part, cnt, locked>> /\ mv.v \in locked
        /\ held = Vertex \ locked /\ gain \in [Vertex -> Int]
        /\ \A u \in held : gain[u] = GainOver(u, NetsOf(u) \ Between)
    BY <1>5 DEF AfterNet, counters, GainInv, LegalInv, Moving
  <2>2. PICK e \in mv.todo :
          /\ \/ Bump(h.pins[e], 0 - h.nw[e])
             \/ Bump(SolePin(e, Other(part[mv.v])), h.nw[e])
             \/ UNCHANGED <<gain, held>>
    BY <1>5 DEF AfterNet
  <2>3. held' = Vertex \ locked'
    <3>1. held' \subseteq Vertex /\ held' \cap locked = {}
      BY <1>5, <2>1, ScanHeld
    <3>2. held \subseteq held'
      BY <2>2 DEF Bump
    <3> QED BY <2>1, <3>1, <3>2
  <2>4. gain' \in [Vertex -> Int]
    <3>1. h.nw[e] \in Nat
      BY <2>1, InputShape DEF StateType, NetsOf
    <3> QED BY <2>1, <2>2, <3>1 DEF Bump
  <2>5. \A u \in held' : gain'[u] = GainOver(u, NetsOf(u) \ Between')
    BY <1>5, <2>1, <2>3, AfterGain
  <2> QED BY <2>1, <2>3, <2>4, <2>5, GainsMade
<1>6. CASE RecordMove
  <2>1. /\ UNCHANGED <<h, part, cnt, locked, held, gain>> /\ pc = "after" /\ pc' = "pick"
        /\ mv.todo = {}
    BY <1>6 DEF RecordMove, counters
  <2>2. Between = {} /\ Between' = {}
    BY <2>1 DEF Between
  <2>3. /\ held = Vertex \ locked /\ gain \in [Vertex -> Int]
        /\ \A u \in held : gain[u] = GainOver(u, NetsOf(u) \ {})
    BY <2>1, <2>2 DEF GainInv
  <2> QED BY <2>1, <2>2, <2>3, GainsMade
<1>7. CASE GivenInit \/ RandomInit \/ PlaceNext \/ PlaceDone \/ RebuildCounts \/ WeighNext
           \/ WeighDone \/ TallyNext \/ TallyDone \/ PassesExhausted \/ NoChoice \/ UndoLast
           \/ UndoNet \/ SwitchBack \/ EndPass
  <2>1. UNCHANGED <<h, gain, held>> /\ pc' \notin {"pick", "before", "after"}
    BY <1>7 DEF GivenInit, RandomInit, PlaceNext, PlaceDone, RebuildCounts, WeighNext, WeighDone,
                TallyNext, TallyDone, PassesExhausted, NoChoice, UndoLast, UndoNet, SwitchBack,
                EndPass, passVars
  <2> QED BY <2>1, BoundOfGains DEF GainInv
<1>8. CASE UNCHANGED vars
  <2>1. UNCHANGED <<h, pc, part, cnt, locked, held, gain, mv>>
    BY <1>8 DEF vars
  <2>2. GMax' = GMax /\ Between' = Between /\ \A u : NetsOf(u)' = NetsOf(u)
    BY <2>1, BoundOfGains DEF Between
  <2>3. \A u : GainOver(u, NetsOf(u) \ Between)' = GainOver(u, NetsOf(u) \ Between)
    BY <2>1, <2>2 DEF GainOver
  <2> QED BY <2>1, <2>2, <2>3 DEF GainInv
<1> QED
  BY <1>1, <1>2, <1>3, <1>4, <1>5, <1>6, <1>7, <1>8 DEF Next, Finished

----------------------------------------------------------------------------
(* What a snapshot of the history holds. *)
LEMMA SnapshotsTyped ==
  ASSUME StateType
  PROVE  /\ Len(hist) \in Nat
         /\ \A i \in 1 .. Len(hist) :
              hist[i].cut \in Int /\ hist[i].part \in [Vertex -> Side]
         /\ InPass /\ HistInv => Len(hist) >= 1 /\ 1 \in 1 .. Len(hist)
                                /\ hist[1].cut \in Int
<1>1. hist \in Seq(SnapshotType) /\ trail \in Seq(Vertex)
  BY DEF StateType
<1>2. Len(hist) \in Nat /\ Len(trail) \in Nat /\ \A i \in 1 .. Len(hist) : hist[i] \in SnapshotType
  BY <1>1
<1>3. \A i \in 1 .. Len(hist) : hist[i].cut \in Int /\ hist[i].part \in [Vertex -> Side]
  <2> SUFFICES ASSUME NEW i \in 1 .. Len(hist)
               PROVE  hist[i].cut \in Int /\ hist[i].part \in [Vertex -> Side]
    OBVIOUS
  <2>1. PICK r \in SnapshotType : r = hist[i]
    BY <1>2
  <2> QED BY <2>1 DEF SnapshotType
<1>4. ASSUME InPass, HistInv PROVE Len(hist) >= 1 /\ 1 \in 1 .. Len(hist)
  BY <1>2, <1>4 DEF HistInv
<1> QED BY <1>2, <1>3, <1>4

(* The gain of the trail is the cut it has saved, less what the nets still  *)
(* to be scanned will save.                                                 *)
LEMMA CumStep ==
  ASSUME StateType, LegalInv, CountInv, EarlyInv, HistInv, GainInv, CumInv, [Next]_vars
  PROVE  CumInv'
<1>0. cut \in Int /\ cum \in Int
  BY DEF StateType, CumInv
<1>1. CASE StartPass
  <2>1. cum' = 0 /\ cut' = cut /\ hist' = <<Snapshot>> /\ pc' = "pick"
    BY <1>1 DEF StartPass, counters
  <2>2. hist'[1].cut = cut
    BY <2>1 DEF Snapshot
  <2> QED BY <1>0, <2>1, <2>2 DEF CumInv
<1>2. CASE Pick
  <2>1. PICK v \in MoveChoices : /\ cum' = cum + gain[v]
                            /\ mv' = [v |-> v, todo |-> NetsOf(v)]
    BY <1>2 DEF Pick
  <2>2. UNCHANGED <<h, part, cnt, cut, hist>> /\ pc = "pick" /\ pc' = "before"
    BY <1>2 DEF Pick, counters
  <2>3. v \in held /\ v \in Vertex
    BY ChoiceFits
  <2>4. gain[v] = GainOver(v, NetsOf(v)) /\ gain[v] \in Int
    <3>1. Between = {} /\ NetsOf(v) \ {} = NetsOf(v)
      BY <2>2 DEF Between
    <3> QED BY <2>2, <2>3, <3>1 DEF GainInv
  <2>5. GainOver(mv.v, mv.todo)' = GainOver(v, NetsOf(v))
    BY <2>1, <2>2 DEF GainOver
  <2>6. cum = hist[1].cut - cut
    BY <2>2 DEF CumInv
  <2>7. cum' = hist'[1].cut - cut' + GainOver(mv.v, mv.todo)' /\ cum' \in Int
    BY <1>0, <2>1, <2>2, <2>4, <2>5, <2>6
  <2> QED BY <2>2, <2>7 DEF CumInv
<1>3. CASE BeforeNet
  <2> DEFINE v == mv.v
             F == part[v]
             T == Other(F)
  <2>1. PICK e \in mv.todo :
          /\ cut' = cut + (IF cnt[e][T] = 0 /\ cnt[e][F] > 1 THEN h.nw[e] ELSE 0)
                        - (IF cnt[e][T] > 0 /\ cnt[e][F] = 1 THEN h.nw[e] ELSE 0)
          /\ cnt' = [cnt EXCEPT ![e] = Shift(@, F, T)]
          /\ mv' = Scanned(e)
    BY <1>3 DEF BeforeNet
  <2>2. /\ pc = "before" /\ pc' = "before" /\ UNCHANGED <<h, part, cum, hist>>
        /\ v \in Vertex /\ mv.todo \subseteq NetsOf(v) /\ F \in Side /\ T \in Side
    BY <1>3 DEF BeforeNet, StateType, Other, Side
  <2>3. mv'.v = v /\ mv'.todo = mv.todo \ {e} /\ e \in NetsOf(v) /\ mv.todo \in SUBSET Net
        /\ e \in Net
    BY <2>1, <2>2 DEF Scanned, NetsOf
  <2>4. GainOver(v, mv.todo) = Contribution(v, e) + GainOver(v, mv.todo \ {e})
    BY <2>2, <2>3, GainSplit
  <2>5. GainOver(v, mv.todo \ {e}) \in Int
    <3>1. mv.todo \ {e} \in SUBSET NetsOf(v)
      BY <2>2
    <3> QED BY <2>2, <3>1, GainBounded
  <2>6. cnt[e][F] \in Nat /\ cnt[e][F] >= 1 /\ cnt[e][T] \in Nat /\ h.nw[e] \in Nat
    BY <2>2, <2>3, PinsCounted, PinsAreVertices, InputShape DEF CountInv
  <2>7. cut' = cut - Contribution(v, e) /\ Contribution(v, e) \in Int
    BY <1>0, <2>1, <2>6 DEF Contribution
  <2>8. GainOver(mv.v, mv.todo)' = GainOver(v, mv.todo \ {e})
    <3>1. \A f \in mv.todo \ {e} : cnt'[f] = cnt[f]
      BY <2>1, <2>3 DEF StateType
    <3>2. /\ {f \in mv.todo \ {e} : cnt'[f][F] = 1} = {f \in mv.todo \ {e} : cnt[f][F] = 1}
          /\ {f \in mv.todo \ {e} : cnt'[f][T] = 0} = {f \in mv.todo \ {e} : cnt[f][T] = 0}
      BY <3>1
    <3> QED BY <2>2, <2>3, <3>2 DEF GainOver
  <2>9. cum = hist[1].cut - cut + GainOver(v, mv.todo)
    BY <2>2 DEF CumInv
  <2>10. cum' = hist'[1].cut - cut' + GainOver(mv.v, mv.todo)'
    <3>1. PICK x : x = hist[1].cut
      OBVIOUS
    <3>2. cum' = cum /\ hist'[1].cut = x
      BY <2>2, <3>1
    <3>3. x \in Int
      <4>1. InPass
        BY <2>2 DEF InPass
      <4> QED BY <3>1, <4>1, SnapshotsTyped
    <3> QED BY <1>0, <2>4, <2>5, <2>7, <2>8, <2>9, <3>1, <3>2, <3>3
  <2> QED BY <1>0, <2>2, <2>10 DEF CumInv
<1>4. CASE SwitchSide
  <2>1. UNCHANGED <<cum, cut, hist>> /\ pc = "before" /\ pc' = "after" /\ mv.todo = {}
    BY <1>4 DEF SwitchSide
  <2>2. GainOver(mv.v, mv.todo) = 0
    <3>1. \A P : {e \in {} : P} = {}
      OBVIOUS
    <3>2. {e \in mv.todo : cnt[e][part[mv.v]] = 1} = {}
          /\ {e \in mv.todo : cnt[e][Other(part[mv.v])] = 0} = {}
      BY <2>1
    <3> QED BY <3>2, SumEmpty DEF GainOver
  <2>3. InPass
    BY <2>1 DEF InPass
  <2>4. hist[1].cut \in Int
    BY <2>3, SnapshotsTyped
  <2> QED BY <1>0, <2>1, <2>2, <2>4 DEF CumInv
<1>5. CASE AfterNet
  <2>1. UNCHANGED <<cum, cut, hist>> /\ pc = "after" /\ pc' = "after"
    BY <1>5 DEF AfterNet, counters
  <2> QED BY <2>1 DEF CumInv
<1>6. CASE RecordMove
  <2>1. UNCHANGED <<cum, cut>> /\ hist' = Append(hist, Snapshot) /\ pc = "after" /\ pc' = "pick"
    BY <1>6 DEF RecordMove, counters
  <2>2. hist \in Seq(SnapshotType) /\ Len(hist) >= 1
    BY <2>1 DEF StateType, HistInv, InPass
  <2>3. hist'[1] = hist[1]
    BY <2>1, <2>2
  <2> QED BY <2>1, <2>3 DEF CumInv
<1>7. CASE GivenInit \/ RandomInit \/ PlaceNext \/ PlaceDone \/ RebuildCounts \/ WeighNext
           \/ WeighDone \/ TallyNext \/ TallyDone \/ PassesExhausted \/ NoChoice \/ UndoLast
           \/ UndoNet \/ SwitchBack \/ EndPass
  <2>1. UNCHANGED cum /\ pc' \notin {"pick", "before", "after"}
    BY <1>7 DEF GivenInit, RandomInit, PlaceNext, PlaceDone, RebuildCounts, WeighNext, WeighDone,
                TallyNext, TallyDone, PassesExhausted, NoChoice, UndoLast, UndoNet, SwitchBack,
                EndPass, passVars
  <2> QED BY <1>0, <2>1 DEF CumInv
<1>8. CASE UNCHANGED vars
  <2>1. UNCHANGED <<h, pc, part, cnt, cut, cum, hist, mv>>
    BY <1>8 DEF vars
  <2>2. GainOver(mv.v, mv.todo)' = GainOver(mv.v, mv.todo)
    BY <2>1 DEF GainOver
  <2> QED BY <2>1, <2>2 DEF CumInv
<1> QED
  BY <1>1, <1>2, <1>3, <1>4, <1>5, <1>6, <1>7, <1>8 DEF Next, Finished

----------------------------------------------------------------------------
(* With exact counts, the nets that cross are those with pins on both sides.*)
LEMMA CutExact ==
  ASSUME StateType, CountInv, CutInv, pc \in {"pass", "pick", "after", "undo", "done"}
  PROVE  cut = CutWith(part) /\ cut = CutOf
<1>1. ASSUME NEW e \in Net, NEW s \in Side
      PROVE  cnt[e][s] > 0 <=> PinsOn(e, s) # {}
  <2>1. cnt[e][s] = CountOf(e, s)
    BY DEF CountInv
  <2>2. IsFiniteSet(PinsOn(e, s)) /\ CountOf(e, s) \in Nat
    BY PinsAreVertices
  <2> QED BY <2>1, <2>2, FS_EmptySet DEF CountOf
<1>2. Crossing = {e \in Net : \A s \in Side : PinsOn(e, s) # {}}
  BY <1>1 DEF Crossing, Side
<1>3. Crossing = {e \in Net : \A s \in Side : {v \in h.pins[e] : part[v] = s} # {}}
  BY <1>2 DEF PinsOn
<1> QED BY <1>2, <1>3 DEF CutInv, CutWith, CutOf

(* Every step keeps the history of cuts, and the best of it, true. *)
LEMMA HistCutStep ==
  ASSUME StateType, CountInv, HistInv, BestInv, CutInv, CumInv, HistCutInv, [Next]_vars
  PROVE  HistCutInv'
<1>1. CASE StartPass
  <2>1. /\ UNCHANGED <<h, part>> /\ pc = "pass" /\ hist' = <<Snapshot>>
        /\ best' = [bal |-> IsBalanced, cum |-> 0, len |-> 0]
    BY <1>1 DEF StartPass
  <2>2. Len(hist') = 1 /\ hist'[1].cut = cut /\ hist'[1].part = part
    BY <2>1 DEF Snapshot
  <2>3. cut = CutWith(part) /\ cut \in Int
    BY <2>1, CutExact DEF StateType
  <2>4. \A i \in 1 .. Len(hist') : i = 1
    BY <2>2
  <2>5. best'.cum = 0 /\ best'.len + 1 = 1 /\ cut - cut = 0
    BY <2>1, <2>3
  <2>6. \A i : (CutWith(hist[i].part))' = CutWith(hist'[i].part)
    BY <2>1 DEF CutWith
  <2>7. \A i \in 1 .. Len(hist') : hist'[i].cut = CutWith(hist'[i].part)
    BY <2>2, <2>3, <2>4
  <2>8. best'.cum = hist'[1].cut - hist'[best'.len + 1].cut
    BY <2>2, <2>5
  <2>9. \A i \in 1 .. Len(hist') : hist'[1].cut - hist'[i].cut <= best'.cum
    BY <2>2, <2>3, <2>4, <2>5
  <2>10. best'.cum \in Int
    BY <2>5
  <2> QED BY <2>6, <2>7, <2>8, <2>9, <2>10 DEF HistCutInv
<1>2. CASE RecordMove
  <2>0. PICK n : n = Len(trail) + 1
    OBVIOUS
  <2>1. /\ hist' = Append(hist, Snapshot) /\ UNCHANGED <<h, part, cut>> /\ pc = "after"
        /\ best' = IF Better(IsBalanced, cum)
                   THEN [bal |-> IsBalanced, cum |-> cum, len |-> n] ELSE best
    BY <1>2, <2>0 DEF RecordMove, counters
  <2>2. InPass
    BY <2>1 DEF InPass
  <2>3. /\ hist \in Seq(SnapshotType) /\ Len(hist) = n /\ n \in Nat /\ n >= 1
        /\ best.len + 1 \in 1 .. n /\ best.bal \in BOOLEAN /\ best.cum \in Int
        /\ cum \in Int /\ cut \in Int
    BY <2>0, <2>1, <2>2 DEF StateType, HistInv, BestInv, HistCutInv, CumInv
  <2>4. /\ Len(hist') = n + 1 /\ \A i \in 1 .. n : hist'[i] = hist[i]
        /\ hist'[n + 1] = Snapshot
    BY <2>1, <2>3
  <2>5. /\ hist'[n + 1].cut = cut /\ hist'[n + 1].part = part /\ hist'[n + 1].wsum = wsum
        /\ wsum' = wsum
    BY <1>2, <2>4 DEF Snapshot, RecordMove, counters
  <2>6. cut = CutWith(part) /\ cum = hist[1].cut - cut
    BY <2>1, CutExact DEF CumInv
  <2>7. /\ \A i \in 1 .. n : BalancedAt(i)' = BalancedAt(i)
        /\ BalancedAt(n + 1)' = IsBalanced
    BY <2>1, <2>4, <2>5, BoundKept DEF BalancedAt, IsBalanced, Side
  <2>8. /\ \A i \in 1 .. n : hist[i].cut = CutWith(hist[i].part)
        /\ best.cum = hist[1].cut - hist[best.len + 1].cut
        /\ \A i \in 1 .. n :
             (best.bal /\ ~BalancedAt(i)) \/ hist[1].cut - hist[i].cut <= best.cum
        /\ \A i \in 1 .. n : BalancedAt(i) => best.bal
    BY <2>2, <2>3 DEF HistCutInv, BestInv
  <2>9. \A i \in 1 .. n + 1 : i \in 1 .. n \/ i = n + 1
    BY <2>3
  <2>10. \A i \in 1 .. n + 1 : hist'[i].cut = CutWith(hist'[i].part)
    BY <2>4, <2>5, <2>6, <2>8, <2>9
  <2>11. 1 \in 1 .. n /\ hist'[1].cut = hist[1].cut /\ hist'[n + 1].cut = cut
    BY <2>3, <2>4, <2>5
  <2>12. \A i \in 1 .. n : hist[i].cut \in Int
    BY <2>3, SnapshotsTyped
  <2>13. /\ best'.cum \in Int
         /\ best'.cum = hist'[1].cut - hist'[best'.len + 1].cut
         /\ \A i \in 1 .. n + 1 :
              (best'.bal /\ ~BalancedAt(i)') \/ hist'[1].cut - hist'[i].cut <= best'.cum
    <3>1. CASE Better(IsBalanced, cum)
      <4>1. best'.bal = IsBalanced /\ best'.cum = cum /\ best'.len = n
        BY <2>1, <3>1
      <4>2. ASSUME NEW i \in 1 .. n
            PROVE  (IsBalanced /\ ~BalancedAt(i)) \/ hist[1].cut - hist[i].cut <= cum
        <5>1. CASE IsBalanced /\ ~best.bal
          BY <2>8, <5>1
        <5>2. CASE IsBalanced = best.bal /\ cum > best.cum
          <6>1. (best.bal /\ ~BalancedAt(i)) \/ hist[1].cut - hist[i].cut <= best.cum
            BY <2>8
          <6> QED BY <2>3, <2>11, <2>12, <5>2, <6>1
        <5> QED BY <3>1, <5>1, <5>2 DEF Better
      <4>3. ASSUME NEW i \in 1 .. n + 1
            PROVE  (best'.bal /\ ~BalancedAt(i)') \/ hist'[1].cut - hist'[i].cut <= best'.cum
        <5>1. CASE i \in 1 .. n
          BY <2>4, <2>7, <2>11, <4>1, <4>2, <5>1
        <5>2. CASE i = n + 1
          BY <2>3, <2>6, <2>11, <4>1, <5>2
        <5> QED BY <2>9, <5>1, <5>2
      <4> QED BY <2>3, <2>6, <2>11, <4>1, <4>3
    <3>2. CASE ~Better(IsBalanced, cum)
      <4>1. best' = best
        BY <2>1, <3>2
      <4>2. (best.bal /\ ~IsBalanced) \/ hist[1].cut - cut <= best.cum
        <5>1. IsBalanced \in BOOLEAN
          BY DEF IsBalanced
        <5>2. (best.bal /\ ~IsBalanced) \/ cum <= best.cum
          BY <2>3, <3>2, <5>1 DEF Better
        <5> QED BY <2>6, <5>2
      <4>3. ASSUME NEW i \in 1 .. n + 1
            PROVE  (best'.bal /\ ~BalancedAt(i)') \/ hist'[1].cut - hist'[i].cut <= best'.cum
        <5>1. CASE i \in 1 .. n
          BY <2>4, <2>7, <2>8, <2>11, <4>1, <5>1
        <5>2. CASE i = n + 1
          BY <2>7, <2>11, <4>1, <4>2, <5>2
        <5> QED BY <2>9, <5>1, <5>2
      <4> QED BY <2>3, <2>4, <2>8, <2>11, <4>1, <4>3
    <3> QED BY <3>1, <3>2
  <2>14. \A i : CutWith(hist'[i].part) = (CutWith(hist[i].part))'
    BY <2>1 DEF CutWith
  <2> QED BY <2>4, <2>10, <2>13, <2>14 DEF HistCutInv, BalancedAt
<1>3. CASE Pick \/ NoChoice \/ BeforeNet \/ SwitchSide \/ AfterNet \/ UndoLast \/ UndoNet
           \/ SwitchBack \/ UNCHANGED vars
  <2>1. UNCHANGED <<h, hist, best>> /\ (InPass' => InPass)
    BY <1>3 DEF Pick, NoChoice, BeforeNet, SwitchSide, AfterNet, UndoLast, UndoNet, SwitchBack,
                vars, counters, passVars, InPass
  <2>2. \A i : BalancedAt(i)' = BalancedAt(i)
    BY <2>1, BoundKept DEF BalancedAt
  <2>3. \A i : (CutWith(hist[i].part))' = CutWith(hist[i].part)
    BY <2>1 DEF CutWith
  <2> QED BY <2>1, <2>2, <2>3 DEF HistCutInv
<1>4. CASE GivenInit \/ RandomInit \/ PlaceNext \/ PlaceDone \/ RebuildCounts \/ WeighNext
           \/ WeighDone \/ TallyNext \/ TallyDone \/ PassesExhausted \/ EndPass
  <2>1. pc' \notin {"pick", "before", "after", "undo", "back"} /\ best' = best
    BY <1>4 DEF GivenInit, RandomInit, PlaceNext, PlaceDone, RebuildCounts, WeighNext,
                WeighDone, TallyNext, TallyDone, PassesExhausted, EndPass, passVars
  <2> QED BY <2>1 DEF HistCutInv, InPass
<1> QED
  BY <1>1, <1>2, <1>3, <1>4 DEF Next, Finished

----------------------------------------------------------------------------
(* What a pass keeps is no worse than what it began with. *)
LEMMA BestOfPass ==
  ASSUME IInv, HistCutInv, CutInv, PassEnd
  PROVE  /\ cut = hist[best.len + 1].cut
         /\ \A i \in 1 .. Len(hist) : cut <= hist[i].cut \/ (IsBalanced /\ ~BalancedAt(i))
<1>1. InPass /\ pc = "undo" /\ StateType /\ CountInv /\ HistInv
  BY DEF PassEnd, InPass, IInv
<1>2. /\ best.len + 1 \in 1 .. Len(hist) /\ part = hist[best.len + 1].part
      /\ best.bal <=> IsBalanced
  BY EndOfPass
<1>3. cut = hist[best.len + 1].cut
  BY <1>1, <1>2, CutExact DEF HistCutInv
<1>4. /\ best.cum = hist[1].cut - cut
      /\ \A i \in 1 .. Len(hist) :
           (best.bal /\ ~BalancedAt(i)) \/ hist[1].cut - hist[i].cut <= best.cum
  BY <1>1, <1>3 DEF HistCutInv
<1>5. hist[1].cut \in Int /\ cut \in Int /\ \A i \in 1 .. Len(hist) : hist[i].cut \in Int
  BY <1>1, SnapshotsTyped DEF StateType
<1>6. ASSUME NEW i \in 1 .. Len(hist)
      PROVE  cut <= hist[i].cut \/ (IsBalanced /\ ~BalancedAt(i))
  <2>1. (IsBalanced /\ ~BalancedAt(i)) \/ hist[1].cut - hist[i].cut <= hist[1].cut - cut
    BY <1>2, <1>4
  <2>2. hist[1].cut \in Int /\ cut \in Int /\ hist[i].cut \in Int
    BY <1>5
  <2> QED BY <2>1, <2>2
<1> QED BY <1>3, <1>6

(* A cut is a sum of weights. *)
LEMMA CutNatural ==
  ASSUME StateType, CutInv
  PROVE  cut \in Nat
<1>1. Crossing \in SUBSET Net
  BY DEF Crossing
<1> QED BY <1>1, NetWeights DEF CutInv

(* Every step keeps a balanced start balanced and its cut a bound. *)
LEMMA RunStep ==
  ASSUME IInv, IInv', HistCutInv, CutInv, CutInv', RunInv, [Next]_vars
  PROVE  RunInv'
<1>0. /\ StateType /\ h.maxPasses \in Nat /\ IsBalanced \in BOOLEAN /\ cut \in Nat
      /\ pass \in 0 .. h.maxPasses /\ was \in BOOLEAN /\ start \in [cut : Nat, bal : BOOLEAN]
  BY InputsAssumption, CutNatural DEF IInv, StateType, InputType, IsBalanced, RunInv
<1>1. CASE TallyDone
  <2>1. /\ UNCHANGED <<h, wsum, cut, pass, was>> /\ pc' = "pass"
        /\ start' = [cut |-> cut, bal |-> IsBalanced]
    BY <1>1 DEF TallyDone, counters
  <2>2. IsBalanced' = IsBalanced
    BY <2>1, BoundKept DEF IsBalanced
  <2>3. start' \in [cut : Nat, bal : BOOLEAN] /\ start'.cut = cut /\ start'.bal = IsBalanced
    BY <1>0, <2>1
  <2> QED BY <1>0, <2>1, <2>2, <2>3 DEF RunInv, InPass
<1>2. CASE StartPass
  <2>1. /\ UNCHANGED <<h, wsum, cut, start>> /\ pc = "pass" /\ pc' = "pick"
        /\ pass < h.maxPasses /\ pass' = pass + 1 /\ was' = IsBalanced /\ hist' = <<Snapshot>>
    BY <1>2 DEF StartPass, counters
  <2>2. hist'[1].cut = cut /\ hist'[1].wsum = wsum
    BY <2>1 DEF Snapshot
  <2>3. BalancedAt(1)' <=> IsBalanced
    BY <2>1, <2>2, BoundKept DEF BalancedAt, IsBalanced, Side
  <2>4. pass' \in 0 .. h.maxPasses
    BY <1>0, <2>1
  <2> QED BY <1>0, <2>1, <2>2, <2>3, <2>4 DEF RunInv, InPass
<1>3. CASE PassesExhausted
  <2>1. UNCHANGED <<h, wsum, cut, start, pass, was>> /\ pc = "pass" /\ pc' = "done"
    BY <1>3 DEF PassesExhausted, counters, runVars
  <2>2. IsBalanced' = IsBalanced
    BY <2>1, BoundKept DEF IsBalanced
  <2> QED BY <1>0, <2>1, <2>2 DEF RunInv, InPass
<1>4. CASE EndPass
  <2>1. /\ UNCHANGED <<h, wsum, cut, start, pass, was>> /\ pc' \in {"done", "pass"} /\ PassEnd
        /\ InPass
    BY <1>4 DEF EndPass, counters, runVars, PassEnd, InPass
  <2>2. IsBalanced' = IsBalanced
    BY <2>1, BoundKept DEF IsBalanced
  <2>3. start.bal => IsBalanced /\ cut <= start.cut
    <3>1. 1 \in 1 .. Len(hist) /\ hist[1].cut \in Int
      BY <2>1, SnapshotsTyped DEF IInv
    <3>2. (BalancedAt(1) => IsBalanced)
          /\ (cut <= hist[1].cut \/ (IsBalanced /\ ~BalancedAt(1)))
      BY <2>1, <3>1, EndOfPass, BestOfPass
    <3>3. start.bal => BalancedAt(1) /\ hist[1].cut <= start.cut
      BY <2>1 DEF RunInv
    <3>4. start.cut \in Int
      BY <1>0
    <3> QED BY <1>0, <3>1, <3>2, <3>3, <3>4
  <2> QED BY <1>0, <2>1, <2>2, <2>3 DEF RunInv, InPass
<1>5. CASE RecordMove
  <2>1. /\ UNCHANGED <<h, start, pass, was>> /\ hist' = Append(hist, Snapshot)
        /\ pc = "after" /\ pc' = "pick"
    BY <1>5 DEF RecordMove, runVars
  <2>2. InPass
    BY <2>1 DEF InPass
  <2>3. hist \in Seq(SnapshotType) /\ Len(hist) >= 1
    BY <2>2, SnapshotsTyped DEF IInv, StateType
  <2>4. hist'[1] = hist[1]
    BY <2>1, <2>3
  <2>5. BalancedAt(1)' = BalancedAt(1)
    BY <2>1, <2>4, BoundKept DEF BalancedAt
  <2> QED BY <1>0, <2>1, <2>2, <2>4, <2>5 DEF RunInv, InPass
<1>6. CASE Pick \/ NoChoice \/ BeforeNet \/ SwitchSide \/ AfterNet \/ UndoLast \/ UndoNet
           \/ SwitchBack
  <2>1. UNCHANGED <<h, hist, start, pass, was>> /\ InPass
        /\ pc' \in {"pick", "before", "after", "undo", "back"}
    BY <1>6 DEF Pick, NoChoice, BeforeNet, SwitchSide, AfterNet, UndoLast, UndoNet, SwitchBack,
                passVars, runVars, InPass
  <2>2. BalancedAt(1)' = BalancedAt(1)
    BY <2>1, BoundKept DEF BalancedAt
  <2> QED BY <1>0, <2>1, <2>2 DEF RunInv, InPass
<1>7. CASE GivenInit \/ RandomInit \/ PlaceNext \/ PlaceDone \/ RebuildCounts \/ WeighNext
           \/ WeighDone \/ TallyNext
  <2>1. UNCHANGED <<h, start, pass, was>>
        /\ pc' \notin {"pass", "done", "pick", "before", "after", "undo", "back"}
    BY <1>7 DEF GivenInit, RandomInit, PlaceNext, PlaceDone, RebuildCounts, WeighNext, WeighDone,
                TallyNext, runVars
  <2> QED BY <1>0, <2>1 DEF RunInv, InPass
<1>8. CASE UNCHANGED vars
  <2>1. UNCHANGED <<h, pc, wsum, cut, hist, start, pass, was>>
    BY <1>8 DEF vars
  <2>2. BalancedAt(1)' = BalancedAt(1) /\ IsBalanced' = IsBalanced
    BY <2>1, BoundKept DEF BalancedAt, IsBalanced
  <2> QED BY <1>0, <2>1, <2>2 DEF RunInv, InPass
<1> QED
  BY <1>1, <1>2, <1>3, <1>4, <1>5, <1>6, <1>7, <1>8 DEF Next, Finished

----------------------------------------------------------------------------
(* The inductive invariant: IInv and the sums. *)
SumInv == EarlyInv /\ WeightInv /\ CutInv /\ GainInv /\ CumInv /\ HistCutInv /\ RunInv

LEMMA InitSumInv == Init => SumInv
<1> SUFFICES ASSUME Init PROVE SumInv
  OBVIOUS
<1>1. /\ pc = "init" /\ cut = 0 /\ cum = 0 /\ held = {} /\ pass = 0 /\ was = FALSE
      /\ \A e \in Net, s \in Side : cnt[e][s] = 0
      /\ wsum = [s \in Side |-> 0] /\ gain = [v \in Vertex |-> 0]
      /\ best.cum = 0 /\ start = [cut |-> 0, bal |-> FALSE]
  BY DEF Init
<1>2. CutInv
  <2>1. Crossing = {}
    BY <1>1 DEF Crossing, Side
  <2> QED BY <1>1, <2>1, SumEmpty DEF CutInv
<1>3. h.maxPasses \in Nat
  BY InputsAssumption DEF Init, InputType
<1>4. EarlyInv /\ WeightInv
  BY <1>1 DEF EarlyInv, Early, WeightInv
<1>5. GainInv /\ CumInv /\ HistCutInv
  BY <1>1 DEF GainInv, CumInv, HistCutInv, InPass
<1>6. RunInv
  <2>1. pass \in 0 .. h.maxPasses
    BY <1>1, <1>3
  <2>2. was \in BOOLEAN
    BY <1>1
  <2>3. start \in [cut : Nat, bal : BOOLEAN]
    <3>1. start = [cut |-> 0, bal |-> FALSE]
      BY <1>1
    <3> QED BY <3>1
  <2>4. pc \notin {"pass", "done", "pick", "before", "after", "undo", "back"}
    BY <1>1
  <2> QED BY <2>1, <2>2, <2>3, <2>4 DEF RunInv, InPass
<1> QED BY <1>2, <1>4, <1>5, <1>6 DEF SumInv

LEMMA StepSumInv == IInv /\ IInv' /\ SumInv /\ [Next]_vars => SumInv'
<1> SUFFICES ASSUME IInv, IInv', SumInv, [Next]_vars PROVE SumInv'
  OBVIOUS
<1>1. StateType /\ LegalInv /\ CountInv /\ HistInv /\ BestInv
  BY DEF IInv
<1>2. EarlyInv'
  BY <1>1, EarlyStep DEF SumInv
<1>3. WeightInv'
  BY <1>1, WeightStep DEF SumInv
<1>4. CutInv'
  BY <1>1, <1>2, CutStep DEF SumInv
<1>5. GainInv'
  BY <1>1, GainStep DEF SumInv
<1>6. CumInv'
  BY <1>1, CumStep DEF SumInv
<1>7. HistCutInv'
  BY <1>1, HistCutStep DEF SumInv
<1>8. RunInv'
  BY <1>4, RunStep DEF SumInv
<1> QED BY <1>2, <1>3, <1>4, <1>5, <1>6, <1>7, <1>8 DEF SumInv

LEMMA SumInvAlways == Spec => [](IInv /\ SumInv)
BY InitIInv, StepIInv, InitSumInv, StepSumInv, PTL DEF Spec

(* Between moves the side weights and the cut are those of the partition,   *)
(* and when a vertex is picked every unlocked vertex is in the buckets with *)
(* the gain it would be given afresh; no gain ever leaves the range of the  *)
(* bucket array, even half-way through a move (fmpart.hpp:239-318, 323-375; *)
(* fm_buckets.hpp:35).                                                      *)
THEOREM SumsAreExact == Spec => []CutAndGainsExact
<1>1. IInv /\ SumInv => CutAndGainsExact
  <2> SUFFICES ASSUME IInv, SumInv PROVE CutAndGainsExact
    OBVIOUS
  <2>1. StateType /\ CountInv /\ EarlyInv /\ WeightInv /\ CutInv /\ GainInv /\ CumInv
        /\ HistCutInv /\ RunInv
    BY DEF IInv, SumInv
  <2>2. TypeOK
    BY <2>1, CountsNatural, CutNatural
       DEF TypeOK, WeightInv, GainInv, CumInv, HistCutInv, RunInv
  <2>3. Settled => (\A s \in Side : wsum[s] = WeightOf(s)) /\ cut = CutOf
    BY <2>1, CutExact DEF Settled, WeightInv, Early
  <2>4. ASSUME pc = "pick"
        PROVE  /\ held = Vertex \ locked
               /\ \A v \in held : gain[v] = ComputeGain(v, cnt)
               /\ cum = hist[1].cut - cut
    <3>1. Between = {} /\ \A v : NetsOf(v) \ {} = NetsOf(v)
      BY <2>4 DEF Between
    <3>2. \A v \in held : gain[v] = GainOver(v, NetsOf(v))
      BY <2>1, <2>4, <3>1 DEF GainInv
    <3>3. \A v : ComputeGain(v, cnt) = GainOver(v, NetsOf(v))
      BY DEF ComputeGain, GainOver
    <3> QED BY <2>1, <2>4, <3>2, <3>3 DEF GainInv, CumInv
  <2> QED BY <2>2, <2>3, <2>4 DEF CutAndGainsExact
<1> QED BY <1>1, SumInvAlways, PTL

(* A pass keeps the best of the solutions it went through, judged by their  *)
(* true cuts, and a run that begins balanced ends balanced with a cut no    *)
(* larger than it began with (fmpart.hpp:146-158, 435-448).                 *)
THEOREM RunNeverWorse == Spec => []RunImproves
<1>1. IInv /\ SumInv => RunImproves
  <2> SUFFICES ASSUME IInv, SumInv PROVE RunImproves
    OBVIOUS
  <2>1. PassEnd => \A i \in 1 .. Len(hist) : cut <= hist[i].cut \/ (IsBalanced /\ ~BalancedAt(i))
    BY BestOfPass DEF SumInv
  <2>2. pc = "done" /\ start.bal => IsBalanced /\ cut <= start.cut
    BY DEF SumInv, RunInv
  <2> QED BY <2>1, <2>2 DEF RunImproves
<1> QED BY <1>1, SumInvAlways, PTL

----------------------------------------------------------------------------
(* Ranks number a finite set of naturals from 1 without gaps. *)
LEMMA RankOrder ==
  ASSUME NEW S \in SUBSET Nat, IsFiniteSet(S), NEW x \in S
  PROVE  /\ Rank(x, S) \in 1 .. Cardinality(S)
         /\ \A y \in S : x < y => Rank(x, S) < Rank(y, S)
<1> DEFINE UpTo(y) == {z \in S : z <= y}
<1>1. \A y : IsFiniteSet(UpTo(y)) /\ Cardinality(UpTo(y)) \in Nat
             /\ Cardinality(UpTo(y)) <= Cardinality(S)
  <2> SUFFICES ASSUME NEW y
               PROVE  IsFiniteSet(UpTo(y)) /\ Cardinality(UpTo(y)) \in Nat
                      /\ Cardinality(UpTo(y)) <= Cardinality(S)
    OBVIOUS
  <2>1. UpTo(y) \in SUBSET S
    OBVIOUS
  <2> HIDE DEF UpTo
  <2> QED BY <2>1, FS_Subset, FS_CardinalityType
<1>2. Cardinality(UpTo(x)) # 0
  <2>1. x \in UpTo(x)
    OBVIOUS
  <2> HIDE DEF UpTo
  <2> QED BY <2>1, <1>1, FS_EmptySet
<1>3. ASSUME NEW y \in S, x < y PROVE Cardinality(UpTo(x)) < Cardinality(UpTo(y))
  <2>1. x \in Int /\ y \in Int /\ \A z \in S : z \in Int
    OBVIOUS
  <2>2. \A z \in S : z <= x => z <= y
    BY <1>3, <2>1
  <2>3. y <= y /\ ~ (y <= x)
    BY <1>3, <2>1
  <2>4. UpTo(x) \in SUBSET UpTo(y) /\ y \in UpTo(y) /\ y \notin UpTo(x)
    BY <2>2, <2>3
  <2> HIDE DEF UpTo
  <2>5. Cardinality(UpTo(x)) <= Cardinality(UpTo(y)) /\ Cardinality(UpTo(x)) # Cardinality(UpTo(y))
    BY <1>1, <2>4, FS_Subset
  <2> QED BY <1>1, <2>5
<1>4. \A y : Rank(y, S) = Cardinality(UpTo(y))
  BY DEF Rank
<1>5. Cardinality(S) \in Nat
  BY FS_CardinalityType
<1> HIDE DEF UpTo
<1> QED BY <1>1, <1>2, <1>3, <1>4, <1>5

LEMMA RankInjective ==
  ASSUME NEW S \in SUBSET Nat, IsFiniteSet(S), NEW x \in S, NEW y \in S, Rank(x, S) = Rank(y, S)
  PROVE  x = y
<1>1. Rank(x, S) \in Int /\ Rank(y, S) \in Int
  BY RankOrder
<1>2. ~ (x < y) /\ ~ (y < x)
  BY <1>1, RankOrder
<1> QED BY <1>2

LEMMA RankOnto ==
  ASSUME NEW S \in SUBSET Nat, IsFiniteSet(S), NEW i \in 1 .. Cardinality(S)
  PROVE  \E x \in S : Rank(x, S) = i
<1> DEFINE N == 1 .. Cardinality(S)
           r == [x \in S |-> Rank(x, S)]
<1>1. Cardinality(S) \in Nat
  BY FS_CardinalityType
<1>2. IsFiniteSet(N) /\ Cardinality(N) = Cardinality(S)
  BY <1>1, FS_Interval
<1>3. r \in Injection(S, N)
  <2>1. \A x \in S : Rank(x, S) \in N
    BY RankOrder
  <2>2. \A x, y \in S : Rank(x, S) = Rank(y, S) => x = y
    BY RankInjective
  <2> HIDE DEF N
  <2> QED BY <2>1, <2>2 DEF Injection, IsInjective
<1>4. r \in Surjection(S, N)
  <2> HIDE DEF r, N
  <2> QED BY <1>2, <1>3, FS_Injection
<1>5. \E x \in S : r[x] = i
  BY <1>4 DEF Surjection
<1> QED BY <1>5

(* The nets of a network's hypergraph are those of its carriers, numbered   *)
(* by rank.                                                                 *)
LEMMA NetOfCarrier ==
  ASSUME NEW n \in Netlists, NEW o \in Carriers(n)
  PROVE  /\ Rank(o, Carriers(n)) \in DOMAIN Wrapped(n)
         /\ Wrapped(n)[Rank(o, Carriers(n))] = Pins(n, o)
<1> DEFINE K == Carriers(n)
<1>1. K \in SUBSET Nat /\ IsFiniteSet(K)
  BY NetlistAssumption, FS_Subset DEF Carriers, HyperNodes
<1>2. Rank(o, K) \in 1 .. Cardinality(K)
  BY <1>1, RankOrder
<1>3. (CHOOSE u \in K : Rank(u, K) = Rank(o, K)) = o
  BY <1>1, RankInjective
<1> QED BY <1>2, <1>3 DEF Wrapped

LEMMA CarrierOfNet ==
  ASSUME NEW n \in Netlists, NEW e \in DOMAIN Wrapped(n)
  PROVE  \E o \in Carriers(n) : e = Rank(o, Carriers(n))
<1>1. Carriers(n) \in SUBSET Nat /\ IsFiniteSet(Carriers(n))
  BY NetlistAssumption, FS_Subset DEF Carriers, HyperNodes
<1>2. e \in 1 .. Cardinality(Carriers(n))
  BY DEF Wrapped
<1> QED BY <1>1, <1>2, RankOnto

(* The cut nets of the hypergraph, as many as carriers with pins on either  *)
(* side.                                                                    *)
Split(n) == {o \in Carriers(n) : \A s \in Side : \E v \in Pins(n, o) : part[v] = s}

LEMMA CutCarriers ==
  ASSUME NEW n \in Netlists, Hypergraphs[n] = h.pins, h.pins \in [Net -> SUBSET Vertex]
  PROVE  LET C == {e \in Net : \A s \in Side : PinsOn(e, s) # {}}
         IN  IsFiniteSet(Split(n)) /\ Cardinality(C) = Cardinality(Split(n))
<1> DEFINE K == Carriers(n)
           C == {e \in Net : \A s \in Side : PinsOn(e, s) # {}}
           r == [o \in Split(n) |-> Rank(o, K)]
<1>1. K \in SUBSET Nat /\ IsFiniteSet(K) /\ Split(n) \in SUBSET K
  BY NetlistAssumption, FS_Subset DEF Carriers, HyperNodes, Split
<1>2. IsFiniteSet(Split(n))
  BY <1>1, FS_Subset
<1>3. h.pins = Wrapped(n) /\ Net = DOMAIN Wrapped(n)
  BY DEF Hypergraphs
<1>4. ASSUME NEW o \in K
      PROVE  Rank(o, K) \in Net /\ (Rank(o, K) \in C <=> o \in Split(n))
  <2>1. Rank(o, K) \in Net /\ h.pins[Rank(o, K)] = Pins(n, o)
    BY <1>3, NetOfCarrier
  <2>2. \A s \in Side : PinsOn(Rank(o, K), s) # {} <=> \E v \in Pins(n, o) : part[v] = s
    BY <2>1 DEF PinsOn
  <2> QED BY <2>1, <2>2 DEF Split
<1>5. \A e \in C : \E o \in Split(n) : r[o] = e
  <2> SUFFICES ASSUME NEW e \in C PROVE \E o \in Split(n) : Rank(o, K) = e
    OBVIOUS
  <2>1. PICK o \in K : e = Rank(o, K)
    BY <1>3, CarrierOfNet
  <2> QED BY <2>1, <1>4
<1>6. \A o \in Split(n) : r[o] \in C
  BY <1>1, <1>4
<1>7. \A o, u \in Split(n) : r[o] = r[u] => o = u
  BY <1>1, RankInjective
<1>8. r \in Surjection(Split(n), C) /\ r \in Injection(Split(n), C)
  <2>1. r \in [Split(n) -> C]
    BY <1>6
  <2> HIDE DEF r, C
  <2> QED BY <2>1, <1>5, <1>7 DEF Surjection, Injection, IsInjective
<1>9. Cardinality(C) = Cardinality(Split(n))
  <2> HIDE DEF r, C
  <2> QED BY <1>2, <1>8, FS_Surjection
<1> QED BY <1>2, <1>9

(* Direct fanouts are among the objects visited, and when there is nothing  *)
(* to traverse they are all of them.                                        *)
LEMMA DirectFanouts ==
  ASSUME NEW n, NEW o
  PROVE  /\ FanoutsOf(n, o) \subseteq Visited(n, o)
         /\ Combinational(n) => Visited(n, o) = FanoutsOf(n, o)
<1>1. FanoutsOf(n, o) \subseteq Objects(n)
  BY DEF FanoutsOf
<1>2. FanoutsOf(n, o) \subseteq Visited(n, o)
  BY <1>1 DEF Visited
<1>3. ASSUME Combinational(n) PROVE Visited(n, o) \subseteq FanoutsOf(n, o)
  <2>1. \A x \in Objects(n) : ~ShouldTraverse(n, x)
    BY <1>3 DEF Combinational, ShouldTraverse
  <2>2. Complete(n, FanoutsOf(n, o))
    BY <1>1, <2>1 DEF Complete
  <2> QED BY <1>1, <2>2 DEF Visited
<1> QED BY <1>2, <1>3

(* The nets that the partition database counts are those of split carriers. *)
NetDrivers(n) ==
  {u \in {o \in Objects(n) : IsPartStatVertex(n, o)} :
     \E v \in {o \in Objects(n) : IsPartStatVertex(n, o)} \cap FanoutsOf(n, u) :
       part[VertexOf(n, u)] # part[VertexOf(n, v)]}

LEMMA PinsShape ==
  ASSUME NEW n \in Netlists, NEW o \in HyperNodes(n)
  PROVE  /\ VertexOf(n, o) \in Pins(n, o) /\ IsFiniteSet(Pins(n, o))
         /\ \A p \in Pins(n, o) : p # VertexOf(n, o) => o \in Carriers(n)
<1> DEFINE X == {o} \cup Sinks(n, o)
           f == [x \in X |-> VertexOf(n, x)]
<1>1. IsFiniteSet(X)
  <2>1. X \in SUBSET Objects(n)
    BY DEF Sinks, Visited, HyperNodes
  <2> HIDE DEF X
  <2> QED BY <2>1, NetlistAssumption, FS_Subset
<1>2. f \in Surjection(X, Pins(n, o))
  BY DEF Surjection, Pins
<1>3. IsFiniteSet(Pins(n, o))
  <2> HIDE DEF X, f
  <2> QED BY <1>1, <1>2, FS_Surjection
<1>4. VertexOf(n, o) \in Pins(n, o)
  BY DEF Pins
<1>5. ASSUME NEW p \in Pins(n, o), p # VertexOf(n, o) PROVE o \in Carriers(n)
  <2>1. Cardinality(Pins(n, o)) \in Nat
    BY <1>3, FS_CardinalityType
  <2>2. Cardinality(Pins(n, o)) # 0 /\ Cardinality(Pins(n, o)) # 1
    BY <1>3, <1>4, <1>5, FS_EmptySet, FS_Singleton
  <2> QED BY <2>1, <2>2 DEF Carriers
<1> QED BY <1>3, <1>4, <1>5

LEMMA PinsInVertex ==
  ASSUME NEW n \in Netlists, Hypergraphs[n] = h.pins, h.pins \in [Net -> SUBSET Vertex],
         NEW o \in Carriers(n)
  PROVE  Pins(n, o) \subseteq Vertex
<1>1. h.pins = Wrapped(n) /\ Net = DOMAIN Wrapped(n)
  BY DEF Hypergraphs
<1> QED BY <1>1, NetOfCarrier

LEMMA DriversAreSplit ==
  ASSUME NEW n \in Netlists, Hypergraphs[n] = h.pins, h.pins \in [Net -> SUBSET Vertex],
         part \in [Vertex -> Side]
  PROVE  /\ NetDrivers(n) \subseteq Split(n)
         /\ Combinational(n) => Split(n) \subseteq NetDrivers(n)
<1>0. \A o \in Objects(n) : IsPartStatVertex(n, o) => o \in HyperNodes(n)
  BY DEF IsPartStatVertex, HyperNodes, IsHyperNode
<1>1. ASSUME NEW u \in NetDrivers(n) PROVE u \in Split(n)
  <2>1. PICK v \in FanoutsOf(n, u) :
           /\ v \in HyperNodes(n)
           /\ part[VertexOf(n, u)] # part[VertexOf(n, v)]
    BY <1>0 DEF NetDrivers
  <2>2. u \in HyperNodes(n)
    BY <1>0 DEF NetDrivers
  <2>3. v \in Sinks(n, u)
    BY <2>1, DirectFanouts DEF Sinks, HyperNodes
  <2>4. VertexOf(n, v) \in Pins(n, u) /\ VertexOf(n, u) \in Pins(n, u)
    BY <2>3 DEF Pins
  <2>5. u \in Carriers(n)
    BY <2>1, <2>2, <2>4, PinsShape
  <2>6. part[VertexOf(n, v)] \in Side /\ part[VertexOf(n, u)] \in Side
    BY <2>4, <2>5, PinsInVertex
  <2>7. \A s \in Side : s = part[VertexOf(n, v)] \/ s = part[VertexOf(n, u)]
    BY <2>1, <2>6 DEF Side
  <2> QED BY <2>4, <2>5, <2>7 DEF Split
<1>2. ASSUME Combinational(n), NEW u \in Split(n) PROVE u \in NetDrivers(n)
  <2>1. u \in Carriers(n) /\ u \in HyperNodes(n) /\ u \in Objects(n)
    BY DEF Split, Carriers, HyperNodes
  <2>2. \A o \in HyperNodes(n) : o \in Objects(n) /\ IsPartStatVertex(n, o)
    BY <1>2 DEF IsPartStatVertex, HyperNodes, IsHyperNode, Combinational
  <2>3. part[VertexOf(n, u)] \in Side
    BY <2>1, PinsInVertex, PinsShape
  <2>4. PICK p \in Pins(n, u) : part[p] # part[VertexOf(n, u)]
    <3>1. \E s \in Side : s # part[VertexOf(n, u)]
      BY <2>3 DEF Side
    <3> QED BY <3>1 DEF Split
  <2>5. PICK v \in Sinks(n, u) : p = VertexOf(n, v)
    BY <2>4 DEF Pins
  <2>6. v \in FanoutsOf(n, u) /\ v \in HyperNodes(n)
    BY <1>2, DirectFanouts DEF Sinks, HyperNodes, Visited
  <2> QED BY <2>1, <2>2, <2>4, <2>5, <2>6 DEF NetDrivers
<1> QED BY <1>1, <1>2

LEMMA NetworkCutHolds ==
  ASSUME Settled => cut = CutOf, h \in Inputs, part \in [Vertex -> Side]
  PROVE  NetworkCut
<1> SUFFICES ASSUME Settled, NEW n \in Netlists, Hypergraphs[n] = h.pins
             PROVE  CutSize(n) <= cut /\ (Combinational(n) => cut = CutSize(n))
  BY DEF NetworkCut
<1> DEFINE C == {e \in Net : \A s \in Side : PinsOn(e, s) # {}}
<1>1. h.pins \in [Net -> SUBSET Vertex]
  BY InputsAssumption DEF InputType
<1>2. cut = Cardinality(C)
  <2>1. \A e \in C : h.nw[e] = 1
    BY UnitAssumption
  <2>2. IsFiniteSet(C)
    BY FiniteAssumption, FS_Subset
  <2>3. cut = SumFunctionOnSet(h.nw, C)
    BY DEF CutOf
  <2> HIDE DEF C
  <2> QED BY <2>1, <2>2, <2>3, SumOnes
<1>3. IsFiniteSet(Split(n)) /\ Cardinality(C) = Cardinality(Split(n))
  BY <1>1, CutCarriers
<1>4. CutSize(n) = Cardinality(NetDrivers(n))
  BY DEF CutSize, NetDrivers
<1>5. /\ NetDrivers(n) \subseteq Split(n)
      /\ Combinational(n) => Split(n) \subseteq NetDrivers(n)
  BY <1>1, DriversAreSplit
<1>6. CutSize(n) <= Cardinality(Split(n))
  BY <1>3, <1>4, <1>5, FS_Subset
<1>7. Combinational(n) => NetDrivers(n) = Split(n)
  BY <1>5
<1> HIDE DEF C
<1>8. cut = Cardinality(Split(n))
  BY <1>2, <1>3
<1> QED BY <1>4, <1>6, <1>7, <1>8

(* Between moves the cut that the engine keeps is, on a combinational       *)
(* network, the number of drivers that the partition database would count   *)
(* as cut nets, and on any network no smaller: however the partition moves, *)
(* the adapter neither loses a cut net nor, without latches, invents one    *)
(* (abc_wrapper.cpp:46-92; abcPdb.cpp:50-80).                               *)
THEOREM NetworkCutAlways == Spec => []NetworkCut
<1>1. IInv /\ SumInv => NetworkCut
  <2> SUFFICES ASSUME IInv, SumInv PROVE NetworkCut
    OBVIOUS
  <2>1. StateType /\ CountInv /\ CutInv
    BY DEF IInv, SumInv
  <2>2. Settled => cut = CutOf
    BY <2>1, CutExact DEF Settled
  <2>3. h \in Inputs /\ part \in [Vertex -> Side]
    BY <2>1 DEF StateType
  <2> QED BY <2>2, <2>3, NetworkCutHolds
<1> QED BY <1>1, SumInvAlways, PTL


----------------------------------------------------------------------------
(* GainBuckets keeps its lists well linked and implements GainQueue, for    *)
(* any set of vertices and any bound of the gains.                          *)
(*                                                                          *)
(* First, lemmas on the operators of BucketOps.  The order of a list is     *)
(* carried by ages: insert puts the youngest vertex at the head, and every  *)
(* next link leads to an older one, so no list can be a cycle.              *)
OrderedBy(r, age) ==
  \A v \in r.in : r.next[v] # None => age[r.next[v]] < age[v]

Ordered(r) == \E n \in Nat : \E age \in [Vertex -> 0 .. n] : OrderedBy(r, age)

BucketInv(r, gmax) == r \in BucketType(gmax) /\ WellLinked(r) /\ Ordered(r)

----------------------------------------------------------------------------
(* A bucket index is a pair, equal to another when side and gain are. *)
LEMMA BucketPair ==
  ASSUME NEW gmax \in Nat, NEW r \in BucketType(gmax), NEW v \in Vertex
  PROVE  BucketOf(r, v) \in Side \X Gains(gmax)
BY DEF BucketType, BucketOf

(* reset: the empty structure is well formed. *)
LEMMA EmptyInv ==
  ASSUME NEW gmax \in Nat
  PROVE  BucketInv(EmptyBuckets(gmax), gmax)
<1> DEFINE r == EmptyBuckets(gmax)
<1>1. r \in BucketType(gmax)
  BY DEF EmptyBuckets, BucketType, Link, Side, Gains, Below
<1>2. r.in = {} /\ \A k \in DOMAIN r.head : r.head[k] = None
  BY DEF EmptyBuckets
<1>3. WellLinked(r)
  BY <1>2 DEF WellLinked, PrevAgrees, NextAgrees, HeadAgrees, TopBounds
<1>4. Ordered(r)
  <2>1. [v \in Vertex |-> 0] \in [Vertex -> 0 .. 0]
    OBVIOUS
  <2>2. OrderedBy(r, [v \in Vertex |-> 0])
    BY <1>2 DEF OrderedBy
  <2> QED BY <2>1, <2>2 DEF Ordered
<1> QED BY <1>1, <1>3, <1>4 DEF BucketInv

(* insert keeps the structure well formed, and adds v at <<s, g>>. *)
LEMMA InsertInv ==
  ASSUME NEW gmax \in Nat, NEW r, BucketInv(r, gmax),
         NEW v \in Vertex, v \notin r.in, NEW s \in Side, NEW g \in Gains(gmax)
  PROVE  BucketInv(InsertOp(r, v, s, g), gmax)
<1> DEFINE c == InsertOp(r, v, s, g)
           first == r.head[<<s, g>>]
<1> USE NoneAssumption
<1>1. /\ r \in BucketType(gmax) /\ PrevAgrees(r) /\ NextAgrees(r)
      /\ HeadAgrees(r) /\ TopBounds(r)
  BY DEF BucketInv, WellLinked
<1>2. /\ r.head \in [Side \X Gains(gmax) -> Link]
      /\ r.next \in [Vertex -> Link] /\ r.prev \in [Vertex -> Link]
      /\ r.gain \in [Vertex -> Gains(gmax)] /\ r.side \in [Vertex -> Side]
      /\ r.in \subseteq Vertex /\ r.top \in [Side -> Below(gmax) .. gmax]
      /\ first \in Link
  BY <1>1 DEF BucketType
<1>3. /\ c.head = [r.head EXCEPT ![<<s, g>>] = v]
      /\ c.next = [r.next EXCEPT ![v] = first]
      /\ c.prev = [u \in Vertex |->
                     IF u = first THEN v ELSE IF u = v THEN None ELSE r.prev[u]]
      /\ c.gain = [r.gain EXCEPT ![v] = g]
      /\ c.side = [r.side EXCEPT ![v] = s]
      /\ c.in = r.in \cup {v}
      /\ c.top = [r.top EXCEPT ![s] = IF g > r.top[s] THEN g ELSE r.top[s]]
  BY DEF InsertOp
<1>4. c \in BucketType(gmax)
  <2>1. g \in Below(gmax) .. gmax
    BY DEF Gains, Below
  <2>2. c = [head |-> c.head, next |-> c.next, prev |-> c.prev, gain |-> c.gain,
             side |-> c.side, in |-> c.in, top |-> c.top]
    BY DEF InsertOp
  <2>3. /\ c.head \in [Side \X Gains(gmax) -> Link] /\ c.next \in [Vertex -> Link]
        /\ c.prev \in [Vertex -> Link]
    BY <1>2, <1>3 DEF Link
  <2>4. /\ c.gain \in [Vertex -> Gains(gmax)] /\ c.side \in [Vertex -> Side]
        /\ c.in \in SUBSET Vertex /\ c.top \in [Side -> Below(gmax) .. gmax]
    BY <1>2, <1>3, <2>1
  <2> QED BY <2>2, <2>3, <2>4 DEF BucketType
<1>5. /\ BucketOf(c, v) = <<s, g>>
      /\ \A u \in Vertex \ {v} : BucketOf(c, u) = BucketOf(r, u)
  BY <1>2, <1>3 DEF BucketOf
<1>6. first # None => first \in r.in /\ first # v /\ BucketOf(r, first) = <<s, g>>
                      /\ r.prev[first] = None
  BY <1>1, <1>2 DEF HeadAgrees
<1>7. \A u \in r.in : r.prev[u] # v /\ r.next[u] # v
  BY <1>1, <1>2 DEF PrevAgrees, NextAgrees
<1>8. PrevAgrees(c)
  <2> SUFFICES ASSUME NEW u \in c.in
               PROVE  IF c.prev[u] = None
                      THEN c.head[BucketOf(c, u)] = u
                      ELSE /\ c.prev[u] \in c.in
                           /\ BucketOf(c, c.prev[u]) = BucketOf(c, u)
                           /\ c.next[c.prev[u]] = u
    BY DEF PrevAgrees
  <2>1. CASE u = v
    BY <2>1, <1>2, <1>3, <1>5, <1>6
  <2>2. CASE u = first /\ u # v
    <3>1. c.prev[u] = v
      BY <2>2, <1>2, <1>3
    <3> QED BY <3>1, <2>2, <1>2, <1>3, <1>5, <1>6
  <2>3. CASE u # first /\ u # v
    <3>1. u \in r.in /\ c.prev[u] = r.prev[u]
      BY <2>3, <1>2, <1>3
    <3>2. CASE r.prev[u] = None
      <4>1. r.head[BucketOf(r, u)] = u
        BY <3>1, <3>2, <1>1 DEF PrevAgrees
      <4>2. BucketOf(r, u) # <<s, g>>
        BY <4>1, <2>3
      <4> QED BY <4>1, <4>2, <3>1, <3>2, <2>3, <1>2, <1>3, <1>5
    <3>3. CASE r.prev[u] # None
      <4>1. /\ r.prev[u] \in r.in /\ r.prev[u] # v
            /\ BucketOf(r, r.prev[u]) = BucketOf(r, u) /\ r.next[r.prev[u]] = u
        BY <3>1, <3>3, <1>1, <1>7 DEF PrevAgrees
      <4> QED BY <4>1, <3>1, <3>3, <2>3, <1>2, <1>3, <1>5
    <3> QED BY <3>2, <3>3
  <2> QED BY <2>1, <2>2, <2>3
<1>9. NextAgrees(c)
  <2> SUFFICES ASSUME NEW u \in c.in, c.next[u] # None
               PROVE  /\ c.next[u] \in c.in
                      /\ BucketOf(c, c.next[u]) = BucketOf(c, u)
                      /\ c.prev[c.next[u]] = u
    BY DEF NextAgrees
  <2>1. CASE u = v
    <3>1. c.next[u] = first
      BY <2>1, <1>2, <1>3
    <3> QED BY <3>1, <2>1, <1>2, <1>3, <1>5, <1>6
  <2>2. CASE u # v
    <3>1. u \in r.in /\ c.next[u] = r.next[u]
      BY <2>2, <1>2, <1>3
    <3>2. /\ r.next[u] \in r.in /\ r.next[u] # v
          /\ BucketOf(r, r.next[u]) = BucketOf(r, u) /\ r.prev[r.next[u]] = u
      BY <3>1, <1>1, <1>7 DEF NextAgrees
    <3>3. r.next[u] # first
      BY <3>1, <3>2, <1>2, <1>6
    <3> QED BY <3>1, <3>2, <3>3, <2>2, <1>2, <1>3, <1>5
  <2> QED BY <2>1, <2>2
<1>10. HeadAgrees(c)
  <2> SUFFICES ASSUME NEW k \in Side \X Gains(gmax), c.head[k] # None
               PROVE  /\ c.head[k] \in c.in
                      /\ BucketOf(c, c.head[k]) = k
                      /\ c.prev[c.head[k]] = None
    BY <1>2, <1>3 DEF HeadAgrees
  <2>1. CASE k = <<s, g>>
    <3>1. c.head[k] = v /\ first # v
      BY <2>1, <1>2, <1>3, <1>6
    <3> QED BY <3>1, <2>1, <1>2, <1>3, <1>5
  <2>2. CASE k # <<s, g>>
    <3>1. c.head[k] = r.head[k]
      BY <2>2, <1>2, <1>3
    <3>2. r.head[k] \in r.in /\ BucketOf(r, r.head[k]) = k /\ r.prev[r.head[k]] = None
      BY <3>1, <1>1, <1>2 DEF HeadAgrees
    <3>3. r.head[k] # v /\ r.head[k] # first
      BY <3>1, <3>2, <2>2, <1>6
    <3> QED BY <3>1, <3>2, <3>3, <1>2, <1>3, <1>5
  <2> QED BY <2>1, <2>2
<1>11. TopBounds(c)
  <2> SUFFICES ASSUME NEW u \in c.in
               PROVE  c.gain[u] <= c.top[c.side[u]]
    BY DEF TopBounds
  <2>1. CASE u = v
    <3>1. c.gain[u] = g /\ c.side[u] = s
      BY <2>1, <1>2, <1>3
    <3>2. c.top[s] = IF g > r.top[s] THEN g ELSE r.top[s]
      BY <1>2, <1>3
    <3> QED BY <3>1, <3>2, <1>2 DEF Gains, Below
  <2>2. CASE u # v
    <3>1. u \in r.in /\ c.gain[u] = r.gain[u] /\ c.side[u] = r.side[u]
      BY <2>2, <1>2, <1>3
    <3>2. r.gain[u] <= r.top[r.side[u]] /\ r.side[u] \in Side
      BY <3>1, <1>1, <1>2 DEF TopBounds
    <3>3. r.top[r.side[u]] <= c.top[r.side[u]]
      BY <3>2, <1>2, <1>3 DEF Gains, Below
    <3>4. /\ r.gain[u] \in Int /\ r.top[r.side[u]] \in Int
          /\ c.top[r.side[u]] \in Int
      BY <3>1, <3>2, <1>2, <1>3 DEF Gains, Below
    <3> QED BY <3>1, <3>2, <3>3, <3>4
  <2> QED BY <2>1, <2>2
<1>12. Ordered(c)
  <2>1. PICK n \in Nat : \E age \in [Vertex -> 0 .. n] : OrderedBy(r, age)
    BY DEF BucketInv, Ordered
  <2>2. PICK age \in [Vertex -> 0 .. n] : OrderedBy(r, age)
    BY <2>1
  <2> DEFINE young == [age EXCEPT ![v] = n + 1]
  <2>3. young \in [Vertex -> 0 .. (n + 1)]
    BY <2>2
  <2>4. OrderedBy(c, young)
    <3> SUFFICES ASSUME NEW u \in c.in, c.next[u] # None
                 PROVE  young[c.next[u]] < young[u]
      BY DEF OrderedBy
    <3>1. CASE u = v
      <4>1. c.next[u] = first /\ first \in Vertex /\ first # v
        BY <3>1, <1>2, <1>3, <1>6
      <4> QED BY <4>1, <3>1, <2>2
    <3>2. CASE u # v
      <4>1. u \in r.in /\ c.next[u] = r.next[u] /\ r.next[u] # v /\ r.next[u] \in Vertex
        BY <3>2, <1>2, <1>3, <1>7 DEF Link
      <4>2. age[r.next[u]] < age[u]
        BY <4>1, <2>2 DEF OrderedBy
      <4> QED BY <4>1, <4>2, <3>2, <2>2, <1>2
    <3> QED BY <3>1, <3>2
  <2> HIDE DEF young
  <2> QED BY <2>3, <2>4 DEF Ordered
<1> QED BY <1>4, <1>8, <1>9, <1>10, <1>11, <1>12 DEF BucketInv, WellLinked

----------------------------------------------------------------------------
(* erase of a vertex that is held keeps the structure well formed, and      *)
(* removes that vertex alone.                                               *)
LEMMA UnlinkInv ==
  ASSUME NEW gmax \in Nat, NEW r, BucketInv(r, gmax), NEW v \in r.in
  PROVE  BucketInv(Unlink(r, v), gmax)
<1> DEFINE c == Unlink(r, v)
           before == r.prev[v]
           after == r.next[v]
<1> USE NoneAssumption
<1>1. /\ r \in BucketType(gmax) /\ PrevAgrees(r) /\ NextAgrees(r)
      /\ HeadAgrees(r) /\ TopBounds(r)
  BY DEF BucketInv, WellLinked
<1>2. /\ r.head \in [Side \X Gains(gmax) -> Link]
      /\ r.next \in [Vertex -> Link] /\ r.prev \in [Vertex -> Link]
      /\ r.gain \in [Vertex -> Gains(gmax)] /\ r.side \in [Vertex -> Side]
      /\ r.in \subseteq Vertex /\ r.top \in [Side -> Below(gmax) .. gmax]
      /\ v \in Vertex /\ before \in Link /\ after \in Link
  BY <1>1 DEF BucketType
<1>3. /\ c.head = IF before = None
                  THEN [r.head EXCEPT ![BucketOf(r, v)] = after] ELSE r.head
      /\ c.next = [u \in Vertex |->
                     IF u = v THEN None ELSE IF u = before THEN after ELSE r.next[u]]
      /\ c.prev = [u \in Vertex |->
                     IF u = v THEN None ELSE IF u = after THEN before ELSE r.prev[u]]
      /\ c.gain = r.gain /\ c.side = r.side
      /\ c.in = r.in \ {v} /\ c.top = r.top
  BY DEF Unlink
<1>4. c \in BucketType(gmax)
  <2>1. c = [head |-> c.head, next |-> c.next, prev |-> c.prev, gain |-> c.gain,
             side |-> c.side, in |-> c.in, top |-> c.top]
    BY DEF Unlink
  <2>2. BucketOf(r, v) \in Side \X Gains(gmax)
    BY <1>1, <1>2, BucketPair
  <2>3. /\ c.head \in [Side \X Gains(gmax) -> Link] /\ c.next \in [Vertex -> Link]
        /\ c.prev \in [Vertex -> Link] /\ c.in \in SUBSET Vertex
    BY <1>2, <1>3, <2>2 DEF Link
  <2> QED BY <1>2, <1>3, <2>1, <2>3 DEF BucketType
<1>5. \A u \in Vertex : BucketOf(c, u) = BucketOf(r, u)
  BY <1>2, <1>3 DEF BucketOf
<1>6. /\ before = None => r.head[BucketOf(r, v)] = v
      /\ before # None => /\ before \in r.in /\ BucketOf(r, before) = BucketOf(r, v)
                          /\ r.next[before] = v
      /\ after # None => /\ after \in r.in /\ BucketOf(r, after) = BucketOf(r, v)
                         /\ r.prev[after] = v
  BY <1>1 DEF PrevAgrees, NextAgrees
<1>a. PICK n \in Nat : \E age \in [Vertex -> 0 .. n] : OrderedBy(r, age)
  BY DEF BucketInv, Ordered
<1>7. PICK age \in [Vertex -> 0 .. n] : OrderedBy(r, age)
  BY <1>a
<1>8. before # v /\ after # v /\ (before # None => before # after)
  <2>1. before # None => age[v] < age[before]
    BY <1>6, <1>7, <1>2 DEF OrderedBy
  <2>2. after # None => age[after] < age[v]
    BY <1>7, <1>2 DEF OrderedBy
  <2>3. age[v] \in Int /\ (before # None => age[before] \in Int)
        /\ (after # None => age[after] \in Int)
    BY <1>2, <1>6, <1>7
  <2> QED BY <1>2, <2>1, <2>2, <2>3
<1>9. PrevAgrees(c)
  <2> SUFFICES ASSUME NEW u \in r.in, u # v
               PROVE  IF c.prev[u] = None
                      THEN c.head[BucketOf(c, u)] = u
                      ELSE /\ c.prev[u] \in c.in
                           /\ BucketOf(c, c.prev[u]) = BucketOf(c, u)
                           /\ c.next[c.prev[u]] = u
    BY <1>3 DEF PrevAgrees
  <2>1. CASE u = after
    <3>1. c.prev[u] = before
      BY <2>1, <1>2, <1>3
    <3>2. BucketOf(r, v) \in Side \X Gains(gmax)
      BY <1>1, <1>2, BucketPair
    <3>3. CASE before = None
      BY <3>1, <3>2, <3>3, <2>1, <1>2, <1>3, <1>5, <1>6
    <3>4. CASE before # None
      BY <3>1, <3>4, <2>1, <1>2, <1>3, <1>5, <1>6, <1>8
    <3> QED BY <3>3, <3>4
  <2>2. CASE u # after
    <3>1. c.prev[u] = r.prev[u]
      BY <2>2, <1>2, <1>3
    <3>2. CASE r.prev[u] = None
      <4>1. r.head[BucketOf(r, u)] = u
        BY <3>2, <1>1 DEF PrevAgrees
      <4>2. before = None => BucketOf(r, u) # BucketOf(r, v)
        BY <4>1, <1>6
      <4> QED BY <4>1, <4>2, <3>1, <3>2, <1>2, <1>3, <1>5
    <3>3. CASE r.prev[u] # None
      <4>1. /\ r.prev[u] \in r.in /\ BucketOf(r, r.prev[u]) = BucketOf(r, u)
            /\ r.next[r.prev[u]] = u
        BY <3>3, <1>1 DEF PrevAgrees
      <4>2. r.prev[u] # v /\ r.prev[u] # before
        BY <4>1, <3>3, <2>2, <1>6
      <4> QED BY <4>1, <4>2, <3>1, <3>3, <1>2, <1>3, <1>5
    <3> QED BY <3>2, <3>3
  <2> QED BY <2>1, <2>2
<1>10. NextAgrees(c)
  <2> SUFFICES ASSUME NEW u \in r.in, u # v, c.next[u] # None
               PROVE  /\ c.next[u] \in c.in
                      /\ BucketOf(c, c.next[u]) = BucketOf(c, u)
                      /\ c.prev[c.next[u]] = u
    BY <1>3 DEF NextAgrees
  <2>1. CASE u = before
    <3>1. c.next[u] = after
      BY <2>1, <1>2, <1>3
    <3> QED BY <3>1, <2>1, <1>2, <1>3, <1>5, <1>6, <1>8
  <2>2. CASE u # before
    <3>1. c.next[u] = r.next[u]
      BY <2>2, <1>2, <1>3
    <3>2. /\ r.next[u] \in r.in /\ BucketOf(r, r.next[u]) = BucketOf(r, u)
          /\ r.prev[r.next[u]] = u
      BY <3>1, <1>1 DEF NextAgrees
    <3>3. r.next[u] # v /\ r.next[u] # after
      BY <3>2, <2>2, <1>2, <1>6
    <3> QED BY <3>1, <3>2, <3>3, <1>2, <1>3, <1>5
  <2> QED BY <2>1, <2>2
<1>11. HeadAgrees(c)
  <2> SUFFICES ASSUME NEW k \in Side \X Gains(gmax), c.head[k] # None
               PROVE  /\ c.head[k] \in c.in
                      /\ BucketOf(c, c.head[k]) = k
                      /\ c.prev[c.head[k]] = None
    BY <1>2, <1>3 DEF HeadAgrees
  <2>1. CASE before = None /\ k = BucketOf(r, v)
    <3>1. c.head[k] = after
      BY <2>1, <1>2, <1>3
    <3> QED BY <3>1, <2>1, <1>2, <1>3, <1>5, <1>6, <1>8
  <2>2. CASE ~(before = None /\ k = BucketOf(r, v))
    <3>1. c.head[k] = r.head[k]
      BY <2>2, <1>2, <1>3
    <3>2. r.head[k] \in r.in /\ BucketOf(r, r.head[k]) = k /\ r.prev[r.head[k]] = None
      BY <3>1, <1>1, <1>2 DEF HeadAgrees
    <3>3. r.head[k] # v /\ r.head[k] # after
      BY <3>2, <2>2, <1>2, <1>6
    <3> QED BY <3>1, <3>2, <3>3, <1>2, <1>3, <1>5
  <2> QED BY <2>1, <2>2
<1>12. TopBounds(c)
  BY <1>1, <1>3 DEF TopBounds
<1>13. Ordered(c)
  <2>1. OrderedBy(c, age)
    <3> SUFFICES ASSUME NEW u \in r.in, u # v, c.next[u] # None
                 PROVE  age[c.next[u]] < age[u]
      BY <1>3 DEF OrderedBy
    <3>1. CASE u = before
      <4>1. c.next[u] = after /\ after \in Vertex
        BY <3>1, <1>2, <1>3 DEF Link
      <4>2. age[after] < age[v] /\ age[v] < age[before]
        BY <4>1, <3>1, <1>2, <1>6, <1>7 DEF OrderedBy
      <4> QED BY <4>1, <4>2, <3>1, <1>2, <1>7
    <3>2. CASE u # before
      BY <3>2, <1>2, <1>3, <1>7 DEF OrderedBy
    <3> QED BY <3>1, <3>2
  <2> QED BY <2>1, <1>7 DEF Ordered
<1> QED BY <1>4, <1>9, <1>10, <1>11, <1>12, <1>13 DEF BucketInv, WellLinked

LEMMA EraseInv ==
  ASSUME NEW gmax \in Nat, NEW r, BucketInv(r, gmax), NEW v \in Vertex
  PROVE  /\ BucketInv(EraseOp(r, v), gmax)
         /\ EraseOp(r, v).in = r.in \ {v}
         /\ EraseOp(r, v).side = r.side /\ EraseOp(r, v).gain = r.gain
<1>1. CASE v \in r.in
  <2>1. EraseOp(r, v) = Unlink(r, v)
    BY <1>1 DEF EraseOp
  <2>2. Unlink(r, v).in = r.in \ {v} /\ Unlink(r, v).side = r.side
        /\ Unlink(r, v).gain = r.gain
    BY DEF Unlink
  <2> QED BY <1>1, <2>1, <2>2, UnlinkInv
<1>2. CASE v \notin r.in
  BY <1>2 DEF EraseOp
<1> QED BY <1>1, <1>2

(* update_gain: an erase, then an insert on the vertex's own side. *)
LEMMA UpdateInv ==
  ASSUME NEW gmax \in Nat, NEW r, BucketInv(r, gmax), NEW v \in Vertex,
         NEW g \in Gains(gmax)
  PROVE  BucketInv(UpdateGainOp(r, v, g), gmax)
<1>1. r.side[v] \in Side
  BY DEF BucketInv, BucketType
<1> QED BY <1>1, EraseInv, InsertInv DEF UpdateGainOp

----------------------------------------------------------------------------
(* In any set of held vertices some vertex has no predecessor in the set:   *)
(* the youngest.                                                            *)
LEMMA YoungestIn ==
  ASSUME NEW gmax \in Nat, NEW r, BucketInv(r, gmax),
         NEW S \in SUBSET r.in, S # {}
  PROVE  \E v \in S : r.prev[v] \notin S
<1>a. PICK n \in Nat : \E age \in [Vertex -> 0 .. n] : OrderedBy(r, age)
  BY DEF BucketInv, Ordered
<1>1. PICK age \in [Vertex -> 0 .. n] : OrderedBy(r, age)
  BY <1>a
<1>2. r.in \subseteq Vertex /\ PrevAgrees(r)
  BY DEF BucketInv, BucketType, WellLinked
<1> DEFINE Left == {n - age[v] : v \in S}
<1>3. Left \in SUBSET Nat /\ Left # {}
  BY <1>1, <1>2
<1>4. PICK m \in Left : \A k \in Left : m <= k
  <2> HIDE DEF Left
  <2> QED BY <1>3, LeastNatural
<1>5. PICK v \in S : m = n - age[v]
  BY <1>4
<1>6. ASSUME r.prev[v] \in S PROVE FALSE
  <2> DEFINE p == r.prev[v]
  <2>1. p \in r.in /\ p \in Vertex /\ v \in Vertex
    BY <1>2, <1>6
  <2>2. r.next[p] = v
    BY <1>2, <1>5, <1>6, NoneAssumption DEF PrevAgrees
  <2>3. age[v] < age[p]
    BY <2>1, <2>2, <1>1, NoneAssumption DEF OrderedBy
  <2>4. m <= n - age[p]
    BY <1>4, <1>6
  <2> QED BY <1>1, <1>5, <2>1, <2>3, <2>4
<1> QED BY <1>5, <1>6

(* A list that should hold a vertex is not empty: no vertex of the          *)
(* structure is off its list.                                               *)
LEMMA NonEmptyHead ==
  ASSUME NEW gmax \in Nat, NEW r, BucketInv(r, gmax), NEW v \in r.in
  PROVE  r.head[BucketOf(r, v)] # None
<1> DEFINE S == {u \in r.in : BucketOf(r, u) = BucketOf(r, v)}
<1>1. PICK u \in S : r.prev[u] \notin S
  <2>1. S \in SUBSET r.in /\ S # {}
    OBVIOUS
  <2> QED BY <2>1, YoungestIn
<1>2. PrevAgrees(r) /\ r.in \subseteq Vertex
  BY DEF BucketInv, WellLinked, BucketType
<1>3. r.prev[u] = None
  BY <1>1, <1>2 DEF PrevAgrees
<1> QED BY <1>1, <1>2, <1>3, NoneAssumption DEF PrevAgrees

(* The downward scan of max_gain stops, at one value only. *)
LEMMA MaxGainSettled ==
  ASSUME NEW gmax \in Nat, NEW r \in BucketType(gmax), NEW s \in Side
  PROVE  /\ MaxGain(r, gmax, s) \in Below(gmax) .. gmax
         /\ IsSettled(r, gmax, s, MaxGain(r, gmax, s))
<1>1. r.top[s] \in Below(gmax) .. gmax
  BY DEF BucketType
<1> DEFINE Stop == {g \in Below(gmax) .. r.top[s] :
                      g = Below(gmax) \/ r.head[<<s, g>>] # None}
           Down == {r.top[s] - g : g \in Stop}
<1>2. Below(gmax) \in Stop
  BY <1>1 DEF Below
<1>3. Down \in SUBSET Nat /\ Down # {}
  <2>1. Stop \subseteq Below(gmax) .. r.top[s]
    OBVIOUS
  <2>2. \A g \in Below(gmax) .. r.top[s] : r.top[s] - g \in Nat
    BY <1>1 DEF Below
  <2> HIDE DEF Stop
  <2> QED BY <1>2, <2>1, <2>2
<1>4. PICK d \in Down : \A k \in Down : d <= k
  <2> HIDE DEF Down
  <2> QED BY <1>3, LeastNatural
<1>5. PICK g \in Stop : d = r.top[s] - g
  BY <1>4
<1>6. ASSUME NEW k \in Gains(gmax), g < k, k <= r.top[s]
      PROVE  r.head[<<s, k>>] = None
  <2>1. k \in Below(gmax) .. r.top[s]
    BY <1>1, <1>6 DEF Below, Gains
  <2>2. k \in Stop => d <= r.top[s] - k
    BY <1>4
  <2>3. k \notin Stop
    BY <1>1, <1>5, <1>6, <2>1, <2>2 DEF Gains, Below
  <2> QED BY <2>1, <2>3
<1>7. g \in Below(gmax) .. gmax
  BY <1>1, <1>5 DEF Below
<1>8. IsSettled(r, gmax, s, g)
  BY <1>5, <1>6 DEF IsSettled
<1> QED BY <1>7, <1>8 DEF MaxGain

(* max_gain is exact: nothing held on the side has a larger gain, and       *)
(* lowering top to it keeps the structure well formed.                      *)
LEMMA SettleInv ==
  ASSUME NEW gmax \in Nat, NEW r, BucketInv(r, gmax), NEW s \in Side
  PROVE  /\ BucketInv(Settle(r, gmax, s), gmax)
         /\ Settle(r, gmax, s).in = r.in /\ Settle(r, gmax, s).head = r.head
         /\ Settle(r, gmax, s).next = r.next /\ Settle(r, gmax, s).prev = r.prev
         /\ Settle(r, gmax, s).side = r.side /\ Settle(r, gmax, s).gain = r.gain
         /\ \A v \in r.in : r.side[v] = s => r.gain[v] <= MaxGain(r, gmax, s)
         /\ MaxGain(r, gmax, s) # Below(gmax) => r.head[<<s, MaxGain(r, gmax, s)>>] # None
<1> DEFINE c == Settle(r, gmax, s)
           m == MaxGain(r, gmax, s)
<1>1. r \in BucketType(gmax) /\ WellLinked(r)
  BY DEF BucketInv
<1>2. m \in Below(gmax) .. gmax /\ IsSettled(r, gmax, s, m)
  BY <1>1, MaxGainSettled
<1>3. /\ c.head = r.head /\ c.next = r.next /\ c.prev = r.prev /\ c.gain = r.gain
      /\ c.side = r.side /\ c.in = r.in /\ c.top = [r.top EXCEPT ![s] = m]
      /\ c \in BucketType(gmax)
  <2>1. /\ c.head = r.head /\ c.next = r.next /\ c.prev = r.prev /\ c.gain = r.gain
        /\ c.side = r.side /\ c.in = r.in /\ c.top = [r.top EXCEPT ![s] = m]
        /\ c = [head |-> c.head, next |-> c.next, prev |-> c.prev, gain |-> c.gain,
                side |-> c.side, in |-> c.in, top |-> c.top]
    BY DEF Settle
  <2> HIDE DEF m, c
  <2> QED BY <1>1, <1>2, <2>1 DEF BucketType
<1>4. ASSUME NEW v \in r.in, r.side[v] = s PROVE r.gain[v] <= m
  <2>1. r.head[<<s, r.gain[v]>>] # None
    BY <1>4, NonEmptyHead DEF BucketOf
  <2>2. r.gain[v] \in Gains(gmax) /\ r.gain[v] <= r.top[s]
    BY <1>1, <1>4 DEF BucketType, WellLinked, TopBounds
  <2>3. ~(m < r.gain[v])
    BY <1>2, <2>1, <2>2 DEF IsSettled
  <2> QED BY <1>2, <2>2, <2>3 DEF Gains, Below
<1>5. WellLinked(c)
  <2>1. PrevAgrees(c) /\ NextAgrees(c) /\ HeadAgrees(c)
    <3>1. \A v : BucketOf(c, v) = BucketOf(r, v)
      BY <1>3 DEF BucketOf
    <3> QED BY <1>1, <1>3, <3>1 DEF WellLinked, PrevAgrees, NextAgrees, HeadAgrees
  <2>2. TopBounds(c)
    <3> SUFFICES ASSUME NEW v \in r.in
                 PROVE  r.gain[v] <= c.top[r.side[v]]
      BY <1>3 DEF TopBounds
    <3>1. r.top \in [Side -> Below(gmax) .. gmax]
      BY <1>1 DEF BucketType
    <3>2. CASE r.side[v] = s
      BY <3>1, <3>2, <1>3, <1>4
    <3>3. CASE r.side[v] # s
      BY <3>1, <3>3, <1>1, <1>3 DEF WellLinked, TopBounds
    <3> QED BY <3>2, <3>3
  <2> QED BY <2>1, <2>2 DEF WellLinked
<1>6. Ordered(c)
  BY <1>3 DEF BucketInv, Ordered, OrderedBy
<1>7. m # Below(gmax) => r.head[<<s, m>>] # None
  BY <1>2 DEF IsSettled
<1> QED BY <1>3, <1>4, <1>5, <1>6, <1>7 DEF BucketInv

----------------------------------------------------------------------------
(* The component: its invariant, and the refinement of GainQueue. *)
BucketIInv ==
  /\ BucketTypeOK
  /\ BucketInv(b, GainBound)
  /\ ScanPosition
  /\ ScanCoverage

LEMMA InitInv == BucketInit => BucketIInv
<1> SUFFICES ASSUME BucketInit PROVE BucketIInv
  OBVIOUS
<1>1. BucketInv(b, GainBound)
  BY EmptyInv, GainBoundAssumption DEF BucketInit
<1>2. BucketTypeOK
  BY <1>1 DEF BucketInit, BucketTypeOK, BucketInv, AnswerType
<1>3. ~ scan.on
  BY DEF BucketInit, NoScan
<1> QED BY <1>1, <1>2, <1>3 DEF BucketIInv, ScanPosition, ScanCoverage

(* Entering the list of gain g when every larger gain has been covered. *)
LEMMA EnterCovered ==
  ASSUME NEW s \in Side, NEW ok \in SUBSET Vertex, NEW g \in Below(GainBound) .. GainBound,
         BucketIInv, NEW read \in SUBSET Vertex,
         \A v \in read : v \in b.in /\ v \notin ok /\ b.side[v] = s /\ b.gain[v] > g,
         \A v \in b.in : b.side[v] = s /\ b.gain[v] > g => v \in read,
         scan' = Enter(s, ok, g), seen' = read,
         b'.head = b.head, b'.next = b.next, b'.in = b.in,
         b'.side = b.side, b'.gain = b.gain
  PROVE  scan' \in ScanType /\ ScanPosition' /\ ScanCoverage'
<1> USE GainBoundAssumption
<1>1. /\ b.head \in [Side \X Gains(GainBound) -> Link] /\ b.in \subseteq Vertex
      /\ b.gain \in [Vertex -> Gains(GainBound)]
      /\ HeadAgrees(b)
  BY DEF BucketIInv, BucketTypeOK, BucketType, BucketInv, WellLinked
<1>2. /\ scan'.on /\ scan'.side = s /\ scan'.ok = ok /\ scan'.g = g
      /\ scan'.at = IF g = Below(GainBound) THEN None ELSE b.head[<<s, g>>]
      /\ scan'.at \in Link
      /\ scan' \in ScanType
  <2>1. g # Below(GainBound) => <<s, g>> \in Side \X Gains(GainBound)
    BY DEF Below, Gains
  <2>2. (IF g = Below(GainBound) THEN None ELSE b.head[<<s, g>>]) \in Link
    BY <2>1, <1>1 DEF Link
  <2> QED BY <2>2 DEF Enter, ScanType
<1>3. \A v : BucketOf(b', v) = BucketOf(b, v)
  BY DEF BucketOf
<1>4. ScanPosition'
  <2>1. (scan.at)' # None => scan'.at \in b'.in /\ BucketOf(b', scan'.at) = <<s, g>>
    <3>1. SUFFICES ASSUME scan'.at # None
                   PROVE  scan'.at \in b.in /\ BucketOf(b, scan'.at) = <<s, g>>
      BY <1>3
    <3>2. g # Below(GainBound) /\ scan'.at = b.head[<<s, g>>]
      BY <3>1, <1>2
    <3>3. <<s, g>> \in DOMAIN b.head
      BY <3>2, <1>1 DEF Below, Gains
    <3> QED BY <3>1, <3>2, <3>3, <1>1 DEF HeadAgrees
  <2>2. \A v \in read : b.gain[v] >= g
    BY <1>1 DEF Below, Gains
  <2> QED BY <2>1, <2>2, <1>2 DEF ScanPosition, ScanList
<1>5. ScanCoverage'
  <2>1. \A v \in read : BucketOf(b, v) # <<s, g>>
    BY <1>1 DEF BucketOf, Gains
  <2> QED BY <2>1, <1>2, <1>3 DEF ScanCoverage, ScanList
<1> QED BY <1>2, <1>4, <1>5

(* When the walk of a list has ended, all of that list has been read. *)
LEMMA ListCovered ==
  ASSUME BucketIInv, scan.on, scan.at = None, scan.g # Below(GainBound),
         NEW v \in b.in, BucketOf(b, v) = ScanList
  PROVE  v \in seen
<1> USE GainBoundAssumption, NoneAssumption
<1> DEFINE S == {u \in b.in : BucketOf(b, u) = ScanList /\ u \notin seen}
<1>1. SUFFICES ASSUME v \notin seen PROVE FALSE
  OBVIOUS
<1>2. S \in SUBSET b.in /\ S # {}
  BY <1>1
<1>3. PICK u \in S : b.prev[u] \notin S
  BY <1>2, YoungestIn DEF BucketIInv
<1>4. PrevAgrees(b) /\ b.in \subseteq Vertex
  BY DEF BucketIInv, BucketInv, WellLinked, BucketTypeOK, BucketType
<1>5. CASE b.prev[u] = None
  <2>1. b.head[ScanList] = u
    BY <1>3, <1>4, <1>5 DEF PrevAgrees
  <2> QED BY <2>1, <1>3, <1>4 DEF BucketIInv, ScanCoverage
<1>6. CASE b.prev[u] # None
  <2>1. /\ b.prev[u] \in b.in /\ BucketOf(b, b.prev[u]) = ScanList
        /\ b.next[b.prev[u]] = u
    BY <1>3, <1>4, <1>6 DEF PrevAgrees
  <2>2. b.prev[u] \in seen
    BY <1>3, <2>1
  <2> QED BY <2>1, <2>2, <1>3, <1>4 DEF BucketIInv, ScanCoverage
<1> QED BY <1>5, <1>6

----------------------------------------------------------------------------
(* Every step keeps the invariant. *)
LEMMA StepInv == BucketIInv /\ [BucketNext]_bucketVars => BucketIInv'
<1> SUFFICES ASSUME BucketIInv, [BucketNext]_bucketVars PROVE BucketIInv'
  OBVIOUS
<1> USE GainBoundAssumption, NoneAssumption
<1>0. /\ b \in BucketType(GainBound) /\ BucketInv(b, GainBound)
      /\ scan \in {NoScan} \cup ScanType
      /\ seen \subseteq Vertex /\ answer \in AnswerType
      /\ NoAnswer \in AnswerType
      /\ b.in \subseteq Vertex
  BY DEF BucketIInv, BucketTypeOK, AnswerType, BucketType
<1>a. ASSUME ~ scan'.on, scan' = NoScan, BucketInv(b', GainBound),
             seen' \subseteq Vertex, answer' \in AnswerType
      PROVE  BucketIInv'
  BY <1>a DEF BucketIInv, BucketTypeOK, BucketInv, ScanPosition, ScanCoverage
<1>b. Idle => scan = NoScan /\ ~ scan.on
  BY <1>0 DEF Idle, ScanType, NoScan
<1>c. ~ NoScan.on
  BY DEF NoScan
<1>1. ASSUME NEW v \in Vertex, NEW s \in Side, NEW g \in Gains(GainBound), Insert(v, s, g)
      PROVE  BucketIInv'
  <2>1. BucketInv(b', GainBound)
    BY <1>0, <1>1, InsertInv DEF Insert
  <2> QED BY <2>1, <1>0, <1>1, <1>a, <1>b DEF Insert
<1>2. ASSUME NEW v \in Vertex, Erase(v)
      PROVE  BucketIInv'
  <2>1. BucketInv(b', GainBound)
    BY <1>0, <1>2, EraseInv DEF Erase
  <2> QED BY <2>1, <1>0, <1>2, <1>a, <1>b DEF Erase
<1>3. ASSUME NEW v \in Vertex, NEW g \in Gains(GainBound), UpdateGain(v, g)
      PROVE  BucketIInv'
  <2>1. BucketInv(b', GainBound)
    BY <1>0, <1>3, UpdateInv DEF UpdateGain
  <2> QED BY <2>1, <1>0, <1>3, <1>a, <1>b DEF UpdateGain
<1>4. ASSUME NEW s \in Side, AskMaxGain(s)
      PROVE  BucketIInv'
  <2>1. BucketInv(b', GainBound)
    BY <1>0, <1>4, SettleInv DEF AskMaxGain
  <2>2. answer' \in AnswerType
    BY <1>0, <1>4, MaxGainSettled DEF AskMaxGain, AnswerType
  <2> QED BY <2>1, <2>2, <1>0, <1>4, <1>a, <1>b DEF AskMaxGain
<1>5. ASSUME NEW s \in Side, NEW ok \in SUBSET Vertex, FindTopStart(s, ok)
      PROVE  BucketIInv'
  <2> DEFINE m == MaxGain(b, GainBound, s)
  <2>1. m \in Below(GainBound) .. GainBound
    BY <1>0, MaxGainSettled
  <2>2. /\ BucketInv(b', GainBound)
        /\ b'.head = b.head /\ b'.next = b.next /\ b'.in = b.in
        /\ b'.side = b.side /\ b'.gain = b.gain
        /\ \A v \in b.in : b.side[v] = s => b.gain[v] <= m
    <3>1. b' = Settle(b, GainBound, s)
      BY <1>5 DEF FindTopStart
    <3>2. /\ BucketInv(b', GainBound)
          /\ \A v \in b.in : b.side[v] = s => b.gain[v] <= m
      BY <1>0, <3>1, SettleInv
    <3>3. /\ b'.head = b.head /\ b'.next = b.next /\ b'.in = b.in
          /\ b'.side = b.side /\ b'.gain = b.gain
      BY <3>1 DEF Settle
    <3> QED BY <3>2, <3>3
  <2>3. scan' = Enter(s, ok, m) /\ seen' = {} /\ answer' = NoAnswer
    BY <1>5 DEF FindTopStart
  <2>4. \A v \in b.in : b.side[v] = s /\ b.gain[v] > m => v \in {}
    BY <2>1, <2>2, <1>0 DEF BucketType, Gains, Below
  <2>5. scan' \in ScanType /\ ScanPosition' /\ ScanCoverage'
    <3> HIDE DEF m
    <3> QED BY <2>1, <2>2, <2>3, <2>4, EnterCovered
  <2> QED BY <2>2, <2>3, <2>5, <1>0 DEF BucketIInv, BucketTypeOK, BucketInv
<1>6. CASE FindTopHit
  <2>1. answer' \in AnswerType
    <3>1. scan \in ScanType
      BY <1>0, <1>6, <1>c DEF FindTopHit
    <3> QED BY <3>1, <1>6 DEF FindTopHit, AnswerType, ScanType
  <2> QED BY <2>1, <1>0, <1>6, <1>a, <1>c DEF FindTopHit
<1>7. CASE FindTopSkip
  <2> DEFINE u == scan.at
  <2>1. scan \in ScanType /\ scan.on /\ u \in Vertex /\ u \notin scan.ok
    BY <1>0, <1>7, <1>c DEF FindTopSkip
  <2>2. /\ b' = b /\ answer' = answer /\ seen' = seen \cup {u}
        /\ scan' = [scan EXCEPT !.at = b.next[u]]
    BY <1>7 DEF FindTopSkip
  <2>3. /\ u \in b.in /\ BucketOf(b, u) = ScanList
        /\ b.next[u] # None => /\ b.next[u] \in b.in
                               /\ BucketOf(b, b.next[u]) = ScanList
    BY <2>1, <1>0 DEF BucketIInv, ScanPosition, BucketInv, WellLinked, NextAgrees
  <2>4. /\ scan'.on /\ scan'.side = scan.side /\ scan'.ok = scan.ok
        /\ scan'.g = scan.g /\ scan'.at = b.next[u]
        /\ scan' \in ScanType
    BY <2>1, <2>2, <1>0 DEF ScanType, BucketType
  <2>5. scan.g # Below(GainBound)
    BY <2>1 DEF BucketIInv, ScanPosition
  <2>6. b.side[u] = scan.side /\ b.gain[u] = scan.g /\ scan.g \in Int
    BY <2>1, <2>3 DEF BucketOf, ScanList, ScanType, Below
  <2>7. ScanPosition'
    BY <2>1, <2>2, <2>3, <2>4, <2>5, <2>6 DEF BucketIInv, ScanPosition, ScanList
  <2>8. ScanCoverage'
    <3> DEFINE G == scan.g
    <3>1. \A v \in b.in : b.side[v] = scan.side /\ b.gain[v] > scan.g => v \in seen
      BY <2>1 DEF BucketIInv, ScanCoverage
    <3>2. b.head[ScanList] \in seen \cup {u}
      BY <2>1, <2>5 DEF BucketIInv, ScanCoverage
    <3>3. \A v \in seen \cup {u} :
            BucketOf(b, v) = ScanList /\ b.next[v] # None =>
              b.next[v] \in (seen \cup {u}) \cup {b.next[u]}
      BY <2>1 DEF BucketIInv, ScanCoverage
    <3>4. ScanList' = ScanList
      BY <2>4 DEF ScanList
    <3> QED BY <3>1, <3>2, <3>3, <3>4, <2>2, <2>4 DEF ScanCoverage
  <2> QED BY <2>1, <2>2, <2>4, <2>7, <2>8, <1>0 DEF BucketIInv, BucketTypeOK
<1>8. CASE FindTopLower
  <2>1. scan \in ScanType /\ scan.on /\ scan.at = None /\ scan.g > Below(GainBound)
    BY <1>0, <1>8, <1>c DEF FindTopLower
  <2>2. /\ b' = b /\ answer' = answer /\ seen' = seen
        /\ scan' = Enter(scan.side, scan.ok, scan.g - 1)
    BY <1>8 DEF FindTopLower
  <2>3. /\ scan.side \in Side /\ scan.ok \in SUBSET Vertex
        /\ scan.g \in Below(GainBound) .. GainBound /\ scan.g # Below(GainBound)
        /\ scan.g - 1 \in Below(GainBound) .. GainBound /\ scan.g \in Int
    BY <2>1 DEF ScanType, Below
  <2>4. \A v \in seen : /\ v \in b.in /\ v \notin scan.ok /\ b.side[v] = scan.side
                        /\ b.gain[v] > scan.g - 1
    BY <2>1, <2>3, <1>0 DEF BucketIInv, ScanPosition, BucketType, Gains
  <2>5. \A v \in b.in : b.side[v] = scan.side /\ b.gain[v] > scan.g - 1 => v \in seen
    <3> SUFFICES ASSUME NEW v \in b.in, b.side[v] = scan.side, b.gain[v] > scan.g - 1
                 PROVE  v \in seen
      OBVIOUS
    <3>1. b.gain[v] \in Int
      BY <1>0 DEF BucketType, Gains
    <3>2. CASE b.gain[v] > scan.g
      BY <3>2, <2>1 DEF BucketIInv, ScanCoverage
    <3>3. CASE b.gain[v] = scan.g
      BY <3>3, <2>1, <2>3, ListCovered DEF BucketOf, ScanList
    <3> QED BY <3>1, <3>2, <3>3, <2>3
  <2>6. scan' \in ScanType /\ ScanPosition' /\ ScanCoverage'
    BY <2>2, <2>3, <2>4, <2>5, <1>0, EnterCovered
  <2> QED BY <2>2, <2>6, <1>0 DEF BucketIInv, BucketTypeOK
<1>9. CASE FindTopMiss
  <2>1. answer' \in AnswerType
    BY <1>9 DEF FindTopMiss, AnswerType, Link
  <2> QED BY <2>1, <1>0, <1>9, <1>a, <1>c DEF FindTopMiss
<1>10. CASE UNCHANGED bucketVars
  BY <1>10 DEF bucketVars, BucketIInv, BucketTypeOK, ScanPosition, ScanCoverage, ScanList
<1> QED BY <1>1, <1>2, <1>3, <1>4, <1>5, <1>6, <1>7, <1>8, <1>9, <1>10 DEF BucketNext

(* The lists stay well linked and find_top's scan passes over no feasible   *)
(* vertex, whatever the sequence of calls (fm_buckets.hpp:33-94).           *)
THEOREM BucketsInvariant == BucketSpec => [](BucketTypeOK /\ ListsAndScan)
<1>1. BucketIInv => BucketTypeOK /\ ListsAndScan
  BY DEF BucketIInv, ListsAndScan, BucketInv
<1> QED BY <1>1, InitInv, StepInv, PTL DEF BucketSpec

----------------------------------------------------------------------------
(* Every step of the lists is a step of the queue or leaves it unchanged. *)
LEMMA StepRefines == BucketIInv /\ [BucketNext]_bucketVars => [Queue!QNext]_(Queue!queueVars)
<1> SUFFICES ASSUME BucketIInv, [BucketNext]_bucketVars
             PROVE  [Queue!QNext]_(Queue!queueVars)
  OBVIOUS
<1> USE GainBoundAssumption, NoneAssumption
<1> DEFINE place == [v \in Vertex |-> BucketOf(b, v)]
<1>0. /\ b \in BucketType(GainBound) /\ BucketInv(b, GainBound)
      /\ scan \in {NoScan} \cup ScanType /\ b.in \subseteq Vertex
      /\ b.side \in [Vertex -> Side] /\ b.gain \in [Vertex -> Gains(GainBound)]
  BY DEF BucketIInv, BucketTypeOK, BucketType
<1>a. Queue!NoAnswer = NoAnswer
  BY DEF Queue!NoAnswer, NoAnswer
<1>b. \A v \in Vertex : Queue!SideOf(v) = b.side[v] /\ Queue!GainOf(v) = b.gain[v]
  BY DEF Queue!SideOf, Queue!GainOf, BucketOf
<1>c. ~ NoScan.on
  BY DEF NoScan
<1>d. ASSUME b'.side = b.side, b'.gain = b.gain PROVE place' = place
  BY <1>d DEF BucketOf
<1>1. ASSUME NEW v \in Vertex, NEW s \in Side, NEW g \in Gains(GainBound), Insert(v, s, g)
      PROVE  Queue!QNext
  <2>1. /\ b'.in = b.in \cup {v} /\ v \notin b.in /\ answer' = NoAnswer
        /\ b'.side = [b.side EXCEPT ![v] = s] /\ b'.gain = [b.gain EXCEPT ![v] = g]
    BY <1>1 DEF Insert, InsertOp
  <2>2. place' = [place EXCEPT ![v] = <<s, g>>]
    BY <2>1, <1>0 DEF BucketOf
  <2>3. Queue!QInsert(v, s, g)
    BY <2>1, <2>2, <1>a DEF Queue!QInsert
  <2>4. s \in {0, 1} /\ g \in (0 - GainBound) .. GainBound
    BY DEF Side, Gains
  <2> QED BY <2>3, <2>4 DEF Queue!QNext
<1>2. ASSUME NEW v \in Vertex, Erase(v)
      PROVE  Queue!QNext
  <2>1. b'.in = b.in \ {v} /\ b'.side = b.side /\ b'.gain = b.gain /\ answer' = NoAnswer
    BY <1>0, <1>2, EraseInv DEF Erase
  <2>2. Queue!QErase(v)
    BY <2>1, <1>a, <1>d DEF Queue!QErase
  <2> QED BY <2>2 DEF Queue!QNext
<1>3. ASSUME NEW v \in Vertex, NEW g \in Gains(GainBound), UpdateGain(v, g)
      PROVE  Queue!QNext
  <2> DEFINE e == EraseOp(b, v)
  <2>1. e.in = b.in \ {v} /\ e.side = b.side /\ e.gain = b.gain
    BY <1>0, EraseInv
  <2>2. /\ b'.in = e.in \cup {v} /\ b'.side = [e.side EXCEPT ![v] = b.side[v]]
        /\ b'.gain = [e.gain EXCEPT ![v] = g]
    BY <1>3 DEF UpdateGain, UpdateGainOp, InsertOp
  <2>3. v \in b.in /\ answer' = NoAnswer
    BY <1>3 DEF UpdateGain
  <2>4. b'.in = b.in
    BY <2>1, <2>2, <2>3
  <2>5. place' = [place EXCEPT ![v] = <<b.side[v], g>>]
    <3> HIDE DEF e
    <3> QED BY <2>1, <2>2, <1>0 DEF BucketOf
  <2>6. Queue!QUpdate(v, g)
    BY <2>3, <2>4, <2>5, <1>a, <1>b DEF Queue!QUpdate
  <2> QED BY <2>6 DEF Queue!QNext, Gains
<1>4. ASSUME NEW s \in Side, AskMaxGain(s)
      PROVE  Queue!QNext
  <2> DEFINE m == MaxGain(b, GainBound, s)
  <2>1. m \in Below(GainBound) .. GainBound
    BY <1>0, MaxGainSettled
  <2>2. /\ b'.in = b.in /\ b'.side = b.side /\ b'.gain = b.gain
        /\ \A v \in b.in : b.side[v] = s => b.gain[v] <= m
        /\ m # Below(GainBound) => b.head[<<s, m>>] # None
        /\ answer' = [kind |-> "max", value |-> m]
    <3>1. b' = Settle(b, GainBound, s) /\ answer' = [kind |-> "max", value |-> m]
      BY <1>4 DEF AskMaxGain
    <3>2. b'.in = b.in /\ b'.side = b.side /\ b'.gain = b.gain
      BY <3>1 DEF Settle
    <3>3. /\ \A v \in b.in : b.side[v] = s => b.gain[v] <= m
          /\ m # Below(GainBound) => b.head[<<s, m>>] # None
      BY <1>0, SettleInv
    <3> QED BY <3>1, <3>2, <3>3
  <2>3. m # Below(GainBound) => \E v \in b.in : b.side[v] = s /\ b.gain[v] = m
    <3> SUFFICES ASSUME m # Below(GainBound)
                 PROVE  \E v \in b.in : b.side[v] = s /\ b.gain[v] = m
      OBVIOUS
    <3>1. <<s, m>> \in DOMAIN b.head
      <4> HIDE DEF m
      <4> QED BY <2>1, <1>0 DEF BucketType, Below, Gains
    <3>2. b.head[<<s, m>>] \in b.in /\ BucketOf(b, b.head[<<s, m>>]) = <<s, m>>
      BY <3>1, <2>2, <1>0 DEF BucketInv, WellLinked, HeadAgrees
    <3> QED BY <3>2 DEF BucketOf
  <2>4. Queue!IsMaxGain(s, m)
    <3> HIDE DEF m
    <3> QED BY <2>2, <2>3, <1>0, <1>b DEF Queue!IsMaxGain, Below
  <2>5. Queue!QMaxGain(s, m)
    BY <2>2, <2>4, <1>d DEF Queue!QMaxGain
  <2>6. s \in {0, 1} /\ m \in (0 - GainBound - 1) .. GainBound
    BY <2>1 DEF Side, Below
  <2> QED BY <2>5, <2>6 DEF Queue!QNext
<1>5. ASSUME NEW s \in Side, NEW ok \in SUBSET Vertex, FindTopStart(s, ok)
      PROVE  Queue!QNext
  <2>1. /\ b'.in = b.in /\ b'.side = b.side /\ b'.gain = b.gain /\ answer' = NoAnswer
    <3>1. b' = Settle(b, GainBound, s) /\ answer' = NoAnswer
      BY <1>5 DEF FindTopStart
    <3>2. /\ Settle(b, GainBound, s).in = b.in /\ Settle(b, GainBound, s).side = b.side
          /\ Settle(b, GainBound, s).gain = b.gain
      BY DEF Settle
    <3> QED BY <3>1, <3>2
  <2> QED BY <2>1, <1>a, <1>d DEF Queue!QForget, Queue!QNext
<1>6. CASE FindTopHit
  <2> DEFINE u == scan.at
  <2>1. /\ scan \in ScanType /\ scan.on /\ u \in scan.ok /\ b' = b
        /\ answer' = [kind |-> "top", value |-> u]
    BY <1>0, <1>6, <1>c DEF FindTopHit
  <2>2. scan.side \in Side /\ scan.ok \in SUBSET Vertex /\ u \in Vertex
    BY <2>1 DEF ScanType
  <2>3. u \in b.in /\ b.side[u] = scan.side /\ b.gain[u] = scan.g
    BY <2>1, <2>2 DEF BucketIInv, ScanPosition, BucketOf, ScanList
  <2>4. ASSUME NEW v \in b.in, b.side[v] = scan.side, v \in scan.ok
        PROVE  b.gain[v] <= b.gain[u]
    <3>1. v \notin seen
      BY <2>1, <2>4 DEF BucketIInv, ScanPosition
    <3>2. ~ (b.gain[v] > scan.g)
      BY <3>1, <2>1, <2>4 DEF BucketIInv, ScanCoverage
    <3>3. b.gain[v] \in Int /\ scan.g \in Int
      BY <2>1, <1>0 DEF ScanType, Gains, Below
    <3> QED BY <3>2, <3>3, <2>3
  <2>5. Queue!IsTop(scan.side, scan.ok, u)
    BY <2>1, <2>3, <2>4, <1>0, <1>b DEF Queue!IsTop
  <2>6. Queue!QFindTop(scan.side, scan.ok, u)
    BY <2>1, <2>5, <1>d DEF Queue!QFindTop
  <2> QED BY <2>2, <2>6 DEF Queue!QNext, Side
<1>7. CASE FindTopSkip
  BY <1>7, <1>d DEF FindTopSkip, Queue!queueVars
<1>8. CASE FindTopLower
  BY <1>8, <1>d DEF FindTopLower, Queue!queueVars
<1>9. CASE FindTopMiss
  <2>1. /\ scan \in ScanType /\ scan.on /\ scan.g = Below(GainBound) /\ b' = b
        /\ answer' = [kind |-> "top", value |-> None]
    BY <1>0, <1>9, <1>c DEF FindTopMiss
  <2>2. scan.side \in Side /\ scan.ok \in SUBSET Vertex
    BY <2>1 DEF ScanType
  <2>3. ASSUME NEW v \in b.in, b.side[v] = scan.side, v \in scan.ok
        PROVE  FALSE
    <3>1. v \notin seen
      BY <2>1, <2>3 DEF BucketIInv, ScanPosition
    <3>2. b.gain[v] > scan.g
      BY <2>1, <1>0 DEF Gains, Below
    <3> QED BY <3>1, <3>2, <2>1, <2>3 DEF BucketIInv, ScanCoverage
  <2>4. Queue!IsTop(scan.side, scan.ok, None)
    BY <2>3, <1>0, <1>b DEF Queue!IsTop
  <2>5. Queue!QFindTop(scan.side, scan.ok, None)
    BY <2>1, <2>4, <1>d DEF Queue!QFindTop
  <2> QED BY <2>2, <2>5 DEF Queue!QNext, Side
<1>10. CASE UNCHANGED bucketVars
  BY <1>10, <1>d DEF bucketVars, Queue!queueVars
<1> QED BY <1>1, <1>2, <1>3, <1>4, <1>5, <1>6, <1>7, <1>8, <1>9, <1>10 DEF BucketNext

(* The buckets implement the exact priority queue that one FM pass assumes: *)
(* lazy lowering of m_max and unlinking never change an answer.             *)
THEOREM BucketsRefineQueue == BucketSpec => RefinesQueue
<1>1. BucketInit => Queue!QInit
  <2> SUFFICES ASSUME BucketInit PROVE Queue!QInit
    OBVIOUS
  <2>1. b.in = {} /\ \A v \in Vertex : BucketOf(b, v) = <<0, 0>>
    BY DEF BucketInit, EmptyBuckets, BucketOf
  <2> QED BY <2>1 DEF BucketInit, Queue!QInit, Queue!NoAnswer, NoAnswer
<1> QED BY <1>1, InitInv, StepInv, StepRefines, PTL DEF BucketSpec, RefinesQueue, Queue!QSpec
================================================================================
