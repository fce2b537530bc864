--------------------------------- MODULE Sweep ---------------------------------
(****************************************************************************)
(* Abc_NtkSweep as the optimisers call it at the end of a round: vacuous    *)
(* fanins are dropped, constants and single-input nodes are merged into     *)
(* their fanouts, and dangling nodes removed.  g = [fanin, truth] is the    *)
(* body of a node.                                                          *)
(****************************************************************************)
EXTENDS PartNet

Body(n, v) == [fanin |-> n.fanin[v], truth |-> n.truth[v]]
SetBody(n, v, g) == [n EXCEPT !.fanin[v] = g.fanin, !.truth[v] = g.truth]

Flip(S, i) == IF i \in S THEN S \ {i} ELSE S \cup {i}

Support(g) == {i \in DOMAIN g.fanin : \E S \in SUBSET DOMAIN g.fanin :
                                        (S \in g.truth) # (Flip(S, i) \in g.truth)}

(* Abc_NodeMinimumBase: slots outside the support go, and if there are any, *)
(* slots with the same fanin become one.                                    *)
Compact(g) ==
  LET used == Support(g)
      rep(i)  == Min({j \in used : g.fanin[j] = g.fanin[i]})
      kept    == {rep(i) : i \in used}
      rank(i) == Cardinality({j \in kept : j <= rep(i)})
      order   == Listed(kept, ById(kept))
  IN IF used = DOMAIN g.fanin THEN g
     ELSE [ fanin |-> [k \in DOMAIN order |-> g.fanin[order[k]]],
            truth |-> {T \in SUBSET DOMAIN order : {i \in used : rank(i) \in T} \in g.truth} ]

MinimumBase(g) == Compact(Compact(g))

AllMinimumBase(n) ==
  [n EXCEPT !.fanin = [v \in n.node |-> MinimumBase(Body(n, v)).fanin],
            !.truth = [v \in n.node |-> MinimumBase(Body(n, v)).truth]]

IsConst0(n, v) == n.truth[v] = {}
IsInv(n, v) == n.truth[v] = {{}}   \* of a node with one fanin

(* Abc_NodeConstantInput *)
Fixed(g, i, zero) ==
  [g EXCEPT !.truth = {S \in SUBSET DOMAIN g.fanin :
                         (IF zero THEN S \ {i} ELSE S \cup {i}) \in g.truth}]

(* Abc_NodeComplementInput and Abc_ObjPatchFanin *)
Bypassed(g, i, u, inv) ==
  [fanin |-> ReplaceAt(g.fanin, i, u), truth |-> IF inv THEN {Flip(S, i) : S \in g.truth} ELSE g.truth]

(* v has no fanin or one, and a fanout w that is a node. *)
Sweepable(n) == {v \in n.node : Len(n.fanin[v]) < 2 /\ Fanouts(n, v) # {}}

SweptInto(n, v, w) ==
  LET g == Body(n, w)
      i == Min({j \in DOMAIN g.fanin : g.fanin[j] = v})
      h == IF n.fanin[v] = <<>> THEN Fixed(g, i, IsConst0(n, v))
           ELSE Bypassed(g, i, n.fanin[v][1], IsInv(n, v))
      m == SetBody(n, w, MinimumBase(h))
  IN IF Fanouts(m, v) = {} /\ ~Drives(m, v) THEN Deleted(m, v) ELSE m

(* An output takes the driver of its single-input node if that is a node    *)
(* with no other fanout.                                                    *)
FanoutNum(n, u) == Cardinality({s \in Slots(n) : Driver(n, s) = u})
                   + Cardinality({o \in DOMAIN n.po : n.po[o] = u})

OutputSwept(n, o) ==
  LET v == n.po[o]
      u == n.fanin[v][1]
      t == IF IsInv(n, v) THEN (SUBSET DOMAIN n.fanin[u]) \ n.truth[u] ELSE n.truth[u]
  IN IF v \in n.node /\ Len(n.fanin[v]) = 1 /\ u \in n.node /\ FanoutNum(n, u) = 1
     THEN [n EXCEPT !.truth[u] = t, !.po[o] = u]
     ELSE n

OutputsSwept(n) ==
  LET swept[o \in 0 .. Len(n.po)] == IF o = 0 THEN n ELSE OutputSwept(swept[o - 1], o)
  IN swept[Len(n.po)]
=============================================================================
