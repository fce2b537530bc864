------------------------------- MODULE PartLimits -------------------------------
(****************************************************************************)
(* What csr2 measures of a network, and the limits it takes from the        *)
(* network at its entry (csr2_state.cpp).                                   *)
(****************************************************************************)
EXTENDS PartMoves

CONSTANT NodePct   (* the node limit, 102% of the nodes at the entry *)

ASSUME NodePctAssumption == NodePct \in Nat /\ NodePct >= 100

(* ComputeMetrics *)
Overflow(n, l) == LET sz == Sizes(n, l.parts) IN Excess(sz, MaxAllowed(sz, l.pct))

(* ComputePercentageLimit *)
Percent(count, pct, up) ==
  IF count <= 0 \/ pct <= 0 THEN 0 ELSE (count * pct + (IF up THEN 99 ELSE 0)) \div 100

(* CaptureEntryLimits *)
EntryLimits(n, c) ==
  LET l == [ parts   |-> Parts(n, c),
             pct     |-> BalancePct(c),
             hop     |-> HopNum(n),
             nodes   |-> Percent(Cardinality(n.node), NodePct, TRUE),
             budget  |-> Percent(Cardinality(n.node), c.growth, FALSE),
             cutnets |-> Percent(CutNets(n), c.cutnets, TRUE),
             overflow |-> 0 ]
  IN [l EXCEPT !.overflow = Overflow(n, l)]

(* ClusterLimitsHold, RelocationLimitsHold *)
HopHolds(n, l) == HopNum(n) <= l.hop
BalanceHolds(n, l) == Overflow(n, l) <= l.overflow
Within(n, l) ==
  /\ HopHolds(n, l)
  /\ Cardinality(n.node) <= l.nodes
  /\ CutNets(n) <= l.cutnets
  /\ BalanceHolds(n, l)
=============================================================================
