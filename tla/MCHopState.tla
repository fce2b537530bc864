------------------------------ MODULE MCHopState ------------------------------
(****************************************************************************)
(* HopState on networks of one input and four nodes in two parts.           *)
(****************************************************************************)
EXTENDS HopState, TLC

Nodes == {1, 2, 3, 4}
Input == 0
NoPartId == -1

Shape(f1, f2, f3, f4) ==
  (Input :> {}) @@ (1 :> f1) @@ (2 :> f2) @@ (3 :> f3) @@ (4 :> f4)

Chain   == Shape({0}, {1}, {2}, {3})
Diamond == Shape({0}, {1}, {1}, {2, 3})
Twins   == Shape({0}, {0}, {1, 2}, {2})

Parts(a, b, c, d, e) ==
  (Input :> a) @@ (1 :> b) @@ (2 :> c) @@ (3 :> d) @@ (4 :> e)

MCNetworks ==
  { [fanin |-> Diamond, part |-> Parts(0, 0, 1, 0, 0)],
    [fanin |-> Twins,   part |-> Parts(0, 1, 1, 0, 1)],
    [fanin |-> Chain,   part |-> Parts(0, 0, -1, 1, 0)] }
=============================================================================
