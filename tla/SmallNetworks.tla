------------------------------ MODULE SmallNetworks ------------------------------
(* Small partitioned networks, on which csr and csr2 are checked. *)
EXTENDS PartNet

And == {{1, 2}}
Or  == {{1}, {2}, {1, 2}}
Xor == {{1}, {2}}
But == {{1}}              \* the first and not the second
Inv == {{}}
N(f, t, p) == [f |-> f, t |-> t, p |-> p]

(* The inputs get the numbers 1 .., with the parts ins; then the nodes. *)
Build(ins, nodes, outs) ==
  LET k == Len(ins)
      V == k + 1 .. k + Len(nodes)
  IN [ max |-> k + Len(nodes) + 1, pi |-> 1 .. k, node |-> V,
       fanin |-> [v \in V |-> nodes[v - k].f], truth |-> [v \in V |-> nodes[v - k].t],
       part |-> [v \in 1 .. k + Len(nodes) |-> IF v <= k THEN ins[v] ELSE nodes[v - k].p],
       po |-> outs ]

(* Two nodes that had better change places, and one on the wrong side. *)
Tangled == Build(<<0, 0, 1, 1>>,
  << N(<<1, 2>>, And, 1), N(<<3, 4>>, Or, 0), N(<<5, 6>>, Xor, 0), N(<<6, 3>>, And, 1),
     N(<<5, 8>>, Or, 1) >>, <<7, 9>>)

(* A function that is there twice, and a fanin that makes no difference. *)
Twice == Build(<<0, 1>>,
  << N(<<1, 2>>, And, 1), N(<<1, 2>>, And, 0), N(<<1, 3>>, But, 0), N(<<4, 1>>, Or, 0),
     N(<<5, 6>>, Xor, 0) >>, <<4, 7>>)

(* A driver with several readers in two other parts. *)
Fan == Build(<<0, 1, 2>>,
  << N(<<1, 2>>, Or, 0), N(<<4, 2>>, And, 1), N(<<4, 5>>, Xor, 1), N(<<4, 3>>, And, 2),
     N(<<4, 7>>, But, 2) >>, <<6, 8>>)

(* Everything is in one part but an input. *)
Uneven == Build(<<0, 1>>,
  << N(<<1, 2>>, Or, 0), N(<<3, 1>>, And, 0), N(<<3, 4>>, Xor, 0), N(<<2>>, Inv, 0) >>, <<5, 6>>)

(* A node (9) replaced in the round becomes a divisor of another (12). *)
(* 1, 2 are x, a in part 0 and 3, 4 are p, q in part 1. *)
Chain == Build(<<0, 0, 1, 1>>,
  << N(<<1, 3, 4>>, {{1, 2, 3}}, 1), N(<<1, 3, 4>>, {{2, 3}}, 1), N(<<1, 3, 4>>, {{2, 3}}, 0),
     N(<<3, 4>>, And, 1), N(<<5, 6>>, Or, 0), N(<<9, 7>>, Xor, 0), N(<<10, 1>>, And, 0),
     N(<<1, 2>>, And, 0), N(<<12, 8>>, Xor, 0), N(<<13, 3>>, And, 1) >>, <<7, 11, 14>>)

(* A move that brings fewer cut-edges and more hops. *)
FarMove == Build(<<0, 1, 1>>,
  << N(<<1, 2>>, And, 0), N(<<4, 2, 3>>, {{1, 2, 3}, {3}}, 0) >>, <<5>>)

(* A swap that brings fewer cut-edges and more hops. *)
FarSwap == Build(<<2, 1, 0>>,
  << N(<<1, 2>>, {{2}}, 0), N(<<4, 3>>, But, 0), N(<<4, 2>>, Or, 0), N(<<6, 1>>, And, 1),
     N(<<6, 3>>, And, 1), N(<<7, 6>>, {{2}}, 1) >>, <<5, 8, 9>>)

(* Moves and swaps that make others worth while, or not any more. *)
Knock == Build(<<1, 1, 0>>,
  << N(<<3, 2>>, {{2}}, 0), N(<<1, 3>>, Or, 1), N(<<5, 1>>, Or, 2), N(<<3, 1>>, Xor, 1),
     N(<<7, 3>>, {{2}}, 1), N(<<7, 6>>, And, 1) >>, <<4, 8, 9>>)
Cross == Build(<<0, 0, 0>>,
  << N(<<1, 2>>, Xor, 1), N(<<3, 1>>, Xor, 0), N(<<5, 4>>, Or, 0), N(<<4, 1>>, But, 0),
     N(<<3, 1>>, {{2}}, 1) >>, <<6, 7, 8>>)

(* A duplicate is itself duplicated. *)
Copies == Build(<<1, 1>>,
  << N(<<1, 2>>, Or, 2), N(<<3, 2>>, Or, 1), N(<<4, 1>>, But, 1), N(<<2, 3>>, Xor, 1),
     N(<<3, 4>>, And, 2) >>, <<5, 6, 7>>)

(* A resubstitution takes a later candidate away, and the sweep adds        *)
(* cut-edges.                                                               *)
Chained == Build(<<2, 1>>,
  << N(<<1>>, Inv, 1), N(<<2, 3>>, And, 0), N(<<2, 1>>, Or, 0), N(<<5, 4>>, {{2}}, 0),
     N(<<5, 6>>, Or, 0) >>, <<7>>)

(* The inputs alone fill a part. *)
Pinned == Build(<<0, 0, 0>>, << N(<<1, 2>>, And, 1), N(<<4, 3>>, Or, 1) >>, <<5>>)

(* The same function in both parts, with both fanins in the one. *)
Equal == Build(<<0, 0>>,
  << N(<<1, 2>>, And, 0), N(<<1, 2>>, And, 1), N(<<4, 3>>, Xor, 1), N(<<4, 5>>, Or, 1) >>, <<6>>)

(* The same local function of the same fanins, in opposite order. *)
Opposite == Build(<<0, 0>>,
  << N(<<1, 2>>, But, 0), N(<<2, 1>>, But, 1), N(<<4, 3>>, Or, 1) >>, <<5>>)

(* Chains of nodes that can only be duplicated together. *)
Pair == Build(<<1, 1, 0>>,
  << N(<<1, 2>>, Xor, 0), N(<<4, 1>>, Or, 0), N(<<5, 3>>, And, 0), N(<<5, 2>>, And, 1) >>,
  <<6, 7>>)
Deep == Build(<<1, 1>>,
  << N(<<1, 2>>, And, 0), N(<<3, 1>>, Or, 0), N(<<4, 2>>, Xor, 0), N(<<5, 1>>, And, 1),
     N(<<5, 2>>, Or, 1) >>, <<5, 6, 7>>)
================================================================================
