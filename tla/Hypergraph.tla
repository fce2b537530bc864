------------------------------ MODULE Hypergraph ------------------------------
(* What the FM engine and its gain buckets share: vertices and two sides. *)
EXTENDS Integers

CONSTANT Vertex   (* 0 .. num_vertices - 1 in the code *)

Side == {0, 1}
===============================================================================
