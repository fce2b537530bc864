---------------------------- MODULE MCGainBuckets ----------------------------
(* GainBuckets on a few vertices.                                           *)
EXTENDS GainBuckets, FiniteSets, TLC

VertexSymmetry == Permutations(Vertex)
=============================================================================
