SPECIFICATION BucketSpec
CONSTANTS
  Vertex = {v1, v2, v3}
  None = none
  GainBound = 1
SYMMETRY VertexSymmetry
INVARIANTS ListsAndScan
PROPERTIES RefinesQueue
