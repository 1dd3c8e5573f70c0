SPECIFICATION Spec
CONSTANTS
  Surfaces = {s1, s2}
  NoSurface = none
  Layers = {1, 2}
  Links <- LayersAndSurfaces
SYMMETRY SurfaceSymmetry
INVARIANTS LinkKeepsGoing ContentFaithful DecodersAccounted
CHECK_DEADLOCK FALSE
