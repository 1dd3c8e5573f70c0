SPECIFICATION Spec
CONSTANTS
  Surfaces = {s1}
  NoSurface = none
  Layers = {1}
  Links <- Sessions
INVARIANTS ControlsKeepTheirPlace SessionsLeaveNothing
PROPERTIES NeverBackwards
CHECK_DEADLOCK FALSE
