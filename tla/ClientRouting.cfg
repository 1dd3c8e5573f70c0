CONSTANTS
  Surfaces <- Windows
  Targets <- LocalWindows
  Keys = {k1, k2}
  Sources <- BothSources
  Source <- SourceOfWindow
  None = None
  NoTarget = NoTarget
  Buttons = {b1, b2}
  Contacts = {c1, c2}
  Swipes = {"gesture", "scroll"}
  MaxContacts = 1
  Idle = Idle
  NoPending = NoPending
  QueuedSurfaces = {s1, s2}
  Layers = {1}
  MaxQueue = 3
  MaxPushes = 5
SPECIFICATION RuntimeSpec
SYMMETRY SurfaceSymmetry
INVARIANTS KeysSettled KeyboardFollowsFocus SequencesSettled PointerFollowsShell
INVARIANTS QueueIsTransparent RepaintsCoalesce
CHECK_DEADLOCK FALSE
