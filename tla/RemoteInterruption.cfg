CONSTANTS
  Surfaces <- WindowAndPopup
  Owner <- PopupOfWindow
  MaxContacts = 1
  Environments <- AllEnvironments
  Controls <- AllControls
SPECIFICATION ViewedSpec
INVARIANT NothingHeldUnknown
CHECK_DEADLOCK FALSE
