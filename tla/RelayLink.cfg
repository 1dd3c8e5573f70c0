CONSTANTS
  Surfaces <- WindowAndPopup
  Owner <- PopupOfWindow
  MaxContacts = 1
  Environments <- AllEnvironments
  Controls <- AllControls
SPECIFICATION ViewedSpec
INVARIANTS HeldInputSettled ClaimsSettled CursorSettled OnlyStaleSessionsFail EveryWindowAdmitted
           TakeoverIsClean HeldIsReceipted
CHECK_DEADLOCK FALSE
