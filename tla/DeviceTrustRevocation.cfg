CONSTANTS
  Participants = {phone, tablet}
  NoParticipant = NoParticipant
  MaxSessions = 1
  LastId = 1
  Grants = {view, full}
  Browsing = {full}
  Diagnostics = {FALSE}
  Codes = {code}
  NoDevice = NoDevice
  MaxDevices = 2
  MaxConnections = 1
  MaxInvitations = 2
  MaxCrashes = 1
SPECIFICATION Spec
INVARIANT
  RevokedUntilApproved
