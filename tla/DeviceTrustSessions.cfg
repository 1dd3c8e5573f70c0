CONSTANTS
  Participants = {phone}
  NoParticipant = NoParticipant
  MaxSessions = 2
  LastId = 2
  Grants = {full}
  Browsing = {full}
  Diagnostics = {TRUE, FALSE}
  Codes = {code}
  NoDevice = NoDevice
  MaxDevices = 1
  MaxConnections = 1
  MaxInvitations = 1
  MaxCrashes = 0
SPECIFICATION FairSpec
PROPERTIES PermitsAreStable WithdrawnStopsServing
