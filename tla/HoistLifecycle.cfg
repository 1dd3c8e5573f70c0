SPECIFICATION FairSpec
CONSTANTS
  Toplevels = {t1, t2}
  Endpoints <- RemoteAndLoopback
  NoRequest = NoRequest
  NoRoot = NoRoot
INVARIANT HoistsAccounted
PROPERTY FamilyComesHome
