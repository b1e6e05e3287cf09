CONSTANTS
  f1 = f1
  f2 = f2
  s1 = s1
  s2 = s2
  n1 = n1
  n2 = n2
  n3 = n3
  r1 = r1
  Fds = {f1}
  NoFd = NoFd
  Listen = Listen
  Hw = Hw
  Sessions = {s1}
  NoSession = NoSession
  Names = {n1, n2, n3}
  NoName = NoName
  NoProfile = NoProfile
  Broken = Broken
  Reasons = {r1}
  Messages <- BrightnessMessages
  Busy = {}
  MaxInbox = 1
  MaxSignals = 0
  Profiles <- McProfiles
  ConfigFiles <- OneFile
  HwEvents = {}
  MaxHw = 0
  UserLevels = {5}
  MaxBrightness = 7
  BacklightPresent = TRUE
  CpuSettings <- McCpuSettings
SPECIFICATION Spec
INVARIANTS
  TypeOK
  DimCacheInv
  RecordsHaveConnections
PROPERTIES
  UndimRestores
  SuspendLocks
  ImplementsPolicy
