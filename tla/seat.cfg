CONSTANTS
  f1 = f1
  f2 = f2
  s1 = s1
  s2 = s2
  n1 = n1
  n2 = n2
  n3 = n3
  r1 = r1
  Fds = {f1, f2}
  NoFd = NoFd
  Listen = Listen
  Hw = Hw
  Sessions = {s1, s2}
  NoSession = NoSession
  Names = {n1, n2, n3}
  NoName = NoName
  NoProfile = NoProfile
  Broken = Broken
  Reasons = {r1}
  Messages <- SeatMessages
  Busy = {}
  MaxInbox = 1
  MaxSignals = 2
  Profiles <- McProfiles
  ConfigFiles <- OneFile
  HwEvents = {"SleepButton"}
  MaxHw = 1
  UserLevels = {}
  MaxBrightness = 7
  BacklightPresent = FALSE
  CpuSettings <- McCpuSettings
SPECIFICATION Spec
SYMMETRY SeatSymmetry
INVARIANTS
  TrackerConverges
PROPERTIES
  SuspendLocks
