CONSTANTS
  c1 = c1
  c2 = c2
  Fds = {c1, c2}
  own = own
  NoId = NoId
  NoSetting = NoSetting
  Settings <- McSettings
  MaxQuiet = 2
  Worlds <- McWorlds
  MaxUp = 2
  MaxDown = 2
SPECIFICATION FairSystem
INVARIANTS
  SystemTypeOK
  MonitorFollowsProfile
  InhibitInSync
PROPERTIES
  GoneAgentForgotten
  ActivityRestores
