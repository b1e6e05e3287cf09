CONSTANTS
  c1 = c1
  c2 = c2
  Fds = {c1, c2}
  own = own
  NoId = NoId
  NoSetting = NoSetting
  Settings <- McSettings
  MaxQuiet = 2
  Worlds <- McWorlds
  MaxUp = 2
  MaxDown = 1
SPECIFICATION FairSystem
PROPERTIES
  Reconnects
