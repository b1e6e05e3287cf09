CONSTANTS
  AgentMessages <- McMessages
  Commands <- McCommands
  Profiles <- McProfiles
  Listing <- McListing
  Root <- McRoot
  Capacities <- McCapacities
  ReadSize = 25
  MaxSent = 2
  Encode <- Dump
  EncodePretty <- DumpPretty
  Decode <- Parse
  Torn <- McTorn
SPECIFICATION WireSpec
INVARIANTS
  DeliveredInOrder
  NothingLost
  ExitCodeTruthful
  ConfigWhole
