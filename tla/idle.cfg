CONSTANTS
  Timeouts = {0, 1, 3}
  MaxElapsed = 4
  MaxChanges = 2
  MaxEvents = 4
SPECIFICATION FairBackendSpec
INVARIANTS
  IdleTypeOK
  NoLostTimer
  TimerCoversThreshold
PROPERTIES
  NoFalseIdle
  ImplementsMonitor
  SleepReported
