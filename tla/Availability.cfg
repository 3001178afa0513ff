SPECIFICATION Spec
CONSTANTS
  Labels <- MCLabels
  Keys <- MCKeys
  NoKey = NoKey
  ShiftKey <- MCShiftKey
  Quiet <- MCQuiet
  BurstParts = 8
  MaxAlerts = 4
INVARIANTS Savable BaselineAnnounced EventsDeliverable
PROPERTIES NoRepeatedAlert ImplementsPromise
CHECK_DEADLOCK FALSE
