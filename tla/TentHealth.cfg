SPECIFICATION Spec
CONSTANTS
  Threshold = 3
  MaxRuns = 7
  MaxOld = 4
  MaxOldNumber = 1
INVARIANTS NoEarlyAlarm OneAlarmPerKind AlarmNotMissed AlarmsEnqueued
CHECK_DEADLOCK FALSE
