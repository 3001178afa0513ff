SPECIFICATION Spec
CONSTANTS
  Ids = {e1, e2, e3}
  Tents = {t1}
  None = None
  Gaps <- MCGaps2
  MaxAttempts = 1
  MaxDeferrals = 2
  MinDelay = 1
  DefaultDelay = 1
  MaxDelay = 3
  Backoff <- MCBackoff
  MaxWait = 2
  Keep = 1
  TicksPerSecond = 1
  Oversleep = {0}
  CallTime = {1}
  Remainings = {0}
  ResetOffsets = {2}
  RetryAfters = {}
  RetryDates = {2}
  MaxTime = 6
  LastEnqueue = 0
  MaxKills = 0
  MaxUnread = 0
  MaxRequeues = 0
  MaxDeployments = 0
INVARIANTS ContinuationFirst
PROPERTIES QuotaRespected
SYMMETRY MCSymmetry
CHECK_DEADLOCK FALSE
