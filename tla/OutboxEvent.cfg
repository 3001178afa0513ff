SPECIFICATION Spec
CONSTANTS
  Ids = {e1}
  Tents = {t1}
  None = None
  Gaps <- MCGaps
  MaxAttempts = 2
  MaxDeferrals = 2
  MinDelay = 1
  DefaultDelay = 2
  MaxDelay = 5
  Backoff <- MCBackoff
  MaxWait = 2
  Keep = 0
  TicksPerSecond = 2
  Oversleep = {0, 1}
  CallTime = {0, 1}
  Remainings = {0}
  ResetOffsets = {4}
  RetryAfters = {9}
  RetryDates = {}
  MaxTime = 7
  LastEnqueue = 1
  MaxKills = 1
  MaxUnread = 1
  MaxRequeues = 1
  MaxDeployments = 1
INVARIANTS PartsInOrder NeverPoisonsOwn DeferralBounded
PROPERTIES BurstCadence EveryCallProgresses ImplementsLife
CHECK_DEADLOCK FALSE
