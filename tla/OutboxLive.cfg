SPECIFICATION PromptSpec
CONSTANTS
  Ids = {e1, e2}
  Tents = {t1}
  None = None
  Gaps <- MCGapsLive
  MaxAttempts = 1
  MaxDeferrals = 2
  MinDelay = 1
  DefaultDelay = 1
  MaxDelay = 1
  Backoff <- MCBackoffLive
  MaxWait = 0
  Keep = 1
  TicksPerSecond = 1
  Oversleep = {0}
  CallTime = {0}
  Remainings = {0}
  ResetOffsets = {1}
  RetryAfters = {}
  RetryDates = {}
  MaxTime = 7
  LastEnqueue = 0
  MaxKills = 1
  MaxUnread = 0
  MaxRequeues = 0
  MaxDeployments = 1
PROPERTIES EventuallySettled
CHECK_DEADLOCK FALSE
