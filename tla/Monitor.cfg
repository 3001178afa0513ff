SPECIFICATION FairSpec
CONSTANTS
  NTents = 3
  BatchSize = 2
  Total <- MCTotal
  MaxTries = 2
  MaxFaults = 2
INVARIANT RepeatsBounded
PROPERTIES SentIsDurable EverythingSettled ImplementsLife
