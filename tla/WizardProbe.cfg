SPECIFICATION Spec
CONSTANTS
  d1 = d1
  d2 = d2
  Targets <- MCTargets
  Lists = {l1, l2}
  Empty = Empty
  NoControl = NoControl
  None = None
  LivewireBound = TRUE
  StableFor = 2
  DateTimeout = 3
  UpdateTimeout = 5
  LoadTime = 2
  ApplyTime = 2
  MaxOthers = 1
  MaxGlitches = 1
SYMMETRY ListsInterchangeable
INVARIANTS LoopsEnd Attributed AbsenceIsReal PromptAnswerIsRead
