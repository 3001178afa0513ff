SPECIFICATION Spec
CONSTANTS
  None = None
  Target = "target"
  Fits <- MCFits
  MaxShifts = 2
  MaxSlotRequests = 2
  SlotAnswers <- MCSlotAnswers
  Batch <- MCBatch
  RequestTime = 2
  FetchTime = 6
  Wall <- MCWall
  Widgets <- MCWidgets
  TicketAnswers <- MCTicketAnswers
  FormAnswers <- MCFormAnswers
  Prompt = 1
  MaxRotations = 2
INVARIANTS AbandonedInert BlameTheSite SlotsReadOnly AdaptersAgree ReadingsTrue
PROPERTIES BatchEnds
CHECK_DEADLOCK FALSE
