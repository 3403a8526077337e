SPECIFICATION FormSpec
CONSTANTS
  a1 = a1  a2 = a2
  Attempts <- OneAttempt
  MaxTexts = 1
  MaxOpens = 1
  MaxPresses = 1
  MaxFlaps = 1
INVARIANT DraftStaysDraft
CHECK_DEADLOCK FALSE
