SPECIFICATION FormSpec
CONSTANTS
  a1 = a1  a2 = a2
  Attempts <- TwoAttempts
  MaxTexts = 2
  MaxOpens = 2
  MaxPresses = 1
  MaxFlaps = 2
INVARIANTS NothingLost NoGhost
PROPERTIES PendingGoesOut
CHECK_DEADLOCK FALSE
