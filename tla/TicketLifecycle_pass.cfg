SPECIFICATION Spec
CONSTANTS
  t1 = t1  p1 = p1  p2 = p2  s1 = s1  r1 = r1  r2 = r2   q1 = q1  q2 = q2
  None = None
  Tickets <- OneTicket
  Pros <- TwoPros
  Staff <- OneStaff
  Rows <- TwoRows
  Requests <- TwoRequests
SYMMETRY Symmetry
INVARIANTS EscalatedIsStale ReviewKeepsLinks UniqueRow
PROPERTIES DispatchedIsKept ChosenAreSent DoneIsKept
CONSTRAINT Followed
CHECK_DEADLOCK FALSE
