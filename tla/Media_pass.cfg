\* One file of any kind, one ticket and one tag; an engine for recordings only.
SPECIFICATION Spec
CONSTANTS
  q1 = q1  q2 = q2  j1 = j1  j2 = j2
  None = None
  Files = {f}
  Tickets = {t}
  Tags = {g}
  Engines = {"audio"}
  Requests <- TwoRequests
  Jobs <- TwoJobs
  MaxAttempts = 2
  MaxFaults = 2
SYMMETRY Symmetry
INVARIANTS ShownIsStored PaidOnce WaitingIsServed WordsArrive
CHECK_DEADLOCK FALSE
