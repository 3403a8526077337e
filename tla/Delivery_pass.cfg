\* A contractor with a telephone, two jobs of two attempts.
SPECIFICATION Spec
CONSTANTS
  Professionals = {p}
  Users = {}
  Phoned = {p}
  MaxAttempts = 2
  MaxJobs = 2
  MaxFaults = 1
  Channels = {"gmail", "console", "missing"}
INVARIANTS PromiseIsKept NobodySilent OneMailPerJob
PROPERTIES QueuedMoves
CHECK_DEADLOCK FALSE
