SPECIFICATION Spec
CONSTANTS
  Jobs = {"n1", "e1", "e2", "e3", "e4"}
  Kinds = {"notify", "emailReply", "escalate"}
  KindOf <- WorkerKindOf
  ChainOrder <- EscalateOnly
  MailKinds = {"emailReply"}
  MarkedKinds = {"notify", "emailReply"}
  SlowKinds = {"escalate", "emailReply"}
  Loops = {"general"}
  LaneOf <- GeneralLane
  MaxAttempts = 3
  RetryDelay <- Delays
  Period = 2
  PerTick = 2
  StartupFirst = TRUE
  MaxClock = 3
  MaxCrashes = 1
  MaxDbErrors = 1
INVARIANTS DoneMeansActed ChainAlive RunningIsHeld
PROPERTIES Refines
