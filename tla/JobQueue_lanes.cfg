SPECIFICATION FairSpec
CONSTANTS
  Jobs = {"n1", "m1"}
  Kinds = {"notify", "emailReply", "escalate"}
  KindOf <- LanesKindOf
  ChainOrder <- NoChain
  MailKinds = {"emailReply"}
  MarkedKinds = {"notify", "emailReply"}
  SlowKinds = {"notify", "escalate", "emailReply"}
  Loops = {"general", "mail"}
  LaneOf <- BothLanes
  MaxAttempts = 2
  RetryDelay <- TwoDelays
  Period = 2
  PerTick = 2
  StartupFirst = TRUE
  MaxClock = 1
  MaxCrashes = 0
  MaxDbErrors = 0
PROPERTIES LaneSettles
