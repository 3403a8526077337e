SPECIFICATION Spec
CONSTANTS
  m1 = m1  m2 = m2  p1 = p1  p2 = p2
  None = None
  Mails <- TwoMails
  ConversationOf <- SameConversation
  Reportable <- TwoMails
  Earlier <- OneMail
  Polls <- TwoPolls
  MaxAttempts = 2
  MaxDefer = 2
  MaxIntakes = 2
  MaxCrashes = 1
  MaxTimeouts = 1
SYMMETRY Symmetry
INVARIANTS NobodyForgotten EnteredOnce AnsweredOnce
PROPERTIES MergeIsAllowed
CHECK_DEADLOCK FALSE
