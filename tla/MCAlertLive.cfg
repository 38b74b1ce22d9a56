SPECIFICATION FairSpec
CONSTANTS
  Codes = {"FLOAT_HIGH", "OFFLINE"}
  Mailed = {"FLOAT_HIGH"}
  NotifyResolve = "critical"
  Cooldown = 1
  Retry = 1
  MaxAttempts = 2
  OfflineAfter = 1
  MaxTime = 2
  MaxInputs = 2
PROPERTY MailsDelivered
CHECK_DEADLOCK FALSE
