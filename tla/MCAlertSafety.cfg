SPECIFICATION Spec
CONSTANTS
  Codes = {"DRY_RUN", "MAINS_LOST", "OFFLINE"}
  Mailed = {"DRY_RUN"}
  NotifyResolve = "all"
  Cooldown = 1
  Retry = 0
  MaxAttempts = 2
  OfflineAfter = 1
  MaxTime = 2
  MaxInputs = 3
INVARIANTS TypeOK OneOpen ResolvedAfterRaised SentMeansArrived MailsJustified
CHECK_DEADLOCK FALSE
