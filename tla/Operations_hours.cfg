SPECIFICATION FairSpec
CONSTANTS
  MaxSlots = 2
  Retention = 3
  Threads <- TwoThreads
  Handlers <- OneStore
  Messages <- FewMessages
  Refusal <- Refused
  PoolErrors <- None
  Missed <- MissedMessage
  StageFailed <- Stage
  MaxFailures = 2
  MaxErrors = 1
  MaxRestarts = 1
INVARIANTS TypeOK OneAlertPerWindow ReportedOnce
PROPERTIES AlarmHasCause LoggingReturns MissedSlotMailed
