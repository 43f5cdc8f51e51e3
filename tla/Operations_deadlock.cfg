SPECIFICATION Spec
CONSTANTS
  MaxSlots = 2
  Retention = 3
  Threads <- TwoThreads
  Handlers <- OneStore
  Messages <- PoolMessages
  Refusal <- Refused
  PoolErrors <- Pool
  Missed <- MissedMessage
  StageFailed <- Stage
  MaxFailures = 2
  MaxErrors = 1
  MaxRestarts = 0
INVARIANTS NoHandlerCycle
