SPECIFICATION PartsSpec
CONSTANTS
  t1 = t1
  w1 = w1
  w2 = w2
  f1 = f1
  d1 = d1
  p1 = p1
  Chosen <- EveryPart
  Writers = {t1}
  Chain <- MainAndBackup
  News = "finnhub"
  NewsFor <- MainOnly
  Keyed <- AllServices
  Reminded <- MainOnly
  AgeGroups <- YoungAndOld
  Facts <- OneBadFact
  Flawed = {"unseen"}
  WriteSetting = 3
  Deadline = 5
  MaxCall = 2
  Callers <- Two
  PerMin = 2
  Minute = 3
  MaxWait = 4
  Nap = 1
  Lag = 1
  Horizon = 6
  Schedule <- DaySlots
  Recap = "watchlist_recap"
  Families = {f1}
  DayEnd = 5
  MaxTrouble = 2
  MaxChanges = 1
  AlertPairs = {p1}
  MaxAlerts = 2
  Findings = {d1}
  Requests <- Two
  SnoozeDays = {1}
  LastDay = 3
  MaxDecisions = 2
  Curriculum <- FiveIdeas
  FOUNDATION = 2
  OldestWindow = 2
  DayTags <- KindsOfDays
  MaxTradingDay = 14
  MaxLost = 1
  Amounts = {1, 2}
  Days <- FiveDays
  Span = 1
  History = 2
  Retention = 3
  Freshness = 1
  Slack = 0
  MaxMoves = 1
  Watchers = {f1}
  PctLow <- OneDown
  PctHigh <- OneUp
  Moves <- MovesAndRests
  CloseAges = {0, 4, 5}
  PREV_CLOSE_MAX_AGE_DAYS = 4
  OpenAt = 1
  CloseAt = 5
  LongestRun = 1
  DEDUP_WINDOW = 2
  SuggestedBand = 0
  RecapAt = 7
  LastMinute = 7
SYMMETRY Alike
CHECK_DEADLOCK FALSE
INVARIANTS PartsTypeOK LastMailTrue OnlyReviewedSent ReasonTrue EmailsCounted NeverAbovePerMin MissedSlotsCounted MissExplained SilenceEnds SeenOncePerDay LowIsGenuine AlertsSpaced IdeasTakeTurns
PROPERTIES PauseEndsLate
