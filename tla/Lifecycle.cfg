SPECIFICATION FairSpec
CONSTANTS
  Names <- MCNames
  Malformed = {"~games.com"}
  Cooldown = 2
  Hours = 2
  HourLength = 2
  Shown = 1
  NoReport = NoReport
  Torn = Torn
  MaxCount = 1
  MaxClock = 3
INVARIANTS
  TypeOK
  RuleMatchesLife
  ReportConsistent
  RateBound
PROPERTIES
  EveryBlockIsReported
