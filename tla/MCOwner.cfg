SPECIFICATION PartsSpec
CONSTANTS
  Owners = {v1}
  Role = "page"
  Tasks = {t1, t2, t3}
  NoTask = NoTask
  NoJob = NoJob
  MaxEntries = 3
  MaxNow = 2
  MaxArms = 3
  MaxTurns = 4
  Delays = {0, 1}
  ClampedNesting = 1
  ClampedDelay = 1
  Srcs = {a, b}
  NoSrc = none
  MaxCards = 3
  MaxDepth = 2
  MaxActs = 2
SYMMETRY Symmetry
INVARIANTS NoLostWake DeadlineWithdrawn ReapIsComplete OneReport TimersHold CardsAreKept WaitersAreTold
PROPERTIES QuietAfterEnd PanicIsReported ClearedStaysCleared
