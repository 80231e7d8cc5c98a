SPECIFICATION ClocksSpec
CONSTANTS
  Realms = {r1, r2}
  NoJob = NoJob
  MaxInstant = 2
  MaxEntries = 1
  MaxArms = 2
INVARIANTS NothingForgotten SettlesDoNotPile
PROPERTIES ClocksServeAndRest
