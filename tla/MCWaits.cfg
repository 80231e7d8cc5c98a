SPECIFICATION WaitsSpec
CONSTANTS
  None = None
  Sleeps = {s1}
  Wakers = {p1, p2}
  MaxNow = 2
  Workers = {w1}
  NoWorker = NoWorker
  Aborts = FALSE
  MaxPosts = 2
  MaxSent = 3
  MaxSaid = 2
PROPERTIES SleepsEnd WorkersAreHeard EndedIsReleased
CHECK_DEADLOCK FALSE
