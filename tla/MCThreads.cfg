SPECIFICATION ThreadsSpec
CONSTANTS
  Owners = {v1, v2}
  Role = "page"
  Tasks = {t1}
  NoTask = NoTask
  NoJob = NoJob
  MaxEntries = 0
  Workers = {w1}
  WorkerTasks = {t1, t2}
  MaxPosts = 2
INVARIANTS ReleaseIsLast
PROPERTIES ImplementsOwnerLife ShutdownCompletes WorkersKeepThePromise
