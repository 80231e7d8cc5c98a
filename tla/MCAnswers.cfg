SPECIFICATION AnswersSpec
CONSTANTS
  Futures = {f1, f2, f3}
  None = None
  LastId = 3
  Views = {v1, v2}
  Sources = {a, b}
  Documents = {d}
  Full = 2
  First = 2
  Budgets = {2, 3}
  Permits = 1
  MaxActs = 3
INVARIANTS OutcomesArrive EveryoneIsTold
PROPERTIES FrameStays ConversionsSettle RequestsEnd
CHECK_DEADLOCK FALSE
