SPECIFICATION Spec
CONSTANTS
  None = None
  Top = 1
  Window = 2
  MaxRequests = 0
  MaxSteps = 2
  MaxLayouts = 2
INVARIANTS ScreenAgrees
