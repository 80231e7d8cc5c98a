SPECIFICATION SharedSpec
CONSTANTS
  None = None
  Top = 1
  Window = 2
  MaxRequests = 2
  MaxSteps = 2
  MaxLayouts = 1
  Workers = {w1, w2}
  NoWorker = NoWorker
  Aborts = TRUE
  MaxPosts = 2
  MaxSent = 3
  MaxSaid = 2
SYMMETRY Symmetry
INVARIANTS DocumentFollows RequestStands RequestIsOnItsWay WorkersAreTold HandshakeHolds
PROPERTIES NoStartBehindReport
