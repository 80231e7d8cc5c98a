SPECIFICATION FairSpec
CONSTANTS
  Painters = {p1}
  NoPainter = NoPainter
  NoFrame = NoFrame
  MaxSent = 3
  MaxPosts = 2
  MaxMoved = 1
  Earlier = 0
INVARIANTS AckMeansApplied NothingStranded
PROPERTIES ScrollFirst FramesAreServiced
