SPECIFICATION Spec
CONSTANTS
  Painters = {p1, p2}
  NoPainter = NoPainter
  NoFrame = NoFrame
  MaxSent = 3
  MaxPosts = 2
  MaxMoved = 1
  Earlier = 1
SYMMETRY Symmetry
INVARIANTS AckMeansApplied
