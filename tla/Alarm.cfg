SPECIFICATION Spec
CONSTANTS
  Sleeps = {s1, s2}
  Wakers = {w1, w2}
  MaxNow = 2
  Skews <- MCSkews
  None = None
SYMMETRY Alike
INVARIANTS NoLostWake NeverEarly
