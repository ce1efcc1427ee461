SPECIFICATION Spec
CONSTANTS
  Ws = {w1}
  Host = {1, 2, 3}
  Stream = {s1, s2}
  Cap = 1
  Second = 1
  Minute = 2
  MaxTracked = 2
  MaxClock = 3
SYMMETRY Symmetry
INVARIANTS TypeOK RateLimited ThrottleBounded OvershootBounded
PROPERTIES NeverBack
