SPECIFICATION Spec
CONSTANTS
  RequestId = {q1, q2}
  GrantId = {g1, g2}
  Subject = {a}
  Handler = {h1, h2}
  Loop = Loop
  Direct = Direct
  None = None
SYMMETRY Symmetry
INVARIANTS OnePendingPerSubject
