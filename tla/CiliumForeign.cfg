SPECIFICATION Behaviour
CONSTANTS
  Name = {n1, n2}
  Spec = {s1, s2}
  None = None
  NoObject = NoObject
  MaxChange = 1
  MaxOther = 1
  MaxFailure = 0
SYMMETRY Symmetry
PROPERTIES ForeignUntouched
