SPECIFICATION ReadSpec
CONSTANTS
  Zone = {z1, z2}
  Ws = {v, w}
  Rule = {dns, host}
  Dns = {dns}
  Valid = {dns, host}
  NoZone = NoZone
  NoWs = NoWs
  MaxCommit = 1
SYMMETRY Symmetry
INVARIANTS UnaffectedKeepsList
CHECK_DEADLOCK FALSE
