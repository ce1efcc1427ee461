SPECIFICATION ReadSpec
CONSTANTS
  Zone = {z1, z2}
  Ws = {v, w}
  Rule = {dns, host, old}
  Dns = {dns, old}
  Valid = {dns, host}
  NoZone = NoZone
  NoWs = NoWs
  MaxCommit = 2
SYMMETRY Symmetry
CONSTRAINT OneInvalid
INVARIANTS ReadTypeOK CiliumAgrees UnaffectedExact
CHECK_DEADLOCK FALSE
