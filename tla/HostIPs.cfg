SPECIFICATION Spec
CONSTANTS
  Label <- MCLabel
  Port <- MCPort
  Ws = {"w1", "w2"}
  Zone = {"z1", "z2"}
  IP = {"ip1", "ip2"}
  NoZone = "none"
  NoIP = "noip"
  Valid <- MCValid
  Inputs <- MCInputs
  Requested <- MCName
INVARIANTS
  TypeOK
  OrderIndependent
  EnvoyAdmitsEntitled
CHECK_DEADLOCK FALSE
