SPECIFICATION Spec
CONSTANTS
  p1 = p1
  p2 = p2
  p3 = p3
  alice = alice
  bob = bob
  root = root
  Pod <- Pods2
  User <- Users
  IP = {10}
  Ws = {1, 2}
  WsOf <- WsOfPods
  OwnerOf <- Owners
  Admin = {root}
  NoIP = NoIP
  MaxEntry = 1
  MaxForm = 0
INVARIANTS AttributedRight
CHECK_DEADLOCK FALSE
