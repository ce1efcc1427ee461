SPECIFICATION Spec
CONSTANTS
  Browser = {b1, b2}
  User = {u1, u2}
  None = None
  Bearer = {token}
  NoToken = NoToken
  TestHook = TestHook
  SessionTTL = 1
  FlowTTL = 1
  Timeout = 1
  MaxToken = 3
  MaxTime = 4
  MaxRoleChange = 1
  MaxCall = 1
  MaxLink = 2
  MaxPage = 1
SYMMETRY Symmetry
INVARIANTS FormActsAsItsUser LoginFollowsFlow AdminIsRecent
CHECK_DEADLOCK FALSE
