SPECIFICATION FairSpec
CONSTANTS
  RequestId = {q1, q2}
  GrantId = {g1, g2}
  Subject = {a}
  Handler = {h1, h2}
  Loop = Loop
  Direct = Direct
  None = None
INVARIANTS TypeOK GrantsAccounted DecidedOnce ApprovalGrantsOnce
PROPERTIES LapsedRemoved NoResurrection
