SPECIFICATION FairSpec
CONSTANTS
  Nothing = Nothing
  MaxChange = 1
  MaxFailure = 1
  MaxCrash = 1
  VersionBound = 2
INVARIANTS TypeOK NoLostWakeup EnvoyFirst
PROPERTIES Convergence ImplementsEnforcement
