SPECIFICATION Spec
CONSTANTS
  Nothing = Nothing
  MaxChange = 1
  MaxFailure = 1
  MaxCrash = 0
  VersionBound = 2
INVARIANT FailureAudited
