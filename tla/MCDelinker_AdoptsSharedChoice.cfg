CONSTANTS
  Names = {1, 2, 3, 4, 5, 6}
  Length <- MCLength
  Builds <- MCBuilds
  Options <- MCOptions
  MaxRuns = 2
SPECIFICATION Spec
INVARIANT
  AdoptsSharedChoice
