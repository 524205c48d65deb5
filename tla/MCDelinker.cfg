CONSTANTS
  Names = {1, 2, 3, 4, 5, 6}
  Length <- MCLength
  Builds <- MCBuilds
  Options <- MCOptions
  MaxRuns = 3
SPECIFICATION Spec
INVARIANTS
  TypeOK
  NamesAreOwn
  SameGroupSameName
  FoldedNamesAgree
  StatsCountAdoptions
  OutputsCurrent
PROPERTIES
  MapNeverAhead
