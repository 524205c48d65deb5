CONSTANTS
  UsizeMax = 31
  Inputs <- MCInputs
SPECIFICATION Spec
INVARIANTS
  TypeOK
  DefinitionsApart
  RefusedForCause
  OwnerCovers
  CandidateLayoutEmitted
  SitesAreTheRows
