CONSTANTS
  ImageSize = 52
  Rdata <- MCRdata
  Data <- MCData
  Inputs <- MCInputs
SPECIFICATION Spec
INVARIANTS
  TypeOK
  AllocationsApart
  BodiesRelocated
  DisplacementsCleared
  CopiesRelocated
  ChainBounded
  ReviewedDataIsNotPadded
PROPERTIES
  CalleesStand
  Terminates
