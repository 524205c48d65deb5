CONSTANTS
  Radix = 4
  ImageBase = 64
  ImageSize = 32
  UsizeMax = 511
  Text <- MCText
  Rdata <- MCRdata
  Data <- MCData
  Inputs <- RecoveryInputs
SPECIFICATION Spec
INVARIANT
  ScanNeverPanics
