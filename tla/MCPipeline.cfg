CONSTANTS
  Radix = 4
  ImageBase = 64
  ImageSize = 48
  UsizeMax = 63
  Text <- MCText
  Rdata <- MCRdata
  Data <- MCData
  Inputs <- MCInputs
SPECIFICATION Spec
INVARIANTS
  ReferencesRelink
  StrictClosed
  LayoutRefusedForCause
