CONSTANTS
  ImageSize = 52
  Rdata <- MCRdata
  Data <- MCData
  Inputs <- MCInputs
SPECIFICATION Spec
INVARIANT
  OneSymbolPerExternalName
