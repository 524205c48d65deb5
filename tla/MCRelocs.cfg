CONSTANTS
  Radix = 4
  ImageBase = 64
  ImageSize = 32
  UsizeMax = 511
  Text <- MCText
  Rdata <- MCRdata
  Data <- MCData
  Inputs <- MCInputs
SPECIFICATION Spec
INVARIANTS
  TypeOK
  ClassifiedFromLinkedImage
  AddendsRelink
  OnlyFieldsRewritten
  ReviewedExactly
  StrictComplete
  SitesExact
  StopsForCause
PROPERTIES
  RecordsStand
  ImplementsResolution
  Terminates
