CONSTANTS
  mangled = mangled
  other = other
  plain = plain
  module_name = module_name
  Names = {mangled, other, plain, module_name}
  Rva <- MCRva
  Inputs <- MCInputs
SPECIFICATION Spec
INVARIANTS
  TypeOK
  DataNamesPreferred
  FoldedNamesComplete
  StopsForCause
