\* Bodies under an 8-byte post-header, whole or cut at any byte.
CONSTANTS
  Inputs <- MCInputs
  MaxCol <- MCMaxCol
SPECIFICATION Spec
INVARIANTS
  TypeOK
  ByteRoundTrip
CHECK_DEADLOCK FALSE
