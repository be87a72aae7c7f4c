\* Server-written bodies of every modelled payload codec under the 5.1,
\* 5.7 and default FDE tables, whole or cut at any byte.
CONSTANT Inputs <- MCInputs
SPECIFICATION Spec
INVARIANTS
  TypeOK
  ByteRoundTrip
  LenMatchesWrite
  DecodesDeclaredTypes
CHECK_DEADLOCK FALSE
