\* A server writing an algorithm byte this crate does not know.
CONSTANTS
  Crc32 <- MCCrc32
  Streams <- MCUnknownAlgStreams
  Cuts <- MCWholeCuts
  InitialVersion <- MCInitialVersion
  Damage <- MCNoDamage
SPECIFICATION Spec
INVARIANT RoundTrip
CHECK_DEADLOCK FALSE
