\* Files cut at any byte, damaged files and files whose first byte is wrong: every event
\* returned is still exact and decoded with the right format description.
CONSTANTS
  Crc32 <- MCCrc32
  Streams <- MCAllStreams
  Cuts <- MCAnyCuts
  InitialVersion <- MCInitialVersion
  Damage <- MCAnyDamage
SPECIFICATION Spec
INVARIANTS
  EventsUseLatestFde
  RoundTrip
CHECK_DEADLOCK FALSE
