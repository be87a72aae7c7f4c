\* A file cut inside an event header ends with None like a clean EOF, and
\* one cut inside an event body panics in read_exact(..).unwrap().
CONSTANTS
  Crc32 <- MCCrc32
  Streams <- MCAllStreams
  Cuts <- MCAnyCuts
  InitialVersion <- MCInitialVersion
  Damage <- MCNoDamage
SPECIFICATION Spec
INVARIANT MidEventEofIsError
CHECK_DEADLOCK FALSE
