\* Whole files and files cut at an event boundary: the reader implements
\* the event-level stream, and a caller decoding each event with read_data
\* gets the QUERY fields the server encoded.
CONSTANTS
  Crc32 <- MCCrc32
  Streams <- MCConsumerStreams
  Cuts <- MCBoundaryCuts
  InitialVersion <- MCInitialVersion
  Damage <- MCNoDamage
SPECIFICATION ConsumerSpec
INVARIANTS
  TypeOK
  RoundTrip
  QueriesDecodeAsSent
PROPERTIES
  AbstractStream
CHECK_DEADLOCK FALSE
