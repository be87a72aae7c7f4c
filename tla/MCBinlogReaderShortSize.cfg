\* Whole files with a header whose event_size is below 19: Event::read
\* returns the event with an empty body instead of rejecting it.
CONSTANTS
  Crc32 <- MCCrc32
  Streams <- MCShortSizeStreams
  Cuts <- MCWholeCuts
  InitialVersion <- MCInitialVersion
  Damage <- MCNoDamage
SPECIFICATION Spec
INVARIANT EventSizeChecked
CHECK_DEADLOCK FALSE
