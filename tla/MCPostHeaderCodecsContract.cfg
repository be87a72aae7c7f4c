\* Server bodies under longer post-headers, RAND bodies, the newest event
\* types and a heartbeat against the BinlogStruct contract and read_data.
CONSTANT Inputs <- MCContractInputs
SPECIFICATION Spec
INVARIANT CodecContract
CHECK_DEADLOCK FALSE
