CONSTANT Blocks <- MCDecodeBlocks
SPECIFICATION Spec
INVARIANT ValuesDecode
CHECK_DEADLOCK FALSE
