CONSTANT Blocks <- MCBlocks
SPECIFICATION Spec
INVARIANTS TypeOK  ValuesDecode
CHECK_DEADLOCK FALSE
