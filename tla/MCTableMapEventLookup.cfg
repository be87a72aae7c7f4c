\* get_column_metadata against the left-to-right walk of spec 4.8.
CONSTANTS
  Inputs <- MCInputs
  MaxCol <- MCMaxCol
SPECIFICATION Spec
INVARIANT MetadataLookupMatchesSpec
CHECK_DEADLOCK FALSE
