\* Objects defining memcpy, an eight-byte ASCII name and the UTF-8 name
\* "café", looked up by each of the three names.
CONSTANTS
  SymTabs <- MCSymTabs
  Tables <- MCTables
  Requests <- MCNames
SPECIFICATION Spec
INVARIANT LookupComplete
\* Every lookup ends, found or missing.
CHECK_DEADLOCK FALSE
