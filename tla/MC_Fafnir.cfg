\* Every well-formed program of up to seven bytes and the malformed inputs
\* derived from them, with an offset binding and a memory-view binding.
CONSTANTS
  FNR_OP_CONST = 2
  FNR_OP_BINDING = 3
  FNR_OP_AND = 4
  FNR_OP_ADD = 5
  FNR_OP_INTRIN = 6
  Bytes <- MCBytes
  BindTypes <- MCBindTypes
  MaxCodeLen = 7
SPECIFICATION Spec
INVARIANT TypeOK CompilesEncoding
\* Every compilation ends: returned, or stopped by an assertion or by
\* undefined behaviour.
CHECK_DEADLOCK FALSE
