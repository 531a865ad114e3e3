\* An unresolved weak reference of a TLS relocation type.
CONSTANTS
  m = m
  a = a
  b = b
  x = x
  t = t
  NoSym = NoSym
  NoObj = NoObj
  Names <- MCNames
  Main <- m
  Syms <- MCSyms
  Images <- WeakTlsImages
  EagerBinding = TRUE
  StackLimit <- MCStackLimit


SPECIFICATION Spec

INVARIANT WeakNeverAborts

\* The loader stops: it hands over to the executable or the process dies.
CHECK_DEADLOCK FALSE
