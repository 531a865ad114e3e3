\* Static TLS layout with segments whose p_align is 0.
CONSTANTS
  m = m
  a = a
  b = b
  x = x
  t = t
  NoSym = NoSym
  NoObj = NoObj
  Names <- MCNames
  Main <- m
  Syms <- MCSyms
  Images <- TlsImages
  EagerBinding = TRUE
  StackLimit <- MCStackLimit


SPECIFICATION Spec

INVARIANT NoAlignmentTrap

\* The loader stops: it hands over to the executable or the process dies.
CHECK_DEADLOCK FALSE
