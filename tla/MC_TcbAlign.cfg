\* Static TLS layout of the diamond with every segment size and alignment,
\* and allocateTcb at any point after the layout.
CONSTANTS
  m = m
  a = a
  b = b
  x = x
  t = t
  NoSym = NoSym
  NoObj = NoObj
  Names <- MCNames
  Main <- m
  Syms <- MCSyms
  Images <- TlsImages
  EagerBinding = TRUE
  StackLimit <- MCStackLimit
  HeapAddrs <- MCHeapAddrs
SPECIFICATION TcbSpec
INVARIANT TcbAligned
\* The loader stops: it hands over to the executable or the process dies.
CHECK_DEADLOCK FALSE
