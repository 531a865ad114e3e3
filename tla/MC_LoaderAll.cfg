\* A whole load session over every small DT_NEEDED graph, every symbol-table
\* combination of the relocation diamond, and every TLS size and alignment.
CONSTANTS
  m = m
  a = a
  b = b
  x = x
  t = t
  NoSym = NoSym
  NoObj = NoObj
  Names <- MCNames
  Main <- m
  Syms <- MCSyms
  Images <- LoaderImages
  EagerBinding = TRUE
  StackLimit <- MCStackLimit
SPECIFICATION Spec
INVARIANT TypeOK FetchOnce DiscoveredGraph ScopeAndLinkOrder FailureJustified
INVARIANT ScopePrecedence CopyFromOtherObject UnresolvedOnlyWeak TlsLayoutSound
PROPERTY SessionEnds
\* The loader stops: it hands over to the executable or the process dies.
CHECK_DEADLOCK FALSE
