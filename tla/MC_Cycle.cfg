\* Cyclic DT_NEEDED graphs: the recursion depth of the graph walks.
CONSTANTS
  m = m
  a = a
  b = b
  x = x
  t = t
  NoSym = NoSym
  NoObj = NoObj
  Names <- MCNames
  Main <- m
  Syms <- MCSyms
  Images <- CycleImages
  EagerBinding = TRUE
  StackLimit <- MCStackLimit


SPECIFICATION Spec

INVARIANT RecursionBounded

\* The loader stops: it hands over to the executable or the process dies.
CHECK_DEADLOCK FALSE
