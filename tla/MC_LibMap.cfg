\* Libraries as a linker lays them out, one filling its window, and malformed headers.
CONSTANTS
  Exe = le
  le = le
  la = la
  lb = lb
  Libs <- MCLibs
  Layouts <- GoodLayouts
SPECIFICATION Spec
INVARIANT TypeOK MapCoversSegment WindowsDisjoint
\* The loader fetches each library once; when both are mapped, or a
\* header panics, nothing is left to do.
CHECK_DEADLOCK FALSE
