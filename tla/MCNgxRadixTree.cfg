\* Ample memory, no preallocation: insert, delete and find against the
\* prefix table.
CONSTANTS
  KeyWidth = 3
  PageNodes = 2
  MaxPages = 3
  Prealloc = 0
  Values = {A, B}
  NoValue = NoValue
  NULL = NULL
  InsertMasks <- MCMasks
  DeleteMasks <- MCDeleteMasks
  ByteBits = 1
  Variants = {"32", "128"}
  Keys <- MCKeys

SPECIFICATION Spec

INVARIANTS
  TypeOK
  NoLeak
  TreeLinked
  NoValuelessLeaf
  FindIsLongestPrefix
  Api128Agrees

PROPERTIES
  PrefixRefinement
