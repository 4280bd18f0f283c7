\* Preallocation of one level (keys 0 and 100, the do-while ending when key
\* wraps to 0) and a pool of three two-node pages (six nodes), which runs
\* out during inserts: the allocator and the error paths. One value: the
\* error paths do not depend on which value is stored.
CONSTANTS
  KeyWidth = 3
  PageNodes = 2
  MaxPages = 3
  Prealloc = 1
  Values = {A}
  NoValue = NoValue
  NULL = NULL
  InsertMasks <- MCMasks
  DeleteMasks <- MCDeleteMasks
  ByteBits = 3
  Variants = {"32", "128"}
  Keys <- MCKeys3

SPECIFICATION Spec

INVARIANTS
  NoLeak
  TreeLinked

PROPERTIES
  PreallocComplete
