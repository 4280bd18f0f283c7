\* Ample memory and one preallocated level (ngx_radix_tree_create with preallocate).
CONSTANTS
  KeyWidth = 3
  PageNodes = 2
  MaxPages = 3
  Prealloc = 1
  Values = {A, B}
  NoValue = NoValue
  NULL = NULL
  InsertMasks <- MCMasks
  DeleteMasks <- MCDeleteMasks
  ByteBits = 1
  Variants = {"32"}
  Keys <- MCKeys

SPECIFICATION Spec

PROPERTY PrefixRefinement
