\* Every configuration has an http{} block: reloads that load and drop the
\* dynamic modules in any order, with failures anywhere.
CONSTANTS
  Static <- MCStatic
  Dynamic <- MCDynamic
  Type <- MCType
  Order <- MCOrder
  MaxDynamic = 2
  UintBits = 3
  BlockTypes = {"http"}
  OptionalBlocks = {}
  NONE = NONE

SPECIFICATION Spec

INVARIANTS
  IndexUnique
  CtxIndexUnique
  CountCoversCtx
  OrderRespected
