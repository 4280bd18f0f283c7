\* A configuration may leave the http{} block out while it loads an http
\* module: the case the running cycle carries into the next reload.
CONSTANTS
  Static <- MCStatic
  Dynamic <- MCDynamic
  Type <- MCType
  Order <- MCOrder
  MaxDynamic = 2
  UintBits = 3
  BlockTypes = {"http"}
  OptionalBlocks = {"http"}
  NONE = NONE

SPECIFICATION Spec

INVARIANT CountCoversCtx
