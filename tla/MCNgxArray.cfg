\* Two arrays and a list created with one or two elements on a pool whose
\* first block holds eight units and which can add two blocks.  The callers
\* stop using the pool when their containers are full or destroyed.
CONSTANTS
  Arrays <- MCArrays
  Lists <- MCLists
  End = 8
  MaxFresh = 2
  FreshCap = 4
  CreateN = {1, 2}
  PushN = {2}
  MaxElts = 3
  NONE = NONE
SPECIFICATION Spec
INVARIANTS ElementsReserved ContentsIntact
CHECK_DEADLOCK FALSE
