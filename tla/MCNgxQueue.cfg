\* Queue macros and functions on two heads and three elements.
CONSTANTS
  Heads <- MCHeads
  Elems <- MCElems
  Key <- MCKey
  NULL = NULL
SPECIFICATION Spec
INVARIANTS TypeOK Linked
PROPERTIES QueueRefinement
