\* Six nodes with fixed keys under the timer comparator, across the wrap of a
\* 4-bit key: reaches every case of both fixup loops, including the red
\* sibling of the delete fixup, and checks the order the timers rely on.
CONSTANTS
  Nodes <- MCNodes6
  NodeKeys <- MCWrapKey6
  Sentinel = Sentinel
  NULL = NULL
  Keys = {14, 15, 0, 1, 2}
  KeyBits = 4
  InsertStrategy = "timer"

SPECIFICATION Spec

INVARIANTS
  LinksConsistent
  RedBlack
  SuccessorWalk

PROPERTIES
  OrderRefinement
