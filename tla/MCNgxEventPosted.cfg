\* Posted events: handlers post to the other queue and delete from either
\* while a queue is drained.
CONSTANTS
  Events <- MCEvents
  PostedQueues <- MCQueues
  Targets <- MCOtherTarget
  NULL = NULL
SPECIFICATION Spec
INVARIANTS TypeOK PostedMatchesQueue
PROPERTIES ProcessReturns
