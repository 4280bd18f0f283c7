\* Three workers on a multiprocessor, spin 4, workers may die holding the lock.
CONSTANTS
  Procs <- MCProcs
  Pid <- MCPid
  NCpu = 2
  Spin = 4
  CanCrash = TRUE
SPECIFICATION Spec
INVARIANTS TypeOK MutualExclusion LockOwned
PROPERTIES Progress
