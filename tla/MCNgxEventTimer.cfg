\* Timer loop over 3-bit ngx_msec_t: deadlines cross the wrap of now.
CONSTANTS
  Events <- MCEvents
  Cancelable <- MCCancelable
  MsecBits = 3
  Delays = {1, 2}
  Ticks = {0, 1, 2}
  LazyDelay = 1
  NoEvent = NoEvent
SPECIFICATION Spec
INVARIANTS TypeOK TimerSetMatchesTree NoDueTimerLeft
PROPERTIES FindTimerEarliest ExpireReturns
