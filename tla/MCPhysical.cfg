SPECIFICATION FairSpec
CONSTANTS
  MAX_TIMERS = 2
  ClockSize = 13
  PL_POLLING_MAX_CNT = 1
  CounterSize = 3
  Delay <- MCDelay
  Timeouts <- MCTimeouts
  Frequency = 2
  FullFrame = 2
  Addresses = {a1, a2}
  MaxLate = 1
INVARIANTS
  PhysicalTypeOK
  OneWakeup
  NothingDropped
  RetryBounded
  SameAddress
PROPERTIES
  Patience
  ImplementsFrameService
