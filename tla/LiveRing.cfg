\* Does the ring survive the pill pushed by the main thread?
SPECIFICATION Spec
CONSTANTS
  Capacity = 2
  MaxSignals = 3
  Signals <- MCSignals
  Metrics = TRUE
  Producers <- MCProducers
  Firing <- MCFiring
  KeyOf <- MCKeyOf
  NoSignal = NoSignal
  Pill = Pill
INVARIANTS RingIntact
CHECK_DEADLOCK FALSE
