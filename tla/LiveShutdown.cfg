\* Three signals, two of which raise an alert, through a ring of two slots;
\* a stop request at any moment.
SPECIFICATION Spec
CONSTANTS
  Capacity = 2
  MaxSignals = 3
  Signals <- MCSignals
  Metrics = TRUE
  Producers <- MCProducers
  Firing <- MCFiring
  KeyOf <- MCKeyOf
  NoSignal = NoSignal
  Pill = Pill
INVARIANTS IntactUnlessRaced PillIsBarrier AlertsHandled DepthGauge
PROPERTIES ShutdownCompletes
CHECK_DEADLOCK FALSE
