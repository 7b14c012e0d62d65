\* Two probes; the database, the node and the threads fail, and the system
\* clock is set once, back or forth.
SPECIFICATION HealthSpec
CONSTANTS
  Threads = {"event_source", "dispatcher"}
  HeartbeatMaxAge = 1
  RpcMaxSilence = 1
  LoopPeriod = 1
  CallTimeout = 2
  UINT64_MAX = 100
  Probes = {p1, p2}
  Leads = {0, 1}
  TickLength = 2
  MaxTime = 3
  MaxCalls = 1
  MaxSets = 1
SYMMETRY Symmetry
INVARIANTS StuckThreadNoticed ReadyMeansStarted RpcOutageNoticed NoFalseAlarm ProbesSeeWholePipeline
CHECK_DEADLOCK FALSE
