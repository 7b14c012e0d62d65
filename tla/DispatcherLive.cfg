\* The live channels, three alerts, a clock that passes the windows and is set back.
SPECIFICATION DispatcherSpec
CONSTANTS
  Alerts <- MCAlerts
  NoValue = NoValue
  RuleWindow <- MCRuleWindow
  DefaultWindow = 1
  CleanupEvery = 2
  MaxTime = 3
  channels_ <- LiveChannels
  Endpoints <- MCEndpoints
  MaxAlerts = 3
INVARIANTS EveryAlertAccounted CountersAddUp StopDrainsQueue SuppressedWasSent
PROPERTIES SendsAreSpaced ImplementsWindow EveryAlertHandled
CHECK_DEADLOCK FALSE
