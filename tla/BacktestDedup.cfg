\* Does the report hold the alerts a customer would have received?
SPECIFICATION ReportSpec
CONSTANTS
  Alerts <- MCAlerts
  NoValue = NoValue
  RuleWindow <- MCRuleWindow
  DefaultWindow = 1
  CleanupEvery = 2
  MaxTime = 3
  WriteFails = FALSE
  MaxAlerts = 3
INVARIANTS CountIsWhatCustomersSee
CHECK_DEADLOCK FALSE
