SPECIFICATION Spec
CONSTANTS
  Tasks = {1, 2, 3}
  Limits <- MCLimits
  MaxConcurrent = 1
  Timeout = 2
  Servers <- MCServers
  Broken = {1}
  MaxRetries = 4
  MaxAttempts = 2
INVARIANT RateBound
INVARIANT ServedWhileUp
PROPERTY RowsEnd
