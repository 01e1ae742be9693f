SPECIFICATION InteractiveFair
CONSTANTS
  Initials <- MCStarts
  Lacks <- MCLacks
  DryRuns = {TRUE, FALSE}
  Doubled = {}
  Overrides = {}
  PoolsRequired = FALSE
  Durations = {0, 3, 6}
  RequestTimes = {1}
  Timeout = 4
  InitialBackoff = 2
  MaxBackoff = 3
  MaxRequest = 1
  MaxSlow = 1
  MaxTrouble = 3
PROPERTIES WritesWereApproved ApprovalSettles
