SPECIFICATION FairSpec
CONSTANTS
  Initials <- MCFresh
  Lacks <- MCComplete
  DryRuns = {FALSE}
  Doubled = {"pool"}
  Overrides = {"pool"}
  PoolsRequired = FALSE
  Durations = {1920, 9600, 10560}
  RequestTimes = {64}
  Timeout = 9600
  InitialBackoff = 64
  MaxBackoff = 480
  MaxRequest = 64
  MaxSlow = 0
  MaxTrouble = 1
PROPERTY FreshSettles
