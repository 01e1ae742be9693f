SPECIFICATION FairSpec
CONSTANTS
  Initials <- MCStarts
  Lacks <- MCLacks
  DryRuns = {TRUE, FALSE}
  Doubled = {"pool"}
  Overrides = {"pool"}
  PoolsRequired = FALSE
  Durations = {1920, 9600, 10560}
  RequestTimes = {64}
  Timeout = 9600
  InitialBackoff = 64
  MaxBackoff = 480
  MaxRequest = 64
  MaxSlow = 1
  MaxTrouble = 2
INVARIANTS ReadinessNoticed EnableDelivers OneOfEach
PROPERTIES TimeoutIsReal PlanWritesNothing DeliveryLasts EnableSettles
