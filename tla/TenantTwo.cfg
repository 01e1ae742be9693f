SPECIFICATION Spec
CONSTANTS
  p1 = p1
  p2 = p2
  None = None
  Goals = {"create", "destroy"}
  DryRuns = {FALSE}
  Operators <- TwoOperators
  NameOf <- OwnNames
  ProviderName <- EitherNamed
  DefaultProviderName <- DefaultName
  HasPool <- FirstHasPool
  BrokerPolicies = {}
  MaxFaults = 1
  MaxFlips = 1
  EditedKinds = {}
  EditsAnytime = FALSE
  MaxOutside = 0
INVARIANTS
  DefaultProviderKept
PROPERTIES
  OthersUntouched
