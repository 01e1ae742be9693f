SPECIFICATION FairSpec
CONSTANTS
  p1 = p1
  p2 = p2
  None = None
  Goals = {"create"}
  DryRuns = {TRUE, FALSE}
  Operators <- TwoOperators
  NameOf <- SameYaml
  ProviderName <- PrefixNamed
  DefaultProviderName <- DefaultName
  HasPool <- TwoOperators
  BrokerPolicies = {}
  MaxFaults = 1
  MaxFlips = 0
  EditedKinds = {}
  EditsAnytime = FALSE
  MaxOutside = 0
PROPERTIES
  RaceConverges
