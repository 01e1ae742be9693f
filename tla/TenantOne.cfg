SPECIFICATION FairSpec
CONSTANTS
  p1 = p1
  None = None
  Goals = {"create", "destroy"}
  DryRuns = {TRUE, FALSE}
  Operators <- OneOperator
  NameOf <- OwnNames
  ProviderName <- PrefixNamed
  DefaultProviderName = "default"
  HasPool <- OneOperator
  BrokerPolicies = {"s3", "other"}
  MaxFaults = 3
  MaxFlips = 3
  EditedKinds <- Editable
  EditsAnytime = TRUE
  MaxOutside = 1
INVARIANTS
  CreateCompletes
  PermissionsApplied
  RerunWritesNothing
PROPERTIES
  DestroyCompletes
  OrderRespectsReferences
  DryRunWritesNothing
  BuiltLasts
  CreateConverges
  DestroyConverges
