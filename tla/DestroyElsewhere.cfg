SPECIFICATION Spec
CONSTANTS
  a = a
  b = b
  A = A
  B = B
  None = None
  Terminals <- TwoTerminals
  Tenants <- TwoTenants
  TenantOf <- EachItsTenant
  PipelinesOf <- SharedPipelines
  Triggers = {"t"}
  Functions = {"f"}
  Pipelines <- TwoPipelines
  TriggersOf <- OneTrigger
  FunctionsOf <- OneFunction
  Pinned = {}
  Options <- AllOptions
  Keen = {a}
  TakesFileInput = TRUE
  MaxTrouble = 2
PROPERTY
  DestroyStaysHome
