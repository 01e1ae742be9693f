SPECIFICATION FairSpec
CONSTANTS
  a = a
  b = b
  Operators = {a, b}
  PoolName <- MCNames
  Net <- MCNet
  Requested <- MCRequested
  Wanted <- MCWanted
  Others <- MCOthers
  Extras <- MCExtras
  MaxOutside = 2
  MaxStops = 1
  None = None
INVARIANTS ChoiceFits ReportedIsFree
PROPERTIES OverlapOnlyByRace RerunKeepsRange PoolsSettle
