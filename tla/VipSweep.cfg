SPECIFICATION Spec
CONSTANTS
  Net <- MCNet
  ClaimLists <- MCLists
  MaxClaims = 3
INVARIANT GapsFound
CHECK_DEADLOCK FALSE
