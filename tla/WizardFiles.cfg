SPECIFICATION Spec
CONSTANTS
  w1 = w1
  w2 = w2
  None = None
  Torn = Torn
  Wizards <- TwoWizards
  Keep = 3
  MaxVersions = 5
  MaxStops = 2
INVARIANTS
  FilesSound
  OneLostPerStop
PROPERTIES
  KeepsVersions
CHECK_DEADLOCK FALSE
