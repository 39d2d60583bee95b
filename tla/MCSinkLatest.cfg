CONSTANTS
  MaxPoints = 2
  MaxSamples = 2
  MaxCycles = 1
  Absent = Absent
SPECIFICATION Spec
INVARIANT KeepsLatest
