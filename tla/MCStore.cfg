SPECIFICATION Spec
CONSTANTS
  k1 = k1  k2 = k2  small = small  large1 = large1  large2 = large2
  Absent = Absent  Unreadable = Unreadable  Idle = Idle
  Key = {k1, k2}
  Value = {small, large1, large2}
  Large = {large1, large2}
  MaxSets = 3
  MaxRemovals = 2
  MaxFailures = 1
  MaxCrashes = 1
SYMMETRY Keys
INVARIANTS OldOrNew ResetLeavesNothing
