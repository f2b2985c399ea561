CONSTANTS
  Keys = {k1, k2, k3, k4, k5}
  CacheCapacity = 3
  MaxUses = 8
SPECIFICATION Spec
SYMMETRY Symmetry
INVARIANTS ItemsMatchList RecencyOrder
