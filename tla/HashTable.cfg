SPECIFICATION Spec
CONSTANTS
  Keys = {k1, k2, k3, k4}
  Values = {v1, v2}
  NULL = NULL
  Unlimited = Unlimited
  MaxHash = 7
  HashValues <- Hashes
  InitialCapacity = 2
  MaximumCapacity = 8
SYMMETRY Symmetry
INVARIANTS TypeOK WellHashed LoadBounded
PROPERTY ImplementsMap
