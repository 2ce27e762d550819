SPECIFICATION FairSpec
CONSTANTS
  Procs = {p1, p2}
  MaxPipelines = 3
  Chains <- SmallChains
INVARIANT JobCollected
PROPERTIES ImplementsChain LeaderGoesOn
