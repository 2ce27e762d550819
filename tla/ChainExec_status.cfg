SPECIFICATION Spec
CONSTANTS
  Procs = {p1, p2}
  MaxPipelines = 3
  Chains <- SmallChains
INVARIANT GateSeesStatus
