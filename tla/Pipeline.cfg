SPECIFICATION FairSpec
CONSTANTS
  MaxCmds = 4
  Chains <- SomeChains
  Capacity = 1
  Blocks = 2
  MaxFd = 14
INVARIANTS OneWriter AllDelivered CommandsGetTheirEnds
PROPERTY PipelineEnds
\* A source in front of a command that does not read to the end may block for ever.
CHECK_DEADLOCK FALSE
