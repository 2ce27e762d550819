SPECIFICATION Spec
CONSTANTS
  Main = Main
  NoPid = NoPid
  Pids = {Main, p1, p2}
  MaxCopies = 2
  LeaderBuiltins = TRUE
SYMMETRY Symmetry
INVARIANTS IInv NoOrphan PromptTableIsLive NoHangOnStopped
