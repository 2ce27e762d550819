SPECIFICATION FairSpec
CONSTANTS
  Main = Main
  NoPid = NoPid
  Pids = {Main, p1, p2}
  MaxCopies = 1
  LeaderBuiltins = FALSE
INVARIANTS NumbersIncrease TerminalOwner
PROPERTIES ForegroundReturns WalkEnds
