SPECIFICATION Spec
CONSTANTS
  Letters <- OneLetter
  MaxLine = 2
  MaxHistory = 2
  MaxAhead = 2
  Rows = 2
  Width = 2
INVARIANTS TypeOK ShownIsLine AnswerIsNotTyped
PROPERTY RunsWhatIsShown
