SPECIFICATION HistorySpec
CONSTANTS
  Shells = {s1, s2}
  Characters <- SomeCharacters
  Files <- SomeFiles
  Lines <- SomeLines
  Block = 3
  MaxLines = 1
  MaxStarts = 3
  MaxFaults = 1
INVARIANT KeptAsFound
PROPERTIES LoadsWhatIsSaved LoadEnds
\* All shells may be over.
CHECK_DEADLOCK FALSE
