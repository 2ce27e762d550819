SPECIFICATION WSpec
CONSTANTS
  MaxShort = 4
  MaxLong = 6
  Lines <- SomeLines
  SetNames = {1}
  MaxFiles = 2
INVARIANTS TokensCoverLine TokensEndInTime FlagsAreTheWordsOwn NamesInPlace ProtectedStays
