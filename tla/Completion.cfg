SPECIFICATION CompletionSpec
CONSTANTS
  Missing = Missing
  MaxName = 4
  Paths <- SomePaths
  Words <- ShortWords
  MinResultsMore = 3
PROPERTIES FoundAreMatches CompletedIsCommon
\* What the search does outside of the list is undefined: the shell may be over.
CHECK_DEADLOCK FALSE
