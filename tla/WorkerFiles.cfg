SPECIFICATION Spec
CONSTANTS
  p = p
  f1 = f1
  f2 = f2
  f3 = f3
  w1 = w1
  w2 = w2
  Path <- MCPath
  Folder <- MCFolder
  MaxCalls <- MCMaxCalls
  Pieces <- MCPieces
  SearchCalls <- MCSearchCalls
  Walker <- MCWalker
  Found <- MCFound
  Matches <- MCMatches
  Flaky <- MCFlaky
  ResultCap <- MCResultCap
  FeedCap <- MCFeedCap
INVARIANTS ReadYourWrites ResultsAreWhole
PROPERTY SearchStops
\* The calls are bounded, and nothing is left to do after the last.
CHECK_DEADLOCK FALSE
