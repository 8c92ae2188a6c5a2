SPECIFICATION FairSpec
CONSTANTS
  NumUnits = 2
  Workers = {w1, w2}
  Events <- MCEvents
  LongPaths = {2}
  Library = Library
  Ready = Ready
  Finished = Finished
INVARIANTS StaleIsNoticed RebuildMakesCurrent  NothingLeftToCompile LibraryFilesAreCurrent
PROPERTY BuildEnds
