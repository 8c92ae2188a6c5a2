SPECIFICATION LiveSpec
CONSTANTS
  MaxLines = 3
  MaxPermits = 3
  NoLine = NoLine
INVARIANTS Handover NoStandoff
PROPERTIES ExecutedInOrder SampledInRunIsNoCommand LineTaken ReaderReleased
