SPECIFICATION Spec
CONSTANTS
  Cases <- AllCases
  Grammars <- AllGrammars
INVARIANTS ParsingEnds OneReading OtherExpectationsOnlyReport ContextRestored
\* A text ends where the alphabet or its bound ends.
CHECK_DEADLOCK FALSE
