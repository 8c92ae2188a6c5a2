SPECIFICATION Spec
CONSTANTS
  Width <- MCWidth
  Scale <- MCScale
  Text <- MCText
  Programs <- MCPrograms
  CallMeanings <- AllCallMeanings
  ConstantMeanings <- AllConstantMeanings
INVARIANT PlainCallsKeepTheirMeaning
INVARIANT ConstantsAreTheirDefinition
INVARIANT CallersHearWhatTheyExpect
INVARIANT BlocksAreLeft
PROPERTY EvaluationEnds
