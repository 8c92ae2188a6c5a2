SPECIFICATION Spec
CONSTANTS
  Width <- MCWidth
  Scale <- MCScale
  Text <- MCText
  Programs <- MCPrograms
  CallMeanings <- AllCallMeanings
  ConstantMeanings <- AllConstantMeanings
INVARIANT CallsKeepTheirMeaning
