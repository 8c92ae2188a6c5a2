\* Declarations with every class of node, in a project and through a library.
SPECIFICATION Spec
CONSTANTS
  Declarations <- MCDeclarations
  OwnFiles <- MCOwnFiles
  LibraryFiles <- MCLibraryFiles
  Imports <- MCImports
  Arguments <- MCArguments
  Units <- MCUnits
  SectionOf <- SymbolSection
  ReadConcept <- ImportedConcept
  ReadSymbol <- ImportedSymbol
  ReadTree <- SkippedTree
  CopyOf <- Instance
  WithBody <- Bodied
  TestUnits <- SplitTests
INVARIANTS
  ReaderFollowsWriter
  InstancesAreTheSource
  InstancesAreLinked
  SpansAreInTheirFile
  TreesReadAreFreed
\* A compilation ends.
CHECK_DEADLOCK FALSE
