SPECIFICATION Spec
CONSTANTS
  Nodes <- MCNodes
  CLines <- MCCLines
  CLine <- MCCLine
  Kind <- MCKind
  Function <- MCFunction
  Succ <- MCSucc
  Calls <- MCCalls
  Hidden = {"f4"}
  MainEntry = "m1"
  Doubtful = {1, 6}
  MaxBreakpoints = 2
  Frames <- MCFrames
  NoNode = NoNode
  NoLine = NoLine
INVARIANTS LineMapSound DebuggingHasNode NoTemporaryLeft
