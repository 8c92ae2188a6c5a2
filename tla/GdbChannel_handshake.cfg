SPECIFICATION LiveSpec
CONSTANTS
  MaxCommands = 3
  MaxConsole = 2
  BufUnits = 9
  GdbMayDie = FALSE
  ReadsMayFail = FALSE
  None = None
PROPERTIES
  UnlockedStoresChangeNothing
  ServiceImplemented
