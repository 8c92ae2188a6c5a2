\* The gdb process may end by itself and reads may fail; the debugger then
\* hangs, so the end of a behaviour is not an error of the model.
SPECIFICATION Spec
CONSTANTS
  MaxCommands = 3
  MaxConsole = 2
  BufUnits = 3
  GdbMayDie = TRUE
  ReadsMayFail = TRUE
  None = None
INVARIANTS
  TypeOK
  Handshake
  NoLostWakeup
  ReplyBelongsToCommand
  SignalReported
CHECK_DEADLOCK FALSE
