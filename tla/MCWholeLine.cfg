SPECIFICATION LineSpec
CONSTANTS
  Command <- MCCommand
  MaxLine = 4
  Char = {"B", "T", "x", "nul", "nl", "cr"}
  LineEnd = {"nl", "cr"}
  Nul = "nul"
  PacketSize = 2
  MaxStream = 7
INVARIANT RebootsOnWholeLine
