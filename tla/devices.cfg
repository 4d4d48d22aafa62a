SPECIFICATION MCSpec
CONSTANTS
  BusCount = 2
  DeviceCount = 2
  FunctionCount = 3
  Machines <- TwoByTwo
  Unset = Unset
  Cols = 3
  Rows = 2
  WordSize = 32
  Mode <- Mode13
  BootFiles <- MCBootFiles
  Points <- MCPoints
  Lengths <- MCLengths
  Colours = {"blue", "yellow"}
INVARIANTS FunctionsFound ModeSet RectangleClipped
