SPECIFICATION Spec
CONSTANTS
  Scancodes <- MCScancodes
  BIOSConfigs <- MCConfigs
  Depth = 1
INVARIANTS KeyboardInterruptOn
