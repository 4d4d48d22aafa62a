SPECIFICATION FairSpec
CONSTANTS
  Scancodes <- MCScancodes
  BIOSConfigs <- MCConfigs
  Depth = 1
INVARIANTS TypeOK PacketsAligned
PROPERTIES InputFlows
