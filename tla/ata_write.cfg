SPECIFICATION Spec
CONSTANTS
  SectorBytes = 6
  Scripts <- KernelScripts
  Buses <- SecondDisk
INVARIANTS WriteWaitsForDRQ
