SPECIFICATION Spec
CONSTANTS
  SectorBytes = 6
  Scripts <- KernelScripts
  Buses <- VirtualBox
INVARIANTS IdentifyDisablesInterrupts
