SPECIFICATION FairSpec
CONSTANTS
  SectorBytes = 6
  Scripts <- AnyScripts
  Buses <- SomeBuses
INVARIANTS TypeOK WholeSector SectorsWhole AbsentDrive
PROPERTIES CommandsToIdle BootTerminates
