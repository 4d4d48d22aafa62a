SPECIFICATION FairSpec
CONSTANTS
  fast = fast  medium = medium  slow = slow  idle = idle
  Task <- MCTask
  Burst <- MCBurst
  Priority <- MCPriority
  Boot = Boot  NoTask = NoTask  Dangling = Dangling
  Capacity = 3
  UintSize = 16
INVARIANTS TypeOK SlotsFilled ContextsKept
PROPERTIES RefinesRounds EveryTaskRuns
