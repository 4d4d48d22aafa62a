SPECIFICATION PolicySpec
CONSTANTS
  fast = fast  medium = medium  slow = slow  idle = idle
  Task <- MCTask
  Burst <- MCBurst
  Priority <- MCPriority
  Boot = Boot  NoTask = NoTask  Dangling = Dangling
  Capacity = 3
  UintSize = 16
INVARIANTS PoliciesKeepContexts PriorityFirst
PROPERTIES SjfMonopoly SrtfOverruns
