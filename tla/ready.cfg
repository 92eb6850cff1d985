\* An instance that boots, or does not; any call may raise.
SPECIFICATION FairSpec
CONSTANTS
  Last = 2
  Limit <- MCLimit
  Pause <- MCPause
  Delay = 1
  Horizon = 8
  Faults = {"broken"}
INVARIANTS TypeOK Provisioned RuntimeRight PatienceExact
PROPERTIES ResolveEnds
CHECK_DEADLOCK FALSE
