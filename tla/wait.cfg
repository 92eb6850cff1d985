\* A second is two ticks; a daemon that may answer early, late or not at all.
SPECIFICATION FairSpec
CONSTANTS
  Sec = 2
  Window = 6
  Margin = 3
  Interval = 2
  Latency = 2
  Limits = {0, 1, 2, 5, 7, 15}
  Faults = {"hasty", "silent", "broken"}
INVARIANTS TypeOK TimeoutTimely BudgetSuffices VerdictTrue
PROPERTIES PollsSpaced WaitEnds
CHECK_DEADLOCK FALSE
