\* A command that may never end and the Remove of its environment, before one
\* worker or two.
SPECIFICATION FairSpec
CONSTANTS
  exec = exec
  remove = remove
  Calls <- MCCalls
  Commands <- MCCommands
  Releases <- MCReleases
  MaxWorkers = 2
  Interval = 1
  ProbeTime = 1
  Grace = 1
  Horizon = 4
INVARIANTS TypeOK Fresh CountsTrue ShutdownTimely
PROPERTIES QuietAfterStop StarvedOnlyIfHeld ShutdownEnds
CHECK_DEADLOCK FALSE
