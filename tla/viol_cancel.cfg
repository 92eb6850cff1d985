\* The runner cancels a command that writes nothing and does not end.
SPECIFICATION FairSpec
CONSTANTS
  Nothing = Nothing
  MaxFrames = 1
  Codes = {0}
  Faults = {}
PROPERTIES CancelledCallEnds
CHECK_DEADLOCK FALSE
