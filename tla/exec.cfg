\* Calls are refused, websockets break, records have no exit code, are forgotten
\* or cannot be had.
SPECIFICATION FairSpec
CONSTANTS
  Nothing = Nothing
  MaxFrames = 2
  Codes = {0, 126, 127}
  Faults = {"unknown", "user", "refused", "unreachable", "dropped", "unfinished", "bare",
            "forgotten", "lost"}
INVARIANTS TypeOK OutputInOrder ExitComplete ExitFaithful
PROPERTIES KeepsContract
CHECK_DEADLOCK FALSE
