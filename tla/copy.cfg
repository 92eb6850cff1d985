\* Six trees of up to three levels, two changes by the job during the walk, a
\* destination of two levels of which some may be there, every fault.
SPECIFICATION Spec
CONSTANTS
  x = x
  y = y
  text = text
  Null = Null
  out = out
  Names <- MCNames
  MaxDepth = 2
  Base = out
  Dest <- MCDest
  Contents = {text}
  Nothing = Null
  Modes = {0, 493}
  Trees <- MCTrees
  MaxChanges = 2
  Faults = {"unknown", "rest", "envelope", "cut"}
INVARIANTS TypeOK ArchiveOrdered RoundTrip Unpacks
CHECK_DEADLOCK FALSE
