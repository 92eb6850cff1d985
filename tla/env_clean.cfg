\* Only faults the handlers clean up after, and a runner that gives up on unary
\* calls and repeats Remove; the daemon is fair.
SPECIFICATION FairSpec
CONSTANTS
  None = None
  Threads = {t1, t2}
  Networks = {w1, w2}
  Names = {a, b}
  Faults = {"refuse", "setup", "impatient"}
INVARIANTS NothingOrphaned
PROPERTIES EndsRecordedOrGone RemovalCompletes KeepsPromise
