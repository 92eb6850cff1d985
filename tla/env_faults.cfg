\* Every kind of fault but the operator's interference.
SPECIFICATION Spec
CONSTANTS
  None = None
  Names = {a, b}
  Networks = {w1, w2}
  Threads = {t1, t2}
  Faults = {"refuse", "boot", "network_lost", "launch_lost", "slow", "typo",
            "setup", "escape", "teardown", "impatient", "restart"}
SYMMETRY Symmetry
INVARIANTS TypeOK SoleHandler Isolation RecordBacked
