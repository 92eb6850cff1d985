\* Four Creates, one after the other: one with a typo in an option, one whose
\* connection breaks during the launch, one whose launch takes too long, one
\* that ends in a websocket error.
SPECIFICATION Spec
CONSTANTS
  None = None
  Threads = {t1}
  Networks = {w1, w2, w3, w4}
  Names = {a, b, c, d}
  Faults = {"typo", "launch_lost", "slow", "escape"}
SYMMETRY Symmetry
INVARIANT SomeFailureIsClean
