\* A REST call of the first Remove fails; the runner repeats it.
SPECIFICATION Spec
CONSTANTS
  None = None
  Threads = {t1, t2}
  Networks = {w1, w2}
  Names = {a}
  Faults = {"teardown"}
INVARIANT RemovedMeansInstanceGone
