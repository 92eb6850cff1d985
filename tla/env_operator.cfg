\* An operator stops and deletes instances under the plugin, creates fail,
\* the runner gives up and the plugin restarts.  The faults that let a wait
\* end early are left out: a wait has to end because the daemon answers.
SPECIFICATION FairSpec
CONSTANTS
  None = None
  Threads = {t1, t2}
  Networks = {w1, w2}
  Names = {a}
  Faults = {"refuse", "boot", "setup", "operator", "impatient", "restart"}
PROPERTIES CallsAnswered
