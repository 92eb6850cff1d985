\* Up to three services under four names, of which two share an alias and one
\* is the job container's; every kind of fault.
SPECIFICATION FairSpec
CONSTANTS
  None = None
  Names <- MCNames
  Alias <- MCAlias
  MaxServices = 3
  Faults = {"missing", "image", "run", "lost", "stuck"}
INVARIANTS TypeOK ServicesReachable TakenDown
PROPERTIES KeepsPromise
CHECK_DEADLOCK FALSE
