\* The liveness that the test relies on.
CONSTANTS
  Threads = {t1, t2}
  NoThread = NoThread
  PassThroughs = 2
SPECIFICATION FairSpec
PROPERTY Terminates
