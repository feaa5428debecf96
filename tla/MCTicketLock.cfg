CONSTANTS
  Threads = {t1, t2, t3}
  NoThread = NoThread
  PassThroughs = 4
SPECIFICATION Spec
INVARIANT TypeOK
INVARIANT InOrder
INVARIANT OneServed
INVARIANT AllServed
