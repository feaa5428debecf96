\* One of the calls fails, at any moment, or the terminal interrupts at the end.
CONSTANTS
  Hackers = {h1, h2}
  Serfs = {s1, s2}
  MaxFailures = 1
  MaxInterrupts = 1
SPECIFICATION PSpec
SYMMETRY Symmetry
CONSTRAINT LateInterrupt
INVARIANT PTypeOK
INVARIANT NobodyIsOrphaned
INVARIANT MemoryIsManaged
