\* One boat, two of each kind, from the first fork to the last exit; liveness
\* wants no symmetry.
CONSTANTS
  Hackers = {h1, h2}
  Serfs = {s1, s2}
SPECIFICATION FairSpec
INVARIANT TypeOK
INVARIANT MutualExclusion
INVARIANT CrewStaysTogether
INVARIANT FinishTogether
PROPERTY EverybodyCrosses
PROPERTY ImplementsFairCrossing
