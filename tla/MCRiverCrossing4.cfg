\* Two boats: every mix of crews and every remainder on the pier.
CONSTANTS
  Hackers = {h1, h2, h3, h4}
  Serfs = {s1, s2, s3, s4}
SPECIFICATION SpecFromMolo
SYMMETRY Symmetry
INVARIANT CrewsAreRight
INVARIANT OneCrossingAtATime
INVARIANT PierIsCounted
PROPERTY ImplementsCrossing
