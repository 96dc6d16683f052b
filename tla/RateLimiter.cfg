SPECIFICATION Spec
CONSTANTS
  Workers = {w1, w2}
  Rates = {0, 2}
  PerEvent = 3
  BatchSize = 3
  MaxNap = 3
  MaxAsks = 4
  MaxTime = 8
SYMMETRY Symmetry
INVARIANTS
  TypeOK
  RateBound
  NapsAreTight
