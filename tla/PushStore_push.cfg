SPECIFICATION Spec
CONSTANTS
  Endpoints = {e1, e2}
  Identities = {v1, v2}
  Sends = {s1, s2}
  None = None
  MaxFailures = 1
  MaxBadWrites = 1
  MaxKills = 1
SYMMETRY Symmetry
INVARIANTS
  KnownUnlessMissed
  HealthIsTrueUnlessCrossed
  OffIsOff
