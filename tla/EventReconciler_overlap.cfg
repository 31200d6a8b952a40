CONSTANTS
  off = off lic = lic rad = rad
  k1 = k1 k2 = k2 c1 = c1 c2 = c2
  Items = {off, lic, rad}
  Keys = {k1, k2}
  KeysOf <- TheKeys
  Identified = {k1, k2}
  Title <- TheTitles
  Class <- TheClasses
  Available <- TheTimes
  Retention = 1
  Calls = {c1, c2}
  Limit = 2
  Unlinked = Unlinked
  Horizon = 2
SYMMETRY Twins
SPECIFICATION Spec
INVARIANTS EvidenceGrows CitedAreLinked RadarNeverPromotes PointInTime
PROPERTY SealedForGood
CHECK_DEADLOCK FALSE
