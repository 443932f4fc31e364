SPECIFICATION Spec
CONSTANTS
  s1 = s1
  s2 = s2
  c1 = c1
  c2 = c2
  k1 = k1
  k2 = k2
  k3 = k3
  k4 = k4
  Services = {s1}
  Calls = {c1, c2}
  SvcOf <- SharedOf
  Keys = {k1, k2, k3, k4}
  NoKey = NoKey
  MaxVersion = 2
  Faults = {}
INVARIANTS
  CacheHoldsTheActiveDek
