CONSTANTS
  k1 = k1  k2 = k2  m1 = m1  m2 = m2
  c1 = c1  c2 = c2  c3 = c3
  NULL = NULL
  Messages = {m1}
  Outbound = {}
  Slots = {k1, k2}
  Convs = {c1, c2, c3}
  MaxRetries = 2
  Counted = FALSE
  MaxEvents = 4
SPECIFICATION Spec
INVARIANTS RetriesBounded
