CONSTANTS
  k1 = k1  k2 = k2  m1 = m1  m2 = m2
  c1 = c1  c2 = c2  c3 = c3
  NULL = NULL
  Messages = {m1, m2}
  Outbound = {m2}
  Slots = {k1, k2}
  Convs = {c1, c2, c3}
  MaxRetries = 2
  Counted = TRUE
  MaxEvents = 3
SPECIFICATION FairSpec
INVARIANTS TypeOK StoredInConversation SameConversation
  
