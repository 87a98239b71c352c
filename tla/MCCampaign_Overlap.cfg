CONSTANTS
  c1 = c1  c2 = c2
  Calls = {c1, c2}
  Jobs <- CronAndUser
  Recipients = {ana, bia, caio}
  BatchSize = 3
  LockTimeout = 1
  MaxFaults = 0
SPECIFICATION Spec
INVARIANTS SentOnce
