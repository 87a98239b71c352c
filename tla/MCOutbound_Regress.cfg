CONSTANTS
  r1 = r1  r2 = r2  e1 = e1  e2 = e2  e3 = e3
  NULL = NULL
  Replies = {r1}
  Ids = {e1}
  FirstStatus = "sent"
  MaxReports = 2
  MaxFaults = 0
SPECIFICATION Spec
PROPERTIES StatusForward
