CONSTANTS
  r1 = r1  r2 = r2  e1 = e1  e2 = e2  e3 = e3
  NULL = NULL
  Replies = {r1, r2}
  Ids = {e1, e2}
  FirstStatus = "sent"
  MaxReports = 2
  MaxFaults = 1
SPECIFICATION FairSpec
INVARIANTS TypeOK   OneBubble ScreenCatchesUp
PROPERTIES  NoReplyLost RepliesSettle
