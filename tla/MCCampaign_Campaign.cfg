CONSTANTS
  c1 = c1  c2 = c2
  Calls = {c1, c2}
  Jobs <- CronAndUser
  Recipients = {ana, bia, caio}
  BatchSize = 2
  LockTimeout = 2
  MaxFaults = 1
SPECIFICATION FairSpec
INVARIANTS TypeOK CompletedMeansAll SentMeansPublished Resends CountersNeverOvertake
PROPERTIES SettledOnce CampaignEnds ScheduledStarts
