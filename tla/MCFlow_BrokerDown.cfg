CONSTANTS
  p1 = p1  p2 = p2
  ask = ask  wait = wait  bye = bye  send = send  move = move
  NULL = NULL
  Workers = {p1, p2}
  Jobs <- BotAndConsumer
  MaxExecutions = 2
  Users = {ann}
  Nodes = {ask, wait, bye}
  StartNode = ask
  Kind <- AskWaitKind
  Target <- AskWaitTarget
  TriggerOn = {"waiting"}
  Delay = 1
  Buckets = {1}
  MaxTime = 2
  MaxFaults = 0
  Prompt = TRUE
  SlowFlows = FALSE
  BrokerFails = TRUE
SPECIFICATION FairSpec
PROPERTIES RunningEnds
