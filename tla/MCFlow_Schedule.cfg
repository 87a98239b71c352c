CONSTANTS
  p1 = p1  p2 = p2
  ask = ask  wait = wait  bye = bye  send = send  move = move
  NULL = NULL
  Workers = {p1, p2}
  Jobs <- BotAndRecovery
  MaxExecutions = 2
  Users = {ann}
  Nodes = {ask, wait, bye}
  StartNode = ask
  Kind <- AskWaitKind
  Target <- AskWaitTarget
  TriggerOn = {"waiting"}
  Delay = 2
  Buckets = {1}
  MaxTime = 3
  MaxFaults = 1
  Prompt = TRUE
  SlowFlows = FALSE
  BrokerFails = TRUE
SPECIFICATION Spec
INVARIANTS TypeOK 
PROPERTIES NoRevival
