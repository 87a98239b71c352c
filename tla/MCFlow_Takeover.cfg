CONSTANTS
  p1 = p1  p2 = p2
  ask = ask  wait = wait  bye = bye  send = send  move = move
  NULL = NULL
  Workers = {p1, p2}
  Jobs <- BotAndPeople
  MaxExecutions = 2
  Users = {ann}
  Nodes = {send, ask}
  StartNode = send
  Kind <- SendAskKind
  Target <- SendAskTarget
  TriggerOn = {"waiting"}
  Delay = 1
  Buckets = {1}
  MaxTime = 2
  MaxFaults = 1
  Prompt = TRUE
  SlowFlows = FALSE
  BrokerFails = FALSE
SPECIFICATION Spec
INVARIANTS BotStops OneFlowAtATime
