CONSTANTS
  p1 = p1  p2 = p2
  ask = ask  wait = wait  bye = bye  send = send  move = move
  NULL = NULL
  Workers = {p1, p2}
  Jobs <- StartersAndConsumer
  MaxExecutions = 2
  Users = {ann}
  Nodes = {send, ask, wait, move, bye}
  StartNode = send
  Kind <- LongKind
  Target <- LongTarget
  TriggerOn = {"waiting"}
  Delay = 2
  Buckets = {1}
  MaxTime = 4
  MaxFaults = 0
  Prompt = TRUE
  SlowFlows = FALSE
  BrokerFails = FALSE
SPECIFICATION FairSpec
INVARIANTS NoDoubleResume
PROPERTIES  RunningEnds
