SPECIFICATION FairSpec
CONSTANTS
  s1 = s1
  h1 = h1
  d1 = d1
  sick = sick
  healthy = healthy
  i1 = i1
  i2 = i2
  i3 = i3
  scheduled = scheduled
  dlq = dlq
  None = None
  Jobs <- ThreeJobs
  IdOf <- OwnIds
  JobIds = {i1, i2, i3}
  WorkQueues <- TwoQueues
  Gateways <- TwoQueues
  GatewayOf <- OneQueueEach
  QueueOf <- ByGateway
  Delayed = {d1}
  Single = {s1}
  Hanging = {sick}
  Concurrency = 1
  Clients = {c1, c2}
INVARIANTS OperationsTypeOK DeadLettersArrive LatencyIsOwn SettledLeavesNoStart
INVARIANTS HeartbeatFollowsClients
PROPERTIES ShutdownEnds HealthyGatewayServed EveryOutcomeIsShown
