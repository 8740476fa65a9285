SPECIFICATION HealthSpec
CONSTANTS
  web = web
  api = api
  w1 = w1
  a1 = a1
  Services = {web, api}
  Backends = {w1, a1}
  ServiceName <- MCServiceName
  Address <- MCAddress
  Answers = {304, 503}
  Protocol = "HTTP"
  Checks = {1, 2}
  MaxListed = 1
  Stoppers = {g1, g2}
  Serial = TRUE
CHECK_DEADLOCK FALSE
INVARIANTS TypeOK StopInv StopComplete NoPanic
PROPERTIES StopReturns HealthConverges Lifecycle
