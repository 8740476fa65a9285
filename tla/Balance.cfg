SPECIFICATION Spec
CONSTANTS
  web = web
  b1 = b1
  b2 = b2
  Services = {web}
  Backends = {b1, b2}
  ServiceName <- MCServiceName
  Address <- MCAddress
  Weight <- MCWeight
  Configs <- MCConfigs
  Clients = {c1, c2}
  Hash <- MCHash
  CounterBits = 2
  Starts <- MCStarts
  MaxListed = 2
  MaxEdits = 1
SYMMETRY Alike
INVARIANTS TypeOK ServedHealthy NilMeansNone LeastLoaded SameClientSameBackend FairShare
