SPECIFICATION Spec
CONSTANTS
  nsA = nsA
  nsB = nsB
  h1 = h1
  h2 = h2
  s1 = s1
  s2 = s2
  AddrSpace = 8
  MaxScan = 8
  MaxTries = 2
  Configs <- OneConfig
  Services <- TwoServices
  ConfigSpecs <- Pool
  ServiceSpecs <- AnyAddress
  Budget <- OneRestart
  Lag = FALSE
INVARIANTS NoDuplicateIP
CHECK_DEADLOCK FALSE
