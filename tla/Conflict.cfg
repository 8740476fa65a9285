SPECIFICATION FairSpec
CONSTANTS
  nsA = nsA
  nsB = nsB
  h1 = h1
  h2 = h2
  s1 = s1
  s2 = s2
  AddrSpace = 8
  MaxScan = 8
  MaxTries = 2
  Configs <- TwoConfigs
  Services <- TwoServices
  ConfigSpecs <- WidePool
  ServiceSpecs <- FirstWants2
  Budget <- Cleanup
  Lag = FALSE
PROPERTY ServicesServed
CHECK_DEADLOCK FALSE
