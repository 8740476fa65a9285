SPECIFICATION FairSpec
CONSTANTS
  nsA = nsA
  nsB = nsB
  h1 = h1
  h2 = h2
  s1 = s1
  s2 = s2
  AddrSpace = 8
  MaxScan = 8
  MaxTries = 2
  Configs <- OneConfig
  Services <- OneService
  ConfigSpecs <- WidePool
  ServiceSpecs <- AnyAddress
  Budget <- Churn
  Lag = TRUE
PROPERTIES DeletionCompletes ServicesServed
CHECK_DEADLOCK FALSE
