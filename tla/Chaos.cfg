SPECIFICATION Spec
CONSTANTS
  nsA = nsA
  nsB = nsB
  h1 = h1
  h2 = h2
  s1 = s1
  s2 = s2
  AddrSpace = 8
  MaxScan = 8
  MaxTries = 2
  Configs <- OneConfig
  Services <- OneService
  ConfigSpecs <- SingleOrDual
  ServiceSpecs <- Address2
  Budget <- Chaos
  Lag = TRUE
INVARIANTS TypeOK HonorsRequest CleanupInv
PROPERTIES CleanedUpFirst 
CHECK_DEADLOCK FALSE
