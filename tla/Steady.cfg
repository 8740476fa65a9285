SPECIFICATION Spec
CONSTANTS
  nsA = nsA
  nsB = nsB
  h1 = h1
  h2 = h2
  s1 = s1
  s2 = s2
  AddrSpace = 8
  MaxScan = 8
  MaxTries = 2
  Configs <- TwoConfigs
  Services <- TwoServices
  ConfigSpecs <- Pool
  ServiceSpecs <- AnyAddress
  Budget <- Recreate
  Lag = TRUE
INVARIANT NoDuplicateIP
PROPERTY AllocatesUncontested
CHECK_DEADLOCK FALSE
SYMMETRY Symmetry
