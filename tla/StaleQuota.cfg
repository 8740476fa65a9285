SPECIFICATION Spec
CONSTANTS
  nsA = nsA
  nsB = nsB
  h1 = h1
  h2 = h2
  s1 = s1
  s2 = s2
  AddrSpace = 8
  MaxScan = 8
  MaxTries = 2
  Configs <- OneConfig
  Services <- TwoServices
  ConfigSpecs <- Quota1
  ServiceSpecs <- AnyAddress
  Budget <- Undisturbed
  Lag = TRUE
INVARIANT QuotaOnServices
CHECK_DEADLOCK FALSE
