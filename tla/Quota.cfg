SPECIFICATION Spec
CONSTANTS
  nsA = nsA
  nsB = nsB
  h1 = h1
  h2 = h2
  s1 = s1
  s2 = s2
  AddrSpace = 8
  MaxScan = 8
  MaxTries = 2
  Configs <- OneConfig
  Services <- TwoServices
  ConfigSpecs <- Quota1
  ServiceSpecs <- OursOrNot
  Budget <- Churn
  Lag = TRUE
INVARIANT QuotaKept
PROPERTIES RecordsKept StableIngress ClearedOnDelete
SYMMETRY Symmetry
CHECK_DEADLOCK FALSE
