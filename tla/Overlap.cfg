SPECIFICATION Spec
CONSTANTS
  nsA = nsA
  nsB = nsB
  h1 = h1
  h2 = h2
  s1 = s1
  s2 = s2
  AddrSpace = 8
  MaxScan = 8
  MaxTries = 2
  Configs <- TwoConfigs
  Services <- OneService
  ConfigSpecs <- AcrossFields
  ServiceSpecs <- AnyAddress
  Budget <- RestartCleanup
  Lag = TRUE
INVARIANTS NoCrossConfigDuplicate CrossInv
SYMMETRY ConfigSymmetry
CHECK_DEADLOCK FALSE
